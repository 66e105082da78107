------------------------------- MODULE Roots -------------------------------
(***************************************************************************)
(* Names as they are asked for, as they are on the tape and as they are in *)
(* the index.  A file system can have any name for its root; tapes that    *)
(* other programs wrote have theirs.  The persister of the index turns     *)
(* every name it is given into one below the root, which it remembers, and *)
(* guesses as long as it knows none.                                       *)
(*                                                                         *)
(* Every entry is a directory, which is all that names depend on; links    *)
(* are left out, and directories whose names end in a slash.               *)
(***************************************************************************)
EXTENDS Naturals, Sequences, SequencesExt, FiniteSets

CONSTANTS Paths,      \* of clients: sequences that are not empty
          Proposals,  \* roots a file system is initialized with
          Foreign,    \* tapes other programs have written: roots and a path
          NoRoot,     \* the answer when no process runs
          Permit,     \* what else clients do
          MaxTape     \* bound: headers on the tape

(* "/a/b", "a/b", "./a/b" and, without parts, "/", "", "./"; and ".".      *)
Spellings == {"abs", "rel"}
Name(form, parts) == [form |-> form, parts |-> parts]
Empty == Name("rel", <<>>)

(* "initialize": a lost index is left to Initialize, whatever the tape.    *)
(* "dot": entries are renamed below the root "./".                         *)
ASSUME RootsAssumption ==
  /\ <<>> \notin Paths /\ MaxTape \in Nat
  /\ Permit \subseteq {"initialize", "dot"}

VARIABLES
  tape,    \* headers: what they do, the name and, of a rename, the old one
  rows,    \* the index: names in the order they were inserted, and if live
  cache,   \* the root the persister remembers, and if it is the empty name
  answer,  \* what Initialize gave the process that runs, or NoRoot
  made     \* what clients have made: paths

vars == <<tape, rows, cache, answer, made>>

-----------------------------------------------------------------------------
(* Names.                                                                  *)

IsRoot(n) == n.parts = <<>>

Count(k) == IF k = 0 THEN 0 ELSE k - 1
Slashes(n) ==
  CASE n.form \in {"abs", "dot"} -> Count(Len(n.parts)) + 1
    [] n.form \in {"rel", "here"} -> Count(Len(n.parts))

(* filepath.Clean.                                                         *)
Cleaned(n) ==
  IF n.form \in {"abs", "here"} THEN n
  ELSE IF IsRoot(n) THEN Name("here", <<>>) ELSE Name("rel", n.parts)

Dir(n) == Cleaned([n EXCEPT !.parts = Front(n.parts)])

Below(n, d) == n.form = d.form /\ n # d /\ IsPrefix(d.parts, n.parts)

-----------------------------------------------------------------------------
(* The persister of the index.                                             *)

Exists(db, n) == \E i \in DOMAIN db : db[i].name = n /\ db[i].live

(* The live row with the fewest slashes; of several the first.             *)
LiveRows(db) == {i \in DOMAIN db : db[i].live}
Top(db) ==
  db[CHOOSE i \in LiveRows(db) : \A j \in LiveRows(db) :
       \/ Slashes(db[i].name) < Slashes(db[j].name)
       \/ Slashes(db[i].name) = Slashes(db[j].name) /\ i <= j].name

Unset == [root |-> Empty, isEmpty |-> FALSE]

(* A root that is the empty name is looked up every time.                  *)
GetRootPath(db, p) ==
  IF p.root # Empty \/ LiveRows(db) = {} THEN p ELSE [p EXCEPT !.root = Top(db)]

(* A name below the root, in the way the root is written.                  *)
Prefixed(root, n) ==
  IF root.form = "abs" /\ n.form = "abs" THEN n
  ELSE IF root.form = "here" \/ root = Empty THEN Name("rel", n.parts)
  ELSE IF root = Name("abs", <<>>) THEN Name("abs", n.parts)
  ELSE IF root.form = "rel" THEN n
  ELSE Name("dot", n.parts)

(* Faulty: it is not checked that the root is not the empty name.          *)
GuessUnchecked(db, p, n) == p.root = Empty /\ n.form = "abs" /\ ~p.isEmpty

(* The first absolute name is taken for the root if none is known.         *)
Guess(db, p, n) ==
  p.root = Empty /\ n.form = "abs" /\ ~p.isEmpty /\ ~Exists(db, Empty)

(* getSanitizedPath: the name, and what the persister remembers then.      *)
Sanitized(db, p, n) ==
  IF IsRoot(n) \/ n = p.root THEN [cache |-> p, name |-> p.root]
  ELSE IF Guess(db, p, n) THEN [cache |-> [p EXCEPT !.root = n], name |-> n]
  ELSE [cache |-> IF p.root = Empty /\ n.form = "abs" THEN [p EXCEPT !.isEmpty = TRUE] ELSE p,
        name |-> Prefixed(p.root, n)]

Upserted(db, n) ==
  IF \E i \in DOMAIN db : db[i].name = n
    THEN [i \in DOMAIN db |-> IF db[i].name = n THEN [db[i] EXCEPT !.live = TRUE] ELSE db[i]]
    ELSE Append(db, [name |-> n, live |-> TRUE])

Moved(db, old, new) ==
  [i \in DOMAIN db |-> IF db[i].name = old THEN [db[i] EXCEPT !.name = new] ELSE db[i]]

-----------------------------------------------------------------------------
(* Indexing.  at is the table, the persister's cache and the error.        *)

At(db, p) == [db |-> db, cache |-> p, err |-> FALSE]

(* Faulty: names are kept as they are on the tape.                         *)
IndexCreateRaw(at, h, initializing) == [at EXCEPT !.db = Upserted(@, h.name)]

IndexCreate(at, h, initializing) ==
  LET s == Sanitized(at.db, at.cache, h.name)
  IN  IF initializing THEN [at EXCEPT !.db = Upserted(@, h.name)]
      ELSE [at EXCEPT !.db = Upserted(@, s.name), !.cache = s.cache]

IndexDelete(at, h) ==
  LET s == Sanitized(at.db, at.cache, h.name)
  IN  IF Exists(at.db, s.name)
        THEN [at EXCEPT !.cache = s.cache,
                        !.db = [i \in DOMAIN @ |-> IF @[i].name = s.name
                                                     THEN [@[i] EXCEPT !.live = FALSE] ELSE @[i]]]
        ELSE [at EXCEPT !.cache = s.cache, !.err = TRUE]

(* Metadata and contents do not matter here, the lookup does.              *)
IndexChange(at, h) == [at EXCEPT !.cache = Sanitized(at.db, at.cache, h.name).cache]

(* Nothing is moved when nothing has the old name.                         *)
IndexRename(at, h) ==
  LET from == Sanitized(at.db, at.cache, h.from)
      to == Sanitized(at.db, from.cache, h.name)
      old == Sanitized(at.db, to.cache, h.from)
  IN  [at EXCEPT !.cache = old.cache, !.db = Moved(@, old.name, to.name)]

IndexHeader(at, h, initializing) ==
  CASE at.err           -> at
    [] h.do = "create"  -> IndexCreate(at, h, initializing)
    [] h.do = "delete"  -> IndexDelete(at, h)
    [] h.do = "change"  -> IndexChange(at, h)
    [] h.do = "rename"  -> IndexRename(at, h)

IndexAll(at, hdrs, initializing) ==
  FoldLeft(LAMBDA done, h : IndexHeader(done, h, initializing), at, hdrs)

-----------------------------------------------------------------------------
(* The process that serves the file system.                                *)

Header(do, n) == [do |-> do, name |-> n, from |-> n]

(* Clients may write "a" for "/a".  Wherever the root is neither "/" nor    *)
(* one of its like, the cache puts it before every name.                   *)
Asked(form, path) ==
  Cleaned(IF IsRoot(answer) THEN Name(form, path)
          ELSE Name(answer.form, answer.parts \o path))

InIndex(n) == Sanitized(rows, cache, n).name
IsFound(n) == Exists(rows, InIndex(n))

(* The header a scan of the whole tape can be trusted with: names that     *)
(* were made, written as the root is, which is that of no one else.        *)
IsUniform(t) == \A i \in DOMAIN t : t[i].do = "create" /\ t[i].name.form = t[1].name.form

(* The table is indexed from the tape, if there is one.  If that fails the *)
(* index is purged and a root appended to the tape; indexing it then fails *)
(* at the second header.                                                   *)
Initialize(proposal) ==
  LET opened == GetRootPath(rows, Unset)
      scanned == IndexAll(At(rows, opened), tape, TRUE)
      root == Header("create", proposal)
      start(db, p) == /\ rows' = db
                      /\ cache' = GetRootPath(db, p)
                      /\ answer' = cache'.root
  IN  /\ answer = NoRoot
      /\ IF LiveRows(rows) # {} THEN start(rows, opened) /\ UNCHANGED tape
         ELSE IF tape = <<>> THEN start(<<[name |-> proposal, live |-> TRUE]>>, Unset)
                                  /\ tape' = <<root>>
         ELSE /\ "initialize" \in Permit \/ (rows = <<>> /\ IsUniform(tape))
              /\ IF ~scanned.err THEN start(scanned.db, scanned.cache) /\ UNCHANGED tape
                 ELSE /\ Len(tape) < MaxTape
                      /\ tape' = Append(tape, root)
                      /\ rows' = <<[name |-> proposal, live |-> TRUE]>>
                      /\ UNCHANGED <<cache, answer>>
      /\ UNCHANGED made

Stop ==
  /\ answer # NoRoot
  /\ answer' = NoRoot /\ cache' = Unset
  /\ UNCHANGED <<tape, rows, made>>

(* Headers are written and indexed.  The first lookup of a call, of first, *)
(* decides what the persister remembers in all of it.                      *)
Perform(first, hdrs) ==
  LET done == IndexAll(At(rows, Sanitized(rows, cache, first).cache), hdrs, FALSE)
  IN  /\ Len(tape) + Len(hdrs) <= MaxTape
      /\ tape' = tape \o hdrs
      /\ rows' = done.db /\ cache' = done.cache
      /\ UNCHANGED answer

Mkdir(form, path) ==
  LET n == Asked(form, path)
  IN  /\ answer # NoRoot /\ IsFound(Dir(n)) /\ ~IsFound(n)
      /\ Perform(Dir(n), <<Header("create", n)>>)
      /\ made' = made \cup {path}

Chmod(form, path) ==
  LET n == Asked(form, path)
  IN  /\ answer # NoRoot /\ IsFound(n)
      /\ Perform(n, <<Header("change", InIndex(n))>>)
      /\ UNCHANGED made

RemoveEntry(form, path) ==
  LET n == Asked(form, path)
  IN  /\ answer # NoRoot /\ IsFound(n)
      /\ \A i \in LiveRows(rows) : ~Below(rows[i].name, InIndex(n))
      /\ Perform(n, <<Header("delete", InIndex(n))>>)
      /\ made' = made \ {path}

(* The name of a row when from becomes to.  What it begins with is only    *)
(* taken away when it is not behind "./".                                  *)
MovedName(n, from, to) ==
  LET rest == IF n.form # "dot" /\ IsPrefix(from.parts, n.parts)
                THEN SubSeq(n.parts, Len(from.parts) + 1, Len(n.parts))
                ELSE n.parts
  IN  Name(IF n.form = "abs" THEN to.form ELSE "rel", to.parts \o rest)

(* An entry and the live ones below it; to a name that no row has, deleted *)
(* ones included, nor any below it.                                        *)
Rename(form, path, toForm, to) ==
  LET from == Asked(form, path)
      new == Asked(toForm, to)
      old == InIndex(from)
      below == {i \in LiveRows(rows) : Below(rows[i].name, old)}
      moved == <<old>> \o [k \in 1 .. Cardinality(below) |-> rows[SetToSortSeq(below, <)[k]].name]
  IN  /\ answer # NoRoot /\ IsFound(from) /\ IsFound(Dir(new)) /\ ~IsPrefix(path, to)
      /\ \A i \in DOMAIN rows :
           rows[i].name # InIndex(new) /\ ~Below(rows[i].name, InIndex(new))
      /\ old.form = "dot" => "dot" \in Permit
      /\ Perform(from, [k \in DOMAIN moved |->
                          [do |-> "rename", name |-> MovedName(moved[k], from, new),
                           from |-> moved[k]]])
      /\ made' = {IF IsPrefix(path, p) THEN to \o SubSeq(p, Len(path) + 1, Len(p)) ELSE p :
                    p \in made}

-----------------------------------------------------------------------------
(* Other processes.                                                        *)

(* The database is gone.                                                   *)
Lose ==
  /\ answer = NoRoot /\ rows # <<>>
  /\ rows' = <<>>
  /\ UNCHANGED <<tape, cache, answer, made>>

(* recovery index -o: a purged index, and a persister that knows no root.  *)
RecoveryIndex ==
  /\ answer = NoRoot /\ tape # <<>>
  /\ rows' = IndexAll(At(<<>>, Unset), tape, FALSE).db
  /\ UNCHANGED <<tape, cache, answer, made>>

(* A new tape, or one that tar has written below its root.                 *)
Init ==
  /\ \/ tape = <<>> /\ made = {}
     \/ \E f \in Foreign :
          /\ tape = <<Header("create", f.root),
                      Header("create", Name(f.root.form, f.root.parts \o f.path))>>
          /\ made = {f.path}
  /\ rows = <<>> /\ cache = Unset /\ answer = NoRoot

Next ==
  \/ \E proposal \in Proposals : Initialize(proposal)
  \/ \E form \in Spellings, path \in Paths :
       Mkdir(form, path) \/ Chmod(form, path) \/ RemoveEntry(form, path)
  \/ \E form, toForm \in Spellings, path, to \in Paths : Rename(form, path, toForm, to)
  \/ Stop \/ Lose \/ RecoveryIndex

Spec == Init /\ [][Next]_vars
=============================================================================

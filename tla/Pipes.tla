------------------------------- MODULE Pipes -------------------------------
(***************************************************************************)
(* What a header and a content go through on their way to the drive and    *)
(* back: compression, encryption and signatures of contents, signatures    *)
(* and encryption of whole headers, and the suffixes of names.             *)
(*                                                                         *)
(* A stream is a content and the layers put around it; the layers are      *)
(* those of the libraries, which open what they closed.  A size is not a   *)
(* number but the stream it is the size of.  One configuration writes a    *)
(* tape; any may be used to read it.  Names do not end in a suffix: what   *)
(* becomes of those that do is part of Operations.                         *)
(***************************************************************************)
EXTENDS Naturals, Sequences

CONSTANTS Names, Contents, Empty,
          Keys,       \* pairs of keys
          Subkeyed,   \* PGP keys that sign with a subkey
          NoKey,      \* nothing that can be parsed as a key of the format
          None,       \* an absent PAX record
          Writers,    \* configurations a tape is written with
          Readers,    \* configurations others read it with
          MaxHeaders  \* bound: headers on the tape

Compressions == {"none", "gzip", "parallelgzip", "lz4", "zstandard", "brotli",
                 "bzip2", "parallelbzip2"}
Encryptions == {"none", "age", "pgp"}
Signatures == {"none", "minisign", "pgp"}

(* recipient: whom contents are encrypted for and signatures are checked   *)
(* against; identity: who decrypts and signs.  Reading uses one of each as *)
(* well.  record: blocks of a record; regular: the drive is a file.        *)
Configurations(records, keys) ==
  [compression : Compressions, encryption : Encryptions, signature : Signatures,
   regular : BOOLEAN, record : records, recipient : keys, identity : keys]

(* A content and the layers around it, the outermost last.                 *)
Layer == [format : Compressions \cup Encryptions, key : Keys \cup {NoKey, None}]
Stream == [data : Contents, layers : Seq(Layer), damaged : BOOLEAN]

(* A signature of one of these terms.                                      *)
SignatureOf(terms) ==
  [format : Signatures, of : terms, key : Keys \cup {NoKey}, subkey : BOOLEAN]

ASSUME PipesAssumption ==
  /\ Empty \in Contents /\ Subkeyed \subseteq Keys /\ NoKey \notin Keys
  /\ None \notin Names \cup Stream \cup SignatureOf(Stream)
  /\ Writers \cup Readers \subseteq Configurations(Nat, Keys \cup {NoKey})
  /\ MaxHeaders \in Nat

VARIABLES
  conf,     \* the configuration that writes
  tape,     \* the headers and bodies on it
  rows,     \* the index: a function from the names in it
  contents, \* what clients have written to these names
  drive     \* "free", or "locked" by an operation that failed

vars == <<conf, tape, rows, contents, drive>>

-----------------------------------------------------------------------------
(* Streams.                                                                *)

Plain(x) == [data |-> x, layers |-> <<>>, damaged |-> FALSE]

(* A layer is put around a stream, and taken off again.                    *)
Around(s, format, key) ==
  IF format = "none" THEN s
  ELSE [s EXCEPT !.layers = Append(@, [format |-> format, key |-> key])]

Peeled(s) == [s EXCEPT !.layers = SubSeq(@, 1, Len(@) - 1)]
IsAround(s, format, key) ==
  s.layers # <<>> /\ s.layers[Len(s.layers)] = [format |-> format, key |-> key]

(* Formats that read each other's streams; also the suffix they add.       *)
Family(compression) ==
  CASE compression = "parallelgzip"  -> "gzip"
    [] compression = "parallelbzip2" -> "bzip2"
    [] OTHER                         -> compression

-----------------------------------------------------------------------------
(* Writing.                                                                *)

EncryptRefused(c) == c.encryption # "none" /\ c.recipient = NoKey

PowerOf2Lower(n) == CHOOSE p \in {2 ^ k : k \in 0 .. 30} : p <= n /\ n < 2 * p

(* On a tape, some formats do not work at all and others need buffers that *)
(* fit into a record.                                                      *)
CompressRefused(c) ==
  LET size == PowerOf2Lower(512 * c.record)
  IN  /\ ~c.regular
      /\ \/ c.compression \in {"parallelgzip", "brotli"}
         \/ c.compression = "gzip" /\ size < 65535
         \/ c.compression = "lz4" /\ size < 65536
         \/ c.compression = "zstandard" /\ size < 1024

SignRefused(c) ==
  c.signature # "none" /\ (c.identity = NoKey \/ (c.signature = "minisign" /\ ~c.regular))

(* The drive stays locked after an operation that fails here.              *)
Refused(c, body) == EncryptRefused(c) \/ SignRefused(c) \/ (body /\ CompressRefused(c))

(* With PGP, a subkey signs if there is one.                               *)
Signature(term, c) ==
  IF c.signature = "none" THEN None
  ELSE [format |-> c.signature, of |-> term, key |-> c.identity,
        subkey |-> c.signature = "pgp" /\ c.identity \in Subkeyed]

(* Faulty: what has been encrypted is compressed.                          *)
CompressedOutside(x, c) ==
  Around(Around(Plain(x), c.encryption, c.recipient), Family(c.compression), None)

(* Compression, and encryption around it.                                  *)
Through(x, c) ==
  Around(Around(Plain(x), Family(c.compression), None), c.encryption, c.recipient)

SuffixOf(format) == IF format = "none" THEN <<>> ELSE <<format>>
AddSuffix(c) == SuffixOf(Family(c.compression)) \o SuffixOf(c.encryption)

(* The header of an entry without a body.                                  *)
Header(n, type, action) ==
  [wrap |-> "none", name |-> n, suffixes |-> <<>>, type |-> type, action |-> action,
   replaces |-> FALSE, from |-> None, size |-> Plain(Empty),
   uncompressed |-> None, signature |-> None]

(* Faulty: the size before compression is not kept.                        *)
WithBodyOnly(h, x, c) ==
  [h EXCEPT !.size = Through(x, c), !.signature = Signature(Plain(x), c),
            !.suffixes = AddSuffix(c)]

(* A content is signed as it is, before it goes through the pipes.         *)
WithBody(h, x, c) ==
  [h EXCEPT !.size = Through(x, c), !.uncompressed = Plain(x),
            !.signature = Signature(Plain(x), c), !.suffixes = AddSuffix(c)]

(* A header is embedded, as text, into a header that has nothing but its   *)
(* size and a signature of the text, and that once more, encrypted.        *)
SignHeader(h, c) ==
  IF c.signature = "none" THEN h
  ELSE [wrap |-> "signed", size |-> h.size, embedded |-> h, signature |-> Signature(h, c)]

EncryptHeader(h, c) ==
  IF c.encryption = "none" THEN h
  ELSE [wrap |-> "sealed", size |-> h.size, embedded |-> h,
        format |-> c.encryption, key |-> c.recipient]

-----------------------------------------------------------------------------
(* Reading.  Each operator has the set of what may come out; it is empty   *)
(* when reading fails.                                                     *)

(* Damage is noticed behind either format, at the latest at the end.       *)
Decrypted(s, r) ==
  IF r.encryption = "none" THEN {s}
  ELSE IF r.identity # NoKey /\ IsAround(s, r.encryption, r.identity) /\ ~s.damaged
    THEN {Peeled(s)} ELSE {}

(* All formats but brotli have checksums.  lz4 and zstandard read nothing  *)
(* as nothing.                                                             *)
Decompressed(s, r) ==
  IF r.compression = "none" THEN {s}
  ELSE IF IsAround(s, Family(r.compression), None) /\ (~s.damaged \/ r.compression = "brotli")
    THEN {Peeled(s)}
  ELSE IF s = Plain(Empty) /\ r.compression \in {"lz4", "zstandard"} THEN {s}
  ELSE {}

(* With PGP, the primary key checks.                                       *)
IsSignature(sig, term, r) ==
  sig = [format |-> r.signature, of |-> term, key |-> r.recipient, subkey |-> FALSE]

(* Faulty: the hash is not that of what has been read.                     *)
VerifiedUnread(s, sig, r) ==
  IF r.signature = "none" THEN {s}
  ELSE IF r.signature = "minisign" /\ ~r.regular THEN {}
  ELSE IF sig # None /\ IsSignature(sig, sig.of, r) THEN {s} ELSE {}

Verified(s, sig, r) ==
  IF r.signature = "none" THEN {s}
  ELSE IF r.signature = "minisign" /\ ~r.regular THEN {}
  ELSE IF IsSignature(sig, s, r) THEN {s} ELSE {}

DecryptedHeader(h, r) ==
  IF r.encryption = "none" THEN {h}
  ELSE IF /\ h.wrap = "sealed" /\ r.identity # NoKey
          /\ h.format = r.encryption /\ h.key = r.identity
    THEN {h.embedded} ELSE {}

(* With PGP, a header passes if there is no usable key or no PGP signature *)
(* to check it with.                                                       *)
VerifiedString(h, sig, r) ==
  \/ IsSignature(sig, h, r) /\ (r.signature = "minisign" => r.regular)
  \/ r.signature = "pgp" /\ (r.recipient = NoKey \/ sig.format # "pgp")

VerifiedHeader(h, r) ==
  IF r.signature = "none" THEN {h}
  ELSE IF h.wrap = "signed" /\ VerifiedString(h.embedded, h.signature, r)
    THEN {h.embedded} ELSE {}

HeadersRead(h, r) == UNION {VerifiedHeader(d, r) : d \in DecryptedHeader(h, r)}

(* What Fetch may report as the content at a position.  A header that was  *)
(* wrapped in a way the reader does not ask for is a regular file to it.   *)
FetchContent(h, body, r) ==
  LET sig == IF h.wrap = "sealed" THEN None ELSE h.signature
  IN  UNION {Verified(s, sig, r) :
               s \in UNION {Decompressed(d, r) : d \in Decrypted(body, r)}}

Fetched(at, r) ==
  UNION {FetchContent(h, tape[at].body, r) : h \in HeadersRead(tape[at].header, r)}

-----------------------------------------------------------------------------
(* Indexing.                                                               *)

(* A suffix is taken off where there is one.                               *)
Trimmed(suffixes, suffix) ==
  IF suffixes # <<>> /\ suffixes[Len(suffixes)] = suffix
    THEN SubSeq(suffixes, 1, Len(suffixes) - 1) ELSE suffixes

RemoveSuffix(h, c) ==
  IF h.type = "reg" THEN Trimmed(Trimmed(h.suffixes, c.encryption), Family(c.compression))
  ELSE h.suffixes

(* The row of a header, with the PAX records that later headers inherit.   *)
RowOf(h, at, c) ==
  [type |-> h.type, suffixes |-> RemoveSuffix(h, c), at |-> at, from |-> h.from,
   replaces |-> h.replaces, uncompressed |-> h.uncompressed, signature |-> h.signature,
   size |-> IF h.uncompressed # None THEN h.uncompressed ELSE h.size]

WithRow(index, n, row) == [m \in DOMAIN index \cup {n} |-> IF m = n THEN row ELSE index[m]]
Without(f, n) == [m \in DOMAIN f \ {n} |-> f[m]]

IndexUpdate(index, at, h, c) ==
  LET old == IF h.from = None THEN h.name ELSE h.from
      edited == IF h.replaces
                  THEN IF h.name \in DOMAIN index
                         THEN WithRow(index, h.name, RowOf(h, at, c)) ELSE index
                ELSE IF old \in DOMAIN index /\ h.name \in DOMAIN index
                  THEN WithRow(index, h.name, RowOf(h, index[old].at, c)) ELSE index
  IN  IF h.from = None \/ old \notin DOMAIN edited THEN edited
      ELSE WithRow(Without(edited, old), h.name, edited[old])

IndexHeader(index, at, h, c) ==
  CASE h.action = "create" -> WithRow(index, h.name, RowOf(h, at, c))
    [] h.action = "delete" -> Without(index, h.name)
    [] h.action = "update" -> IndexUpdate(index, at, h, c)

(* recovery index of one more header; it stops at one it cannot read.      *)
Rescanned(before, at, header, c) ==
  LET read == HeadersRead(header, c)
  IN  IF before.err \/ read = {} THEN [before EXCEPT !.err = TRUE]
      ELSE [err |-> FALSE,
            index |-> IndexHeader(before.index, at, CHOOSE h \in read : TRUE, c)]

Indexed(t, c) ==
  LET upTo[i \in 0 .. Len(t)] ==
        IF i = 0 THEN [err |-> FALSE, index |-> <<>>]
                 ELSE Rescanned(upTo[i - 1], i, t[i].header, c)
  IN  upTo

RecoveryIndex(c) == Indexed(tape, c)[Len(tape)]

-----------------------------------------------------------------------------
(* Operations.                                                             *)

(* Faulty: the header is remembered once it has been signed, when its PAX  *)
(* records are those of the signature.                                     *)
RememberedSigned(h, c) == IF c.signature = "none" THEN h ELSE [h EXCEPT !.uncompressed = None]

(* What the operation indexes is the header it remembers, not that on the  *)
(* tape.                                                                   *)
Remembered(h, c) == h

(* Bound: MaxHeaders.                                                      *)
Append1(h, body, hasBody, written) ==
  /\ drive = "free" /\ Len(tape) < MaxHeaders
  /\ IF Refused(conf, hasBody)
       THEN drive' = "locked" /\ UNCHANGED <<tape, rows, contents>>
       ELSE /\ tape' = Append(tape, [header |-> EncryptHeader(SignHeader(h, conf), conf),
                                     body |-> body])
            /\ rows' = IndexHeader(rows, Len(tape'), Remembered(h, conf), conf)
            /\ contents' = written
            /\ UNCHANGED drive
  /\ UNCHANGED conf

(* An empty file has no body when it is archived.                          *)
Archive(n, type, x) ==
  LET h == Header(n, type, "create")
  IN  /\ n \notin DOMAIN rows /\ (type = "dir" => x = Empty)
      /\ IF x = Empty THEN Append1(h, Plain(Empty), FALSE, WithRow(contents, n, x))
         ELSE Append1(WithBody(h, x, conf), Through(x, conf), TRUE, WithRow(contents, n, x))

(* Syncing an open file: a content, even an empty one, through the pipes.  *)
Update(n, x) ==
  LET h == [Header(n, "reg", "update") EXCEPT !.replaces = TRUE]
  IN  /\ n \in DOMAIN rows /\ rows[n].type = "reg"
      /\ Append1(WithBody(h, x, conf), Through(x, conf), TRUE, WithRow(contents, n, x))

(* A header made from a row, with its PAX records.                         *)
HeaderOfRow(n, action) ==
  [Header(n, rows[n].type, action) EXCEPT
     !.from = rows[n].from, !.replaces = rows[n].replaces,
     !.uncompressed = rows[n].uncompressed, !.signature = rows[n].signature]

Chmod(n) ==
  /\ n \in DOMAIN rows
  /\ Append1([HeaderOfRow(n, "update") EXCEPT !.replaces = FALSE], Plain(Empty), FALSE, contents)

(* Rows that were deleted are left out, and names that they have: what a   *)
(* move to one of these does is part of Operations.                        *)
Move(n, to) ==
  /\ n \in DOMAIN rows /\ to \notin DOMAIN rows
  /\ Append1([HeaderOfRow(n, "update") EXCEPT !.name = to, !.from = n], Plain(Empty), FALSE,
             WithRow(Without(contents, n), to, contents[n]))

Delete(n) ==
  /\ n \in DOMAIN rows
  /\ Append1(HeaderOfRow(n, "delete"), Plain(Empty), FALSE, Without(contents, n))

(* A fault: some of a body can be read, but is not what was written.       *)
Damage(at) ==
  /\ tape[at].body # Plain(Empty) /\ ~tape[at].body.damaged
  /\ tape' = [tape EXCEPT ![at].body.damaged = TRUE]
  /\ UNCHANGED <<conf, rows, contents, drive>>

Init ==
  /\ conf \in Writers
  /\ tape = <<>> /\ rows = <<>> /\ contents = <<>> /\ drive = "free"

Next ==
  \/ \E n \in Names : \/ \E type \in {"reg", "dir"}, x \in Contents : Archive(n, type, x)
                      \/ \E x \in Contents : Update(n, x)
                      \/ \E to \in Names : Move(n, to)
                      \/ Chmod(n) \/ Delete(n)
  \/ \E at \in DOMAIN tape : Damage(at)

Spec == Init /\ [][Next]_vars

-----------------------------------------------------------------------------
(* What is on the tape and in the index.                                   *)

PlainHeader ==
  [wrap : {"none"}, name : Names, suffixes : Seq(Compressions \cup Encryptions),
   type : {"reg", "dir"}, action : {"create", "update", "delete"}, replaces : BOOLEAN,
   from : Names \cup {None}, size : Stream, uncompressed : Stream \cup {None},
   signature : SignatureOf(Stream) \cup {None}]
SignedHeader ==
  [wrap : {"signed"}, size : Stream, embedded : PlainHeader,
   signature : SignatureOf(PlainHeader)]
SealedHeader ==
  [wrap : {"sealed"}, size : Stream, embedded : PlainHeader \cup SignedHeader,
   format : Encryptions, key : Keys \cup {NoKey}]
Row ==
  [type : {"reg", "dir"}, suffixes : Seq(Compressions \cup Encryptions), at : Nat,
   from : Names \cup {None}, replaces : BOOLEAN, uncompressed : Stream \cup {None},
   signature : SignatureOf(Stream) \cup {None}, size : Stream]

TypeOK ==
  /\ conf \in Writers
  /\ tape \in Seq([header : PlainHeader \cup SignedHeader \cup SealedHeader, body : Stream])
  /\ DOMAIN rows \subseteq Names /\ rows \in [DOMAIN rows -> Row]
  /\ DOMAIN contents \subseteq Names /\ contents \in [DOMAIN contents -> Contents]
  /\ drive \in {"free", "locked"}

(* Keys the writer can use, and that sign and decrypt what is checked and  *)
(* encrypted with them.                                                    *)
GoodKeys(c) ==
  /\ c.encryption # "none" \/ c.signature # "none"
       => c.recipient # NoKey /\ c.identity = c.recipient
  /\ c.signature = "pgp" => c.identity \notin Subkeyed

IsFile(n) == rows[n].type = "reg"
Body(n) == tape[rows[n].at].body
Piped(n) == tape[rows[n].at].header.size # Plain(Empty)

(* With the flags and the keys it was written with, every content that     *)
(* went through the pipes comes back as it was, whatever has been renamed, *)
(* changed or rewritten since and whatever the format and the drive.       *)
RoundTrip ==
  \A n \in DOMAIN rows :
    IsFile(n) /\ Piped(n) /\ ~Body(n).damaged /\ GoodKeys(conf)
      => Fetched(rows[n].at, conf) = {Plain(contents[n])}

(* Whoever reads a file with signatures on, with whatever other flags and  *)
(* keys, from whatever it has been copied to and however the body has been *)
(* damaged, either gets the content that was written or an error.          *)
SignedIsOriginal ==
  \A n \in DOMAIN rows : IsFile(n) =>
    \A r \in Readers : r.signature # "none" =>
      Fetched(rows[n].at, r) \subseteq {Plain(contents[n])}

(* The index that operations make of the headers they remember is the one  *)
(* that recovery index makes of the signed and encrypted ones on the tape. *)
IndexedAlike ==
  GoodKeys(conf) => RecoveryIndex(conf) = [err |-> FALSE, index |-> rows]

(* The size in the index is that of what the client wrote and not that of  *)
(* what is on the tape, and names have lost what was put on them.          *)
SizesMatch ==
  /\ DOMAIN rows = DOMAIN contents
  /\ \A n \in DOMAIN rows :
       rows[n].size = Plain(contents[n]) /\ rows[n].suffixes = <<>>
=============================================================================

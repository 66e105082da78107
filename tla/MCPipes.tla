------------------------------ MODULE MCPipes ------------------------------
(***************************************************************************)
(* Instances of Pipes for TLC.                                             *)
(***************************************************************************)
EXTENDS Pipes, FiniteSets

CONSTANTS k, s,                  \* a key without and a key with a subkey
          Formats, Records, Read \* compression formats written, sizes of a
                                 \* record, compression formats read with

KeyPairs == {<<k, k>>, <<s, s>>, <<NoKey, NoKey>>}

MCWriters ==
  {c \in Configurations(Records, {k, s, NoKey}) :
     /\ c.compression \in Formats /\ c.encryption \in {"none", "age"}
     /\ <<c.recipient, c.identity>> \in KeyPairs
     /\ c.regular => c.record = CHOOSE r \in Records : TRUE}

MCReaders ==
  {c \in Configurations({1}, {k, s, NoKey}) :
     /\ c.compression \in Read /\ c.encryption \in {"none", "age"}
     /\ c.identity \in {k, NoKey}}
=============================================================================

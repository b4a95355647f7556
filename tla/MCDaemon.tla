------------------------------ MODULE MCDaemon ------------------------------
(***************************************************************************)
(* Daemon for TLC: one file of each kind that discovery tells apart, of    *)
(* which a few appear on the disk.                                         *)
(***************************************************************************)
EXTENDS Daemon

KV(space, name, t, v) == [key |-> <<space, name>>, val |-> [t |-> t, v |-> v]]
Arch(a) == KV("general", "architecture", "string", a)
Q4 == KV("general", "file_type", "uint32", 15)

File(stem, suffix, no, quant, kvs) ==
  [gguf |-> TRUE, mmproj |-> FALSE, stem |-> stem, suffix |-> suffix, no |-> no,
   quant |-> quant, magic |-> TRUE, version |-> 3,
   kvCount |-> Len(kvs), kvs |-> kvs]

Kinds ==
  [\* a-q4_k_m.gguf, its tag from the name only
   plain |-> File("a", "none", 0, 15, <<Arch("llama")>>),
   \* a-00001.gguf and a-00002.gguf, shards by their metadata
   first |-> File("a", "bare", 1, UnknownQuant,
                  <<Arch("llama"), Q4, KV("split", "no", "uint16", 0)>>),
   second |-> File("a", "bare", 2, UnknownQuant,
                   <<Arch("llama"), Q4, KV("split", "no", "uint16", 1)>>),
   \* b-00001-of-00002.gguf, with a key repeated, and its second part
   of1 |-> File("b", "of", 1, UnknownQuant,
                <<Arch("qwen"), KV("general", "file_type", "int32", 2), Q4>>),
   of2 |-> File("b", "of", 2, UnknownQuant, <<Arch("qwen"), Q4>>),
   \* part 1 by its name, part 2 by its metadata, which is right
   renamed |-> File("b", "of", 1, UnknownQuant,
                    <<Arch("qwen"), Q4, KV("split", "no", "uint16", 1)>>),
   \* projectors by name, by architecture, by type
   mmproj |-> [File("b", "none", 0, 15, <<Arch("qwen")>>) EXCEPT !.mmproj = TRUE],
   clip |-> File("b", "none", 0, 15, <<Arch("clip")>>),
   typed |-> File("b", "none", 0, 15,
                  <<Arch("qwen"), KV("general", "type", "string", "projector")>>),
   \* a file of which a part is copied, one that is none, a value of no known type
   copying |-> [File("a", "none", 0, 15, <<Arch("llama")>>) EXCEPT !.kvCount = 9],
   text |-> [File("a", "none", 0, 15, <<>>) EXCEPT !.magic = FALSE],
   odd |-> File("a", "none", 0, 15, <<KV("a", "b", "type99", 0)>>)]

KindIs ==
  [k \in DOMAIN Kinds |->
     IF k \in {"plain", "first"} THEN <<<<"a">>, 15>>
     ELSE IF k = "of1" THEN <<<<"b">>, 15>> ELSE <<>>]

\* inspectFile sees every kind of file for what it is.
ASSUME KindsAssumption == \A k \in DOMAIN Kinds : inspectFile(Kinds[k]) = KindIs[k]

MCNames == {"plain"}
MCContent == [k \in MCNames |-> Kinds[k]]
MCIs == [k \in MCNames |-> KindIs[k]]
=============================================================================

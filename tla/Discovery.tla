----------------------------- MODULE Discovery -----------------------------
(***************************************************************************)
(* Model discovery (internal/supervisor/discovery.go) as operators on one  *)
(* file.  A file adds to GGUF's fields what its name says:                 *)
(*   gguf      its extension is .gguf                                      *)
(*   mmproj    its name holds "mmproj" or "projector"                      *)
(*   stem      the name without shard suffix and quantisation              *)
(*   suffix    "none", "of" (-00002-of-00003, -part-2) or "bare" (-00002)  *)
(*   no        the number in the suffix                                    *)
(*   quant     the quantisation in the name, UnknownQuant if none          *)
(* The walk over the directories is in Daemon.                             *)
(***************************************************************************)
EXTENDS GGUF

ProjectorArchs == {"clip", "siglip", "mmproj", "projector", "adapter", "x-proj"}

isProjectorArch(kv) ==
  \/ Architecture(kv) \in ProjectorArchs
  \/ Has(kv, <<"general", "type">>, {"string"})
     /\ kv[<<"general", "type">>].v \in {"projector", "mmproj", "adapter"}

\* The types that toInt knows; a split.no of any other is as good as none.
toIntOK(val) == val.t \in Unsigned \cup {"int64"}

\* The shard's number by the metadata, 0 if it says nothing.  A split.no of the
\* wrong type hides general.split.no.
metaShardNo(kv) ==
  LET key == IF <<"split", "no">> \in DOMAIN kv THEN <<"split", "no">> ELSE <<"general", "split.no">> IN
  IF key \in DOMAIN kv /\ toIntOK(kv[key]) /\ kv[key].v >= 0 THEN kv[key].v + 1 ELSE 0

\* The metadata overrules the name, and lets bare digits count as a suffix.
parseShardInfo(f, kv) ==
  LET meta == metaShardNo(kv) IN
  [shardNum  |-> IF meta > 0 THEN meta ELSE IF f.suffix = "of" THEN f.no ELSE 0,
   cleanStem |-> IF f.suffix = "bare" /\ meta = 0 THEN <<f.stem, f.no>> ELSE <<f.stem>>]

\* The tag is the metadata's quantisation, or the one in the name; either way
\* the name loses it.
deriveNameAndTag(cleanStem, f, metaQuant) ==
  <<cleanStem, IF metaQuant # UnknownQuant THEN metaQuant ELSE f.quant>>

\* The ID of the model that a file is, <<>> if inspectFile skips it: a projector,
\* a file that cannot be parsed, a later shard.
inspectFile(f) ==
  LET kv == HeaderKV(f)
      shard == parseShardInfo(f, kv)
  IN  IF /\ f.gguf /\ ~f.mmproj
         /\ ReadHeaderOK(f)
         /\ ~isProjectorArch(kv)
         /\ shard.shardNum <= 1
        THEN deriveNameAndTag(shard.cleanStem, f, extractMetadata(kv).Quantization)
        ELSE <<>>
=============================================================================

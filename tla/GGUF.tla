-------------------------------- MODULE GGUF --------------------------------
(***************************************************************************)
(* The GGUF header reader (internal/gguf/gguf.go), as operators on a file  *)
(* whose bytes have been cut into the fields that ReadHeader reads:        *)
(*   [magic, version, kvCount, kvs], kvs a sequence of [key, val], shorter *)
(*   than kvCount when the file is truncated.                              *)
(* A value is [t, v]: its type and its content.  An array's content is     *)
(* [depth, count]; a string beyond maxStringLength has the type "toolong". *)
(* A quantisation is named by its file_type code, so that FileTypeNames    *)
(* and the "TYPE_<n>" of an unlisted code are both the identity.  Numbers  *)
(* beyond TLC's integers (counts of 2^32 and more) are out of reach.       *)
(***************************************************************************)
EXTENDS Integers, Sequences

maxArrayLength == 1000000
maxKVCount     == 100000
maxArrayDepth  == 8

Unsigned == {"uint8", "uint16", "uint32", "uint64"}
Signed   == {"int8", "int16", "int32", "int64"}
Float    == {"float32", "float64"}

UnknownQuant == -1

\* readString and readValue return no error.
readValueOK(val) ==
  \/ val.t \in Unsigned \cup Signed \cup Float \cup {"bool"}
  \/ val.t = "string"
  \/ val.t = "array" /\ val.v.depth <= maxArrayDepth /\ val.v.count <= maxArrayLength

\* ReadHeader returns no error: the first field that is wrong ends it, and no
\* caller tells the errors apart.
ReadHeaderOK(f) ==
  /\ f.magic
  /\ f.version \in 1 .. 3
  /\ f.kvCount <= maxKVCount
  /\ Len(f.kvs) >= f.kvCount
  /\ \A i \in 1 .. f.kvCount : readValueOK(f.kvs[i].val)

\* The map it returns: a repeated key keeps its last value.
HeaderKV(f) ==
  LET at(k) == {i \in 1 .. f.kvCount : f.kvs[i].key = k}
      last(k) == CHOOSE i \in at(k) : \A j \in at(k) : j <= i
  IN  [k \in {f.kvs[i].key : i \in 1 .. f.kvCount} |-> f.kvs[last(k)].val]

Has(kv, k, types) == k \in DOMAIN kv /\ kv[k].t \in types

\* A number of any type that is not negative, a float without its fraction.
toUint64OK(val) == val.t \in Unsigned \cup Signed \cup Float /\ val.v >= 0

\* The first key of keys whose value is a number, or 0.
FirstNumber(kv, keys) ==
  LET good == {i \in DOMAIN keys : keys[i] \in DOMAIN kv /\ toUint64OK(kv[keys[i]])}
  IN  IF good = {} THEN 0
      ELSE kv[keys[CHOOSE i \in good : \A j \in good : i <= j]].v

\* A key "x.context_length" is written <<"x", "context_length">>; an architecture
\* owns the keys that begin with its name.
Architecture(kv) ==
  IF Has(kv, <<"general", "architecture">>, {"string"})
    THEN kv[<<"general", "architecture">>].v ELSE "unknown"

Quantization(kv) ==
  LET ftype == <<"general", "file_type">>
      named == <<"general", "quantization">>
  IN  IF ftype \in DOMAIN kv /\ (toUint64OK(kv[ftype]) \/ kv[ftype].t = "string")
        THEN kv[ftype].v
      ELSE IF Has(kv, named, {"string"}) THEN kv[named].v
      ELSE UnknownQuant

extractMetadata(kv) ==
  LET arch == Architecture(kv) IN
  [Architecture  |-> arch,
   ContextLength |-> FirstNumber(kv, <<<<arch, "context_length">>,
                                       <<"general", "context_length">>,
                                       <<"llm", "context_length">>>>),
   BlockCount    |-> FirstNumber(kv, <<<<arch, "block_count">>, <<"llm", "block_count">>>>),
   Quantization  |-> Quantization(kv)]
=============================================================================

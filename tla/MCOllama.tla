------------------------------ MODULE MCOllama ------------------------------
(***************************************************************************)
(* Ollama for TLC, with the pure operators of Config and parseKeepAlive    *)
(* compared to what they are for over small tables.                        *)
(***************************************************************************)
EXTENDS Ollama, TLC

MCTarget == [keys |-> <<"a:q4", "a", "/m/a.gguf", "a.gguf">>]
MCCatalogue == {MCTarget, [keys |-> <<"b:q4", "b", "/m/b4.gguf", "b4.gguf">>],
                          [keys |-> <<"b:q8", "b", "/m/b8.gguf", "b8.gguf">>]}
MCRefs == {"a:q4", "a", "b", "c"}
MCModelTTLs == [k \in {"a"} |-> 8]
MCCfgTTL == [k \in {"a:q4"} |-> 7]

Symmetry == Permutations(Requests)

MCChunks == {"x", "y"}

MCKeepAlives ==
  {[form |-> "absent", v |-> 0], [form |-> "unit", v |-> 5], [form |-> "number", v |-> -10]}

\* ollama_test.go's table of keep_alive fields, and its edges: only a field that
\* is zero, or less than the smallest duration, or NaN unloads; a field that is no
\* duration changes nothing; a negative one never becomes a timer.
Raws == [form : {"unit", "bare", "number"}, v : -30..30 \cup {1000}]
KeepAliveAssumption ==
  /\ \A raw \in Raws : \A p \in parseKeepAlive(raw) :
       /\ p.ok /\ p.ttl = 0 =>
            raw.v \in IF raw.form = "unit" THEN {0} ELSE 0..9
       /\ raw.v < 0 => p.ok /\ p.ttl < 0
       /\ ~p.ok => raw.form = "unit" /\ raw.v > MaxDuration /\ p.ttl = 0
  /\ \A form \in {"absent", "null", "blank", "garbage"} :
       parseKeepAlive([form |-> form]) = {Unset}
ASSUME KeepAliveAssumption

\* docs/adr/0001 section 5: any runtime override beats any of the file, whatever
\* the keys; within one source the ID beats the name, the path, the file name.
TTLMaps(v) == UNION {[K -> v] : K \in SUBSET {MCTarget.keys[i] : i \in 1..4}}
SourcePrecedenceAssumption ==
  \A run \in TTLMaps({1, 2}), file \in TTLMaps({3}) :
    LET d == resolveTTLLocked(MCTarget, MCCatalogue, run, file, 9) IN
    /\ d \in {1, 2} <=> run # <<>>
    /\ d = 3 <=> run = <<>> /\ file # <<>>
    /\ \A i \in 1..4 :
         MCTarget.keys[i] \in DOMAIN run /\ (\A j \in 1..i - 1 : MCTarget.keys[j] \notin DOMAIN run)
           => d = run[MCTarget.keys[i]]
ASSUME SourcePrecedenceAssumption

\* Whatever file the start accepts: slots are positive, a pin has both its fields
\* and a context, and no flag that launchConfig computes appears a second time.
Flags == {[name |-> n, eq |-> e] : n \in {"-c", "--parallel", "--flash-attn"}, e \in BOOLEAN}
Entries == [ttl : {<<>>} \cup {<<[ok |-> o, d |-> 4]>> : o \in BOOLEAN}, argv : {<<>>} \cup {<<f>> : f \in Flags},
            slots : {<<>>, <<0>>, <<2>>},
            pin : {<<>>} \cup {<<[ctx_len |-> c, offload |-> o]>> : c, o \in {<<>>, <<0>>, <<3>>}}]
Configs == UNION {[{k} -> Entries] : k \in {"a:q4", "a"}} \cup {<<>>}
ConfigAssumption ==
  \A cfg \in Configs : loadConfigOK(cfg) =>
    /\ resolveSlots(MCTarget, cfg, 1) > 0
    /\ resolvePin(MCTarget, cfg) # <<>> => resolvePin(MCTarget, cfg)[1].CtxLen > 0
    /\ LET argv == launchArgv(MCTarget, cfg) IN
       \A i \in DOMAIN argv : i > 4 => argv[i].name \notin reservedFlags
ASSUME ConfigAssumption
=============================================================================

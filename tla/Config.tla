------------------------------- MODULE Config -------------------------------
(***************************************************************************)
(* The configuration file and the per-model settings that come out of it   *)
(* (loadConfig, lookupByModelKeys and the resolve functions in             *)
(* supervisor.go), as operators.                                           *)
(*                                                                         *)
(* A model is looked up by the sequence m.keys of its ID, its name, its    *)
(* path and its file name.  An entry of the file has the flags of its argv,*)
(* a ttl that parses (ok) or not, slots and a pin; what is not set is <<>>,*)
(* a pin's fields likewise.                                                *)
(***************************************************************************)
EXTENDS Integers, Sequences, FiniteSetsExt

reservedFlags == {"-m", "--model", "-c", "--ctx-size", "-ngl", "--n-gpu-layers",
                  "-np", "--parallel"}

\* A flag is [name, eq]: "-c" or "-c=", either way it is reserved by its name.
isReservedFlag(arg) == arg.name \in reservedFlags

PinOK(pin) ==
  /\ pin.ctx_len # <<>> /\ pin.offload # <<>>
  /\ pin.ctx_len # <<0>>

\* loadConfig: one bad entry, of whatever model, fails the start.
EntryOK(mc) ==
  /\ mc.ttl # <<>> => mc.ttl[1].ok
  /\ \A i \in DOMAIN mc.argv : ~isReservedFlag(mc.argv[i])
  /\ mc.slots # <<>> => mc.slots[1] > 0
  /\ mc.pin # <<>> => PinOK(mc.pin[1])

loadConfigOK(cfg) == \A ref \in DOMAIN cfg : EntryOK(cfg[ref])

configTTL(cfg) == [ref \in {x \in DOMAIN cfg : cfg[x].ttl # <<>>} |-> cfg[ref].ttl[1].d]

\* The first of m's keys that has a value decides; <<>> if none has.
lookupByModelKeys(m, byKey) ==
  LET hits == {i \in DOMAIN m.keys : m.keys[i] \in DOMAIN byKey} IN
  IF hits = {} THEN <<>> ELSE <<byKey[m.keys[Min(hits)]]>>

resolveModelConfig(m, cfg) == lookupByModelKeys(m, cfg)

resolveSlots(m, cfg, slotsPerInstance) ==
  LET mc == resolveModelConfig(m, cfg) IN
  IF mc # <<>> /\ mc[1].slots # <<>> THEN mc[1].slots[1] ELSE slotsPerInstance

resolveArgv(m, cfg) ==
  LET mc == resolveModelConfig(m, cfg) IN IF mc # <<>> THEN mc[1].argv ELSE <<>>

\* Both fields are dereferenced, as loadConfig has made sure that they are set.
resolvePin(m, cfg) ==
  LET mc == resolveModelConfig(m, cfg) IN
  IF mc # <<>> /\ mc[1].pin # <<>>
    THEN <<[CtxLen |-> mc[1].pin[1].ctx_len[1], Offload |-> mc[1].pin[1].offload[1]]>>
    ELSE <<>>

\* launchConfig's command line, as far as flags go: the computed ones come first
\* and the operator's are appended.
launchArgv(m, cfg) ==
  [i \in 1..4 |-> [name |-> <<"-m", "-c", "-ngl", "-np">>[i], eq |-> FALSE]]
    \o resolveArgv(m, cfg)

\* The runtime's override for the ID, then for any other key of a model that is
\* in the catalogue, then the file's, then the default.
resolveTTLLocked(m, catalogue, modelTTLs, cfgTTL, defaultTTL) ==
  LET known   == IF m \in catalogue THEN m ELSE [keys |-> <<m.keys[1]>>]
      runtime == lookupByModelKeys(known, modelTTLs)
      file    == IF m \in catalogue THEN lookupByModelKeys(m, cfgTTL) ELSE <<>>
  IN  IF runtime # <<>> THEN runtime[1]
      ELSE IF file # <<>> THEN file[1]
      ELSE defaultTTL

\* resolveModel: an exact ID, else the one model of that ID or name.
Matches(catalogue, ref) ==
  LET exact == {m \in catalogue : m.keys[1] = ref} IN
  IF exact # {} THEN exact ELSE {m \in catalogue : m.keys[2] = ref}
=============================================================================

------------------------------ MODULE Admission ------------------------------
(***************************************************************************)
(* The checks a configuration and a request pass on their way into the     *)
(* model: at the start of the server (config/server_args.py,               *)
(* pipelines/eraserdit_erase_pipeline.py load_modules), at the submission  *)
(* of a request (config/service_contracts/eraserdit.py), and again when    *)
(* the task runs (forward), with what the server advertises in between     *)
(* (entrypoints/server/serve.py).  Each place calls a different selection  *)
(* of the same validators.                                                 *)
(*                                                                         *)
(* A server s is a configuration of DiTTopology with the VAE degree,       *)
(* tiling, the number of visible devices and the Q6 extensions; a request  *)
(* r has the cache mode, the caching of text projections, the blocks       *)
(* Cache-DiT computes, the window length, the overlap and the compact      *)
(* tail.                                                                   *)
(***************************************************************************)
EXTENDS Integers, Sequences, DiTTopology

LOCAL Larger(a, b) == IF a > b THEN a ELSE b
Offloads(s) == s.offload /= {}                    \* RuntimeResourcePolicy.enabled
Blocks == 28                                      \* transformer blocks of the model

(* validate_transformer_compile and validate_component_compile             *)
CompileOK(s, r) ==
    s.compile = "transformer" =>
        /\ s.offload \cap {"dit", "layerwise"} = {}
        /\ s.sp <= 1 /\ ~s.cfgDevice /\ s.cfg \in {1, 2}
        /\ s.quantization = "none" /\ s.fusion = "disabled" /\ s.attention = "sdpa"
        /\ r.cache = "off" /\ ~r.text
ComponentsOK(s) == /\ "text_encoder" \in s.components => "text" \notin s.offload
                   /\ "vae" \in s.components => s.vae <= 1

(* ServerArgs.__post_init__ *)
ServerArgsOK(s) ==
    /\ ValidateNccl(s, NoRequest).ok
    /\ CompileOK(s, NoRequest) /\ ComponentsOK(s)
    /\ ~({"dit", "layerwise"} \subseteq s.offload)

(* validate_q6_extensions and validate_quantization                        *)
Q6OK(s) ==
    s.q6 => /\ s.backend /= "nccl" /\ s.cfg = 1 /\ s.sp = 1 /\ s.tp = 1 /\ ~s.cfgDevice
            /\ "layerwise" \notin s.offload /\ s.compile = "off" /\ s.components = {}
            /\ s.attention = "sage_fp8" /\ s.quantization = "static" /\ s.scope = "ffn"
QuantizationOK(s) ==
    /\ Q6OK(s)
    /\ s.quantization /= "none" =>
         /\ ~(s.fusion /= "disabled" /\ s.sp > 1 /\ s.backend /= "nccl")
         /\ ~s.cfgDevice

(* validate_cfg_parallel *)
CfgDeviceOK(s, r) ==
    s.cfgDevice => /\ s.devices >= 2 /\ ~Offloads(s) /\ s.compile = "off"
                   /\ r.cache = "off" /\ ~r.text

(* resolve_mesh: the number of devices the mesh takes, or a refusal.       *)
PeerMeshOK(s) ==
    LET size == Larger(s.sp * s.cfg, s.vae)
    IN /\ s.sp \in {1, 2, 4} /\ s.cfg \in {1, 2} /\ s.vae \in {1, 2, 4}
       /\ s.mode = "ring" => s.sp = 2 /\ s.attention = "sdpa"
       /\ size > 1 \/ s.tiling =>
            /\ s.sp * s.cfg <= 4
            /\ s.linear \in {"reference", "sharded"}
            /\ ~(s.cfgDevice /\ s.sp * s.cfg > 1)
            /\ ~(size > 1 /\ Offloads(s) /\ (s.offload \cap {"dit", "layerwise"} /= {} \/ s.vae > 1))
            /\ size <= s.devices
ResolveMeshOK(s, r) ==
    LET v == ValidateNccl(s, r)
    IN /\ v.ok
       /\ IF s.backend = "nccl" THEN Larger(WorldSize(v.topology), s.vae) <= s.devices
          ELSE PeerMeshOK(s)

(* validate_memory_config *)
MemoryOK(s, r) ==
    /\ ValidateNccl(s, r).ok /\ CompileOK(s, r) /\ ComponentsOK(s)
    /\ Offloads(s) => /\ Larger(s.sp, s.cfg) > 1 => s.offload \cap {"dit", "layerwise"} = {}
                      /\ s.vae <= 1 /\ ~s.cfgDevice
    /\ "layerwise" \in s.offload => r.cache \in {"off", "teacache"}

(* _build_server_args and load_modules: the server comes up.               *)
Starts(s) == /\ ServerArgsOK(s)
             /\ QuantizationOK(s) /\ CfgDeviceOK(s, NoRequest)
             /\ ResolveMeshOK(s, NoRequest) /\ MemoryOK(s, NoRequest)

-----------------------------------------------------------------------------
(* CacheDitParams.__post_init__: of the fields, the two counts of blocks.  *)
CacheDitParamsOK(r) == r.front >= 1 /\ r.back >= 0

(* resolve_eraserdit_cache_params; compilation is not looked at.           *)
CacheParamsOK(r) == /\ CacheDitParamsOK(r)
                    /\ r.cache = "cache_dit" => r.front + r.back < Blocks

(* EraserDiTVideoRequest.validate_cross_fields, with its field bounds.     *)
SchemaOK(r) == /\ r.infer >= 9 /\ r.overlap >= 0 /\ r.overlap < r.infer
               /\ r.compact => r.overlap % 8 = 1 /\ r.infer % 8 = 1
               /\ CacheParamsOK(r)

(* _validate_eraserdit_request *)
Mut_Admitted(s, r) == SchemaOK(r) /\ CompileOK(s, r)
Admitted(s, r) == SchemaOK(r) /\ ValidateNccl(s, r).ok /\ CompileOK(s, r)

(* build_eraserdit_sampling_params and EraserDiTEraseSamplingParams        *)
ParamsOK(r) == /\ CacheParamsOK(r)
               /\ r.overlap < r.infer
               /\ r.compact => r.overlap >= 1 /\ r.overlap % 8 = 1 /\ r.infer % 8 = 1

(* EraserDiTErasePipeline.forward and the denoising stage                  *)
Runs(s, r) == /\ ParamsOK(r)
              /\ QuantizationOK(s) /\ CfgDeviceOK(s, r)
              /\ ResolveMeshOK(s, r) /\ MemoryOK(s, r) /\ CompileOK(s, r)

-----------------------------------------------------------------------------
(* _effective_acceleration: the cache modes the server says it supports.   *)
SupportedModes(s) ==
    IF \/ s.compile /= "off"
       \/ s.backend = "nccl" /\ ~Resident(s, ResolveTopology(s))
    THEN {"off"}
    ELSE {"off", "teacache"} \cup (IF "layerwise" \in s.offload THEN {} ELSE {"cache_dit"})
==============================================================================

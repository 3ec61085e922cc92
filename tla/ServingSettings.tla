-------------------------- MODULE ServingSettings --------------------------
(***************************************************************************)
(* How a setting of the deployment reaches the two ranks: the operator's   *)
(* environment, serve-profile.sh (defaults and rules of a profile),        *)
(* start-cluster.sh (its own defaults, what it exports to the worker),     *)
(* the launcher on each host (its defaults, the drafter variant it derives *)
(* from files), the boot patches of the container, and the kernel banner.  *)
(*                                                                         *)
(* An environment is a function from names of settings to strings. Network *)
(* addresses and directories no rule reads are left out, and so are the    *)
(* failures of hosts and commands (ClusterStart): both hosts have the same *)
(* files and images, and every start of this module runs to its end.       *)
(***************************************************************************)
EXTENDS Naturals, TLC

CONSTANT Overrides              \* the environments an operator starts from

VARIABLES
    command,                    \* "direct" for start-cluster.sh, or the profile served
    asked,                      \* what the operator exported
    stage,                      \* the script that runs next, or how the start ended
    env,                        \* the environment of the script that runs
    container                   \* per rank, what its container was given

serveVars == <<command, asked, stage, env, container>>

\* default_var: a variable set to nothing keeps it. ${X:-d}: it takes the default.
DefaultVar(e, defaults) == e @@ defaults
OrDefault(e, defaults) == [x \in {y \in DOMAIN e : e[y] # ""} |-> e[x]] @@ defaults @@ e

\* The checkpoints of the drafter by directory: hf_quant_config.json, and the hash.
Quantized(path) == path = "mxfp8-draft"
Sha(path) == IF Quantized(path) THEN "mxfp8-sha" ELSE "bf16-sha"
ControlMount == "/etc/glm53/adaptive-scheduler"

Fp8Profile == {"nvfp4-fp8-dcp2", "exl3-fp8-dcp2"}
Fp8Image == {"e2-fp8-dcp2", "e3-fp8-dcp2"}

ProfileDefaults ==
    "nvfp4-fp4-dcp2" :> [IMAGE |-> "gscale", MODEL_HOST_PATH |-> "nvfp4", QUANTIZATION |-> "",
        MOE_BACKEND |-> "marlin", VLLM_ATTENTION_BACKEND |-> "", USE_CALIBRATED_NVFP4_MLA |-> "1"] @@
    "nvfp4-fp8-dcp2" :> [IMAGE |-> "e2-fp8-dcp2", MODEL_HOST_PATH |-> "nvfp4", QUANTIZATION |-> "",
        MOE_BACKEND |-> "marlin", VLLM_ATTENTION_BACKEND |-> "sm120", USE_CALIBRATED_NVFP4_MLA |-> "0",
        BLOCK_SIZE |-> "2048", MAX_MODEL_LEN |-> "524288", DFLASH_DRAFT_VARIANT |-> "mxfp8",
        VLLM_DFLASH_ONLY_CUDAGRAPH |-> "1"] @@
    "exl3-fp4-dcp2" :> [IMAGE |-> "e2-fp4-dcp2", MODEL_HOST_PATH |-> "exl3", QUANTIZATION |-> "exl3",
        MOE_BACKEND |-> "auto", VLLM_ATTENTION_BACKEND |-> "", USE_CALIBRATED_NVFP4_MLA |-> "1"] @@
    "exl3-fp8-dcp2" :> [IMAGE |-> "e3-fp8-dcp2", MODEL_HOST_PATH |-> "exl3", QUANTIZATION |-> "exl3",
        MOE_BACKEND |-> "auto", VLLM_ATTENTION_BACKEND |-> "sm120", USE_CALIBRATED_NVFP4_MLA |-> "0",
        BLOCK_SIZE |-> "2048", DFLASH_DRAFT_VARIANT |-> "mxfp8", VLLM_DFLASH_ONLY_CUDAGRAPH |-> "1",
        GLM53_SPINWAIT_MS |-> "16", EXL3_FAT_GROUPED |-> "1", EXL3_TEMP_ROWS_FUSED |-> "64",
        MAX_NUM_BATCHED_TOKENS |-> "7168"]
Profile == DOMAIN ProfileDefaults

DraftDefaults(variant) ==
    IF variant = "mxfp8"
    THEN [DRAFT_HOST_PATH |-> "mxfp8-draft", DFLASH_DRAFT_QUANTIZATION |-> "modelopt_mxfp8",
          VLLM_USE_B12X_FP8_GEMM |-> "1", EXPECTED_DRAFT_SHA256 |-> "mxfp8-sha"]
    ELSE [DRAFT_HOST_PATH |-> "bf16-draft", DFLASH_DRAFT_QUANTIZATION |-> "",
          VLLM_USE_B12X_FP8_GEMM |-> "0", EXPECTED_DRAFT_SHA256 |-> ""]

AdaptiveKDefaults ==
    [GLM53_ADAPTIVE_K |-> "off", GLM53_ADAPTIVE_K_SET |-> "2,4,7", GLM53_ADAPTIVE_K_ALPHA |-> "0.25",
     GLM53_ADAPTIVE_K_MARGIN |-> "1.0", GLM53_ADAPTIVE_K_MIN_STEPS |-> "4",
     GLM53_ADAPTIVE_K_SATURATE |-> "max", GLM53_ADAPTIVE_K_HIST |-> "200", GLM53_DENSE_FP8 |-> "off"]

SchedulerDefaults ==
    [ENABLE_DECODE_FIRST_SCHEDULER |-> "1", PREFILL_ADMISSION_POLICY |-> "adaptive",
     PREFILL_SCHEDULE_INTERVAL |-> "4", LONG_PREFILL_TOKEN_THRESHOLD |-> "512"]

Exl3Defaults ==
    [EXL3_FUSED_MOE |-> "1", EXL3_MOE_ROW_TILE |-> "0", EXL3_FAT_KERNEL |-> "1",
     EXL3_FAT_GROUPED |-> "0", EXL3_TEMP_ROWS_FUSED |-> "128"]

\* The experiments: start-cluster.sh and the launcher give them the same defaults.
ExperimentDefaults ==
    [EXL3_FAT_PIPELINE |-> "off", EXL3_FAT_PIPELINE_CONTROL |-> "", GLM53_EXL3_MOE_FAST |-> "0",
     GLM53_EXL3_MOE_STREAM_WEIGHTS |-> "0", EXL3_FUSED_FAT_ACTIVATION |-> "0",
     EXL3_FAT_ACTIVATION_CONTROL |-> ""]

EngineDefaults ==
    [DCP_SIZE |-> "2", USE_FP4_INDEXER_CACHE |-> "0", BLOCK_SIZE |-> "2304",
     GPU_MEMORY_UTILIZATION |-> "0.87", MAX_MODEL_LEN |-> "1048576", MAX_NUM_SEQS |-> "6",
     MAX_NUM_BATCHED_TOKENS |-> "8192", KV_CACHE_DTYPE |-> "fp8_e4m3", ENABLE_DFLASH |-> "1",
     DFLASH_TOKENS |-> "7", VLLM_DFLASH_ONLY_CUDAGRAPH |-> "0",
     VLLM_DFLASH_CUDAGRAPH_BATCHES |-> "1,2,3,4,5,6", COMPACT_SPEC_REPLAY |-> "1",
     GLM53_SPINWAIT_MS |-> "stock"]

SamplingDefaults ==
    [DFLASH_DRAFT_SAMPLE_METHOD |-> "", DFLASH_REJECTION_SAMPLE_METHOD |-> ""]

CommonDefaults ==
    EngineDefaults @@ SamplingDefaults @@ AdaptiveKDefaults @@ SchedulerDefaults @@ Exl3Defaults
        @@ ExperimentDefaults @@ [DFLASH_DRAFT_TP |-> "2", TARGET_CUDAGRAPH_SCOPE |-> "off"]

\* The decode graph of the target holds the drafted tokens and one more.
TargetGraph == [t \in {"", "2", "7", "9"} |->
    CASE t = "" -> "decode 1" [] t = "2" -> "decode 3" [] t = "7" -> "decode 8" [] t = "9" -> "decode 10"]
GraphDefaults(e) ==
    IF e.TARGET_CUDAGRAPH_SCOPE = "c1"
    THEN [ENFORCE_EAGER |-> "0", COMPILATION_CONFIG |-> TargetGraph[e.DFLASH_TOKENS]]
    ELSE [ENFORCE_EAGER |-> "1", COMPILATION_CONFIG |-> ""]

VariantOf(p, e) == DefaultVar(DefaultVar(e, ProfileDefaults[p]), [DFLASH_DRAFT_VARIANT |-> "bf16"])
Configured(p, e) ==
    LET v == VariantOf(p, e)
        c == DefaultVar(DefaultVar(v, DraftDefaults(v.DFLASH_DRAFT_VARIANT)), CommonDefaults)
    IN  DefaultVar(c, GraphDefaults(c))

\* The values a pattern of the scripts turns away.
Malformed == {"x"}

DrafterRules(p, e) ==
    /\ e.DFLASH_DRAFT_VARIANT \in {"bf16", "mxfp8"}
    /\ e.DFLASH_DRAFT_VARIANT = "mxfp8" => p \in Fp8Profile
    /\ e.TARGET_CUDAGRAPH_SCOPE \in {"off", "c1"}
    /\ e.TARGET_CUDAGRAPH_SCOPE = "c1" => e.ENABLE_DFLASH = "1" /\ p \in Fp8Profile

AdaptiveKRules(p, e) ==
    /\ e.GLM53_ADAPTIVE_K \in {"off", "ema", "on", "1"}
    /\ e.GLM53_ADAPTIVE_K # "off" =>
           p = "exl3-fp8-dcp2" /\ e.ENABLE_DFLASH = "1" /\ e.DFLASH_TOKENS = "7"
    /\ e.GLM53_DENSE_FP8 \notin {"", "off", "0", "no", "none"} =>
           e.GLM53_DENSE_FP8 \notin Malformed /\ p = "exl3-fp8-dcp2"

Exl3Rules(p, e) ==
    LET fused == p = "exl3-fp8-dcp2" /\ e.EXL3_FUSED_MOE = "1"
        untiled == fused /\ e.EXL3_MOE_ROW_TILE = "0"
    IN  /\ e.EXL3_FAT_PIPELINE_CONTROL # "" =>
               untiled /\ e.EXL3_FAT_KERNEL = "1" /\ e.PREFILL_ADMISSION_POLICY = "adaptive"
        /\ e.EXL3_FAT_PIPELINE \in {"off", "m128", "m64", "m64_norepack"}
        /\ e.EXL3_FAT_PIPELINE # "off" => untiled /\ e.EXL3_FAT_KERNEL = "1"
        /\ e.EXL3_FAT_GROUPED \in {"0", "1"}
        /\ e.EXL3_FAT_GROUPED = "1" => untiled
        /\ e.GLM53_EXL3_MOE_STREAM_WEIGHTS \in {"0", "1"}
        /\ e.GLM53_EXL3_MOE_STREAM_WEIGHTS = "1" => fused /\ e.GLM53_EXL3_MOE_FAST = "1"

Canonical(e) ==
    OrDefault(e, [DFLASH_DRAFT_SAMPLE_METHOD |-> "probabilistic", GLM53_ADAPTIVE_K |-> "ema"])

ServeProfile ==
    LET p == IF command = "direct" THEN "exl3-fp8-dcp2" ELSE command
        e == Configured(p, IF command = "direct" THEN Canonical(env) ELSE env)
    IN  /\ stage = "profile"
        /\ IF DrafterRules(p, e) /\ AdaptiveKRules(p, e) /\ Exl3Rules(p, e)
           THEN env' = e /\ stage' = "cluster"
           ELSE env' = env /\ stage' = "refused"
        /\ UNCHANGED <<command, asked, container>>

-----------------------------------------------------------------------------
\* start-cluster.sh and the launcher repeat these; they differ in what follows.
SharedDefaults ==
    EngineDefaults @@ AdaptiveKDefaults @@ SchedulerDefaults @@ Exl3Defaults @@ ExperimentDefaults
        @@ [DRAFT_HOST_PATH |-> "bf16-draft", MOE_BACKEND |-> "marlin", ENFORCE_EAGER |-> "1",
            VLLM_B12X_USE_CUDA_GRAPH |-> "0", VLLM_B12X_CUDA_GRAPH_MAX_TOKENS |-> "64",
            ADAPTIVE_SCHEDULER_CONFIG |-> "profiles", ADAPTIVE_SCHEDULER_RELOAD_SECONDS |-> "1",
            ENABLE_NVFP4_MLA_CAPTURE |-> "0", CAPTURE_GROUPS_PER_STRATUM |-> "65536",
            CAPTURE_GROUPS_PER_CALL |-> "1024", PROFILER_CONFIG |-> "", CUDA_LAUNCH_BLOCKING |-> "0"]

ClusterDefaults ==
    SharedDefaults @@ [IMAGE |-> "gscale", MODEL_HOST_PATH |-> "nvfp4", USE_CALIBRATED_NVFP4_MLA |-> "1"]

Calibrated(e) ==
    IF e.USE_CALIBRATED_NVFP4_MLA = "1"
    THEN OrDefault(e, [NVFP4_CALIBRATION_HOST_PATH |-> "results", NVFP4_MLA_SCALES_FILE |-> "gscale-v1"])
    ELSE [NVFP4_MLA_SCALES_FILE |-> ""] @@ OrDefault(e, [NVFP4_CALIBRATION_HOST_PATH |-> ""])

\* What the worker is given by name. The head inherits everything.
Forwarded ==
    (DOMAIN ClusterDefaults \ {"USE_CALIBRATED_NVFP4_MLA"}) \cup DOMAIN SamplingDefaults
        \cup {"QUANTIZATION", "VLLM_ATTENTION_BACKEND", "COMPILATION_CONFIG", "DFLASH_DRAFT_TP",
              "NVFP4_CALIBRATION_HOST_PATH", "NVFP4_MLA_SCALES_FILE"}

ClusterRules(e) ==
    /\ e.USE_CALIBRATED_NVFP4_MLA \in {"0", "1"}
    /\ e.EXL3_FAT_PIPELINE_CONTROL # "" =>
           e.PREFILL_ADMISSION_POLICY = "adaptive" /\ e.EXL3_FAT_PIPELINE_CONTROL = ControlMount
    /\ e.EXL3_FAT_ACTIVATION_CONTROL # "" =>
           e.PREFILL_ADMISSION_POLICY = "adaptive" /\ e.EXL3_FAT_ACTIVATION_CONTROL = ControlMount
    /\ e.EXPECTED_DRAFT_SHA256 # "" => Sha(e.DRAFT_HOST_PATH) = e.EXPECTED_DRAFT_SHA256

StartCluster ==
    LET e == Calibrated(OrDefault(env, ClusterDefaults))
    IN  /\ stage = "cluster"
        /\ env' = e
        /\ stage' = IF ClusterRules(e) THEN "worker" ELSE "refused"
        /\ UNCHANGED <<command, asked, container>>


\* Files the worker needs are copied, and their copies named in its environment.
ForWorker(e) ==
    (IF e.NVFP4_MLA_SCALES_FILE # "" THEN [NVFP4_CALIBRATION_HOST_PATH |-> "copied"] ELSE <<>>)
        @@ (IF e.PREFILL_ADMISSION_POLICY = "adaptive" THEN [ADAPTIVE_SCHEDULER_CONFIG |-> "copied"] ELSE <<>>)
        @@ [x \in Forwarded |-> e[x]]

-----------------------------------------------------------------------------
\* What the launcher gives its container and nobody forwards. The files of the last
\* three defaults are copied to the worker; other files an operator names are not.
LocalDefaults ==
    [MASTER_PORT |-> "29521", VLLM_LOAD_FORMAT |-> "", VLLM_DISABLE_FLASHINFER_AUTOTUNE |-> "0",
     TOPK_PATCH |-> "shipped", CHAT_TEMPLATE |-> "shipped", SCHEDULER_ADAPTER |-> "shipped"]

LauncherDefaults ==
    SharedDefaults @@ SamplingDefaults @@ LocalDefaults @@
    [IMAGE |-> "four-over-six", MODEL_HOST_PATH |-> "passthrough", QUANTIZATION |-> "",
     VLLM_ATTENTION_BACKEND |-> "", COMPILATION_CONFIG |-> "", NVFP4_CALIBRATION_HOST_PATH |-> "",
     NVFP4_MLA_SCALES_FILE |-> "", DFLASH_DRAFT_TP |-> "2", DFLASH_DRAFT_VARIANT |-> "", DFLASH_DRAFT_QUANTIZATION |-> "",
     VLLM_USE_B12X_FP8_GEMM |-> ""]

WithVariant(e) ==
    OrDefault(e, [DFLASH_DRAFT_VARIANT |-> IF Quantized(e.DRAFT_HOST_PATH) THEN "mxfp8" ELSE "bf16"])
Launched(e) ==
    LET v == WithVariant(OrDefault(e, LauncherDefaults))
    IN  OrDefault(v, IF v.DFLASH_DRAFT_VARIANT = "mxfp8"
                     THEN [DFLASH_DRAFT_QUANTIZATION |-> "modelopt_mxfp8", VLLM_USE_B12X_FP8_GEMM |-> "1"]
                     ELSE [VLLM_USE_B12X_FP8_GEMM |-> "0"])

SpeculativeRules(e) ==
    e.ENABLE_DFLASH = "1" =>
        /\ e.DFLASH_TOKENS \in {"1", "2", "3", "4", "5", "6", "7", "8"}
        /\ e.DFLASH_DRAFT_TP \in {"", "1", "2"}
        /\ e.DFLASH_DRAFT_SAMPLE_METHOD \in {"", "probabilistic"}
        /\ e.DFLASH_REJECTION_SAMPLE_METHOD \in {"", "standard"}
        /\ e.DFLASH_DRAFT_VARIANT \in {"bf16", "mxfp8"}

SchedulerRules(e) ==
    /\ e.ENABLE_DECODE_FIRST_SCHEDULER \in {"0", "1"}
    /\ e.ENABLE_DECODE_FIRST_SCHEDULER = "1" =>
           /\ e.PREFILL_ADMISSION_POLICY \in {"static", "adaptive"}
           /\ e.PREFILL_SCHEDULE_INTERVAL \notin Malformed \cup {"0"}
           /\ e.LONG_PREFILL_TOKEN_THRESHOLD \notin Malformed

CalibrationRules(e) ==
    /\ e.ENABLE_NVFP4_MLA_CAPTURE \in {"0", "1"}
    /\ e.NVFP4_MLA_SCALES_FILE # "" \/ e.ENABLE_NVFP4_MLA_CAPTURE = "1" => e.NVFP4_CALIBRATION_HOST_PATH # ""

FileRules(e) ==
    /\ e.DFLASH_DRAFT_VARIANT = "mxfp8" =>
           Quantized(e.DRAFT_HOST_PATH) /\ e.DFLASH_DRAFT_QUANTIZATION = "modelopt_mxfp8"
    /\ e.COMPILATION_CONFIG \notin Malformed

\* The drafter a rank loads. A checkpoint that is quantized says how; any other is
\* quantized as it is loaded, but not to a format that needs the checkpoint's own file.
Drafter(e) ==
    IF e.ENABLE_DFLASH # "1" THEN [quantization |-> "", kernel |-> "none"]
    ELSE IF Quantized(e.DRAFT_HOST_PATH)
    THEN [quantization |-> "modelopt_mxfp8", kernel |-> IF e.VLLM_USE_B12X_FP8_GEMM = "1" THEN "b12x" ELSE "other"]
    ELSE [quantization |-> e.DFLASH_DRAFT_QUANTIZATION,
          kernel |-> CASE e.DFLASH_DRAFT_QUANTIZATION = "" -> "bf16"
                       [] e.DFLASH_DRAFT_QUANTIZATION = "modelopt_mxfp8" -> "error"
                       [] OTHER -> "online"]

\* What a rank serves by; where its files are on its host is its own affair.
HeadOnly == DOMAIN LocalDefaults \cup {"VLLM_USE_B12X_FP8_GEMM"}
EngineSettings == (Forwarded \cup HeadOnly) \ {"NVFP4_CALIBRATION_HOST_PATH", "ADAPTIVE_SCHEDULER_CONFIG"}
Container(e) == [settings |-> [x \in EngineSettings |-> e[x]], drafter |-> Drafter(e)]

Launch(rank, e, next) ==
    LET l == Launched(e)
    IN  /\ IF SpeculativeRules(l) /\ SchedulerRules(l) /\ CalibrationRules(l) /\ FileRules(l)
           THEN container' = (rank :> Container(l)) @@ container /\ stage' = next
           ELSE container' = <<>> /\ stage' = "cleaned"
        /\ UNCHANGED <<command, asked, env>>

LaunchWorker == stage = "worker" /\ Launch("worker", ForWorker(env), "head")
LaunchHead == stage = "head" /\ Launch("head", env, "verify")

-----------------------------------------------------------------------------
\* The entry point of an FP8-KV image patches the spin wait before it serves.
SpinwaitPatched(c) == c.settings.GLM53_SPINWAIT_MS \notin Malformed \cup {"0"}
Boots(c) ==
    /\ c.settings.IMAGE \in Fp8Image => SpinwaitPatched(c)
    /\ c.drafter.kernel # "error"

Healthy ==
    /\ Boots(container["head"]) /\ Boots(container["worker"])
    /\ container["head"].settings.MASTER_PORT = container["worker"].settings.MASTER_PORT
BannerSeen ==
    Quantized(env.DRAFT_HOST_PATH) =>
        \A r \in DOMAIN container : container[r].drafter.kernel = "b12x"

Verify ==
    /\ stage = "verify"
    /\ IF Healthy /\ BannerSeen
       THEN stage' = "healthy" /\ UNCHANGED container
       ELSE stage' = "cleaned" /\ container' = <<>>
    /\ UNCHANGED <<command, asked, env>>

ServeInit ==
    /\ command \in {"direct"} \cup Profile
    /\ asked \in Overrides
    /\ stage = "profile" /\ env = asked /\ container = <<>>

ServeNext == ServeProfile \/ StartCluster \/ LaunchWorker \/ LaunchHead \/ Verify
ServeSpec == ServeInit /\ [][ServeNext]_serveVars


(* serve-profile.sh:33-58: a start of the profile with overrides its usage *)
(* names is neither refused nor torn down when every host and file is as   *)
(* it should be.                                                           *)
DocumentedStartsServe == command = "exl3-fp8-dcp2" => stage \notin {"refused", "cleaned"}
=============================================================================

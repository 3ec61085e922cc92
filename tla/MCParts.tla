------------------------------ MODULE MCParts ------------------------------
EXTENDS Parts

MCCorpus == <<"long", "code">>

\* The gate projection straddles two shards, its divisor beside its scales; the
\* divisor of the down projection is in a shard of its own.
MCHome == [t \in {"gate", "down"} \X {"packed", "scale", "global"} |->
    IF t = <<"gate", "packed">> THEN "s1"
    ELSE IF t = <<"down", "global">> THEN "s3" ELSE "s2"]
MCFormat == [u \in {"fine", "coarse", "bf16"} |-> IF u = "bf16" THEN "bf16" ELSE "block-fp8"]
MCImproves == [m \in {"gate", "down"} |-> IF m = "gate" THEN {"fine", "coarse"} ELSE {"fine", "bf16"}]
MCShare == [n \in {"a", "b"} |-> IF n = "a" THEN {"s1"} ELSE {"s2", "s3"}]

\* The triples of gate and up, each straddling two shards, and a down projection.
MCW13 == {"gate.packed", "gate.global", "up.packed", "up.global"}
MCRepairHome == [t \in MCW13 \cup {"down", "norm"} |->
    IF t \in {"gate.packed", "up.global"} THEN "r1" ELSE IF t = "norm" THEN "r3" ELSE "r2"]
MCGlobalPair == {<<"gate.global", "up.global">>}

\* Of four bases one is whole, one was decoded otherwise, one has a short shard, and
\* one has candidates nobody reviewed.
MCTruncated == {<<"v3", "p2">>}

\* Drafter blocks whose rescaled page fills an MLA page exactly, leaves a rest,
\* or is larger; with and without mamba layers and padding.
MCGeometries ==
    [mlaBlock : {4608}, mlaToken : {2}, idxPage : {1152}, mlas : {1, 2}, mambas : {0, 1, 3},
     drafts : 0 .. 3, draftToken : {3, 4, 5, 72, 288}, draftBlock : {32, 128, 2304},
     padded : BOOLEAN, foreign : BOOLEAN, dcp : {2}, stateBlocks : {1}, window : {129},
     inFlight : {64}, maxLen : {9000, 20000}, available : {30000, 140000}]

\* Every order of four pools.
MCScores == {f \in [0 .. 3 -> 1 .. 4] : \A i, j \in 0 .. 3 : i # j => f[i] # f[j]}

MCEdge == [p \in 1 .. 3 |-> [t \in 1 .. 3 |-> 1 + ((p + 2 * t) % 3)]]

\* Values an operator may give a setting: good ones, empty ones, and ones refused
\* by the profile, by start-cluster.sh, by the launcher, in the container, or by
\* the check of the kernel.
MCValues == [
    ENABLE_DFLASH |-> {"0"}, DFLASH_TOKENS |-> {"", "2", "9"}, DFLASH_DRAFT_VARIANT |-> {"bf16", "mxfp8", "x"},
    DRAFT_HOST_PATH |-> {"bf16-draft", "mxfp8-draft"}, EXPECTED_DRAFT_SHA256 |-> {"", "bf16-sha"},
    DFLASH_DRAFT_QUANTIZATION |-> {"", "modelopt_mxfp8", "fp8"}, VLLM_USE_B12X_FP8_GEMM |-> {"0", "1"},
    DFLASH_DRAFT_TP |-> {"", "1"}, DFLASH_DRAFT_SAMPLE_METHOD |-> {"", "probabilistic"},
    TARGET_CUDAGRAPH_SCOPE |-> {"c1", "x"}, ENFORCE_EAGER |-> {"0"}, COMPILATION_CONFIG |-> {"piecewise", "x"},
    GLM53_ADAPTIVE_K |-> {"", "ema", "off", "x"}, GLM53_DENSE_FP8 |-> {"dense", "x"},
    GLM53_SPINWAIT_MS |-> {"stock", "0"}, PREFILL_ADMISSION_POLICY |-> {"static", "x"},
    PREFILL_SCHEDULE_INTERVAL |-> {"8", "0"}, ENABLE_DECODE_FIRST_SCHEDULER |-> {"0"},
    EXL3_FAT_GROUPED |-> {"0", "1"}, EXL3_FAT_PIPELINE |-> {"m64"}, EXL3_FUSED_MOE |-> {"0"},
    EXL3_FAT_ACTIVATION_CONTROL |-> {"/etc/glm53/adaptive-scheduler", "elsewhere"},
    USE_CALIBRATED_NVFP4_MLA |-> {"0", "1", "x"}, ENABLE_NVFP4_MLA_CAPTURE |-> {"1"},
    BLOCK_SIZE |-> {"", "1024"}, MAX_MODEL_LEN |-> {"4096"}, DCP_SIZE |-> {"1"}, MASTER_PORT |-> {"29600"},
    VLLM_LOAD_FORMAT |-> {"", "fast"}, VLLM_DISABLE_FLASHINFER_AUTOTUNE |-> {"1"}, TOPK_PATCH |-> {"own"},
    CHAT_TEMPLATE |-> {"own"}, SCHEDULER_ADAPTER |-> {"own"}, CUDA_LAUNCH_BLOCKING |-> {"1"}]
MCOverridesOf(S) == {f \in [S -> UNION {MCValues[x] : x \in S}] : \A x \in S : f[x] \in MCValues[x]}
MCOverrides == UNION {MCOverridesOf(S) : S \in {{x, y} : x, y \in DOMAIN MCValues}} \cup {<<>>}

MCWeightGroups == {<<a, b>> : a \in {0, 5, 13, 90}, b \in {2, 11, 40, 130}}
MCCaptureGroups == {<<7, 5>>, <<12, 10>>, <<40, 33>>}
=============================================================================

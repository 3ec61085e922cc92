------------------------------ MODULE MCServe ------------------------------
EXTENDS ServingSettings

\* The overrides named in the usage of serve-profile.sh (lines 34-58).
MCDocumented == {
    [MAX_NUM_SEQS |-> "4", MAX_NUM_BATCHED_TOKENS |-> "2048"],
    [DCP_SIZE |-> "1", ENABLE_DFLASH |-> "0"],
    [DFLASH_DRAFT_VARIANT |-> "bf16"],
    [DFLASH_DRAFT_VARIANT |-> "mxfp8", VLLM_DFLASH_ONLY_CUDAGRAPH |-> "1", TARGET_CUDAGRAPH_SCOPE |-> "c1"],
    [ENFORCE_EAGER |-> "0", COMPILATION_CONFIG |-> "piecewise"],
    [GLM53_ADAPTIVE_K |-> "ema"],
    [GLM53_ADAPTIVE_K |-> "off"],
    [GLM53_DENSE_FP8 |-> "dense,kda"]}
=============================================================================

------------------------------- MODULE KvCache -------------------------------
(***************************************************************************)
(* How large the KV cache of a model is at a context length                *)
(* (kv_cache_bytes, src/gpu_check.rs), from the fields its config.json     *)
(* has: a config is a record of just those.  Seq(STRING) stands for the    *)
(* lists and for the pattern text of Nemotron-H.                           *)
(***************************************************************************)
EXTENDS Integers, Sequences, FiniteSets, FiniteSetsExt

CONSTANT NoEstimate \* skipped, or not available

Has(cfg, fields) == fields \subseteq DOMAIN cfg
Field(cfg, f, default) == IF f \in DOMAIN cfg THEN cfg[f] ELSE default

RecurrentKinds == {"mamba", "mamba2", "linear_attention", "linear", "recurrent"}
AttentionKinds == {"attention", "full_attention", "sliding_attention"}

CountOf(list, kinds) == Cardinality({k \in DOMAIN list : list[k] \in kinds})
-----------------------------------------------------------------------------
(* classify_hybrid_layers: five ways to say which layers are attention.     *)

Split(attn, rest) == [attention |-> attn, recurrent |-> rest]

\* Some of the layers, not all.
SomeOf(cfg, attn) ==
  IF attn > 0 /\ attn < cfg.num_hidden_layers
    THEN {Split(attn, cfg.num_hidden_layers - attn)} ELSE {}

ByTypes(cfg) ==
  IF Has(cfg, {"layer_types"}) /\ CountOf(cfg.layer_types, RecurrentKinds) > 0
    THEN {Split(CountOf(cfg.layer_types, AttentionKinds),
                CountOf(cfg.layer_types, RecurrentKinds))}
    ELSE {}

ByPattern(cfg) ==
  LET p == Field(cfg, "hybrid_override_pattern", <<>>)
  IN  IF CountOf(p, {"M"}) > 0
        THEN {Split(CountOf(p, {"*"}), CountOf(p, {"M"}))} ELSE {}

ByIndices(cfg) ==
  IF Has(cfg, {"attn_layer_indices"})
    THEN SomeOf(cfg, Len(cfg.attn_layer_indices)) ELSE {}

ByInterval(cfg) ==
  IF Has(cfg, {"full_attention_interval"}) /\ cfg.full_attention_interval >= 2
    THEN SomeOf(cfg, cfg.num_hidden_layers \div cfg.full_attention_interval)
    ELSE {}

\* Seeded bug: the layer at the offset is not counted.
AttentionAfter(total, offset, period) == (total - offset - 1) \div period

\* How many of offset, offset + period, ... are below total.
AttentionFrom(total, offset, period) == (total - offset - 1) \div period + 1

ByOffset(cfg) ==
  IF /\ Has(cfg, {"attn_layer_offset", "attn_layer_period"})
     /\ cfg.attn_layer_period >= 1
     /\ cfg.attn_layer_offset < cfg.num_hidden_layers
    THEN SomeOf(cfg, AttentionFrom(cfg.num_hidden_layers, cfg.attn_layer_offset,
                                  cfg.attn_layer_period))
    ELSE {}

FirstOf(a, b) == IF a # {} THEN a ELSE b

\* The split of a hybrid, none for a plain transformer.
Hybrid(cfg) ==
  FirstOf(ByTypes(cfg), FirstOf(ByPattern(cfg), FirstOf(ByIndices(cfg),
    FirstOf(ByInterval(cfg), ByOffset(cfg)))))

\* mamba2_state_bytes_per_layer; 0 where a dimension is not given.
RecurrentState(cfg, elem) ==
  IF Has(cfg, {"mamba_n_heads", "mamba_d_head", "mamba_d_state", "mamba_d_conv"})
    THEN LET inner == cfg.mamba_n_heads * cfg.mamba_d_head
             conv == inner + 2 * Field(cfg, "mamba_n_groups", 1) * cfg.mamba_d_state
         IN  (inner * cfg.mamba_d_state + conv * cfg.mamba_d_conv) * elem
    ELSE 0
-----------------------------------------------------------------------------
(* kv_cache_bytes.                                                          *)

Computable(cfg) ==
  /\ ~Has(cfg, {"kv_lora_rank"})
  /\ Has(cfg, {"num_hidden_layers", "num_attention_heads"})
  /\ \/ Has(cfg, {"head_dim"})
     \/ Has(cfg, {"hidden_size"}) /\ cfg.num_attention_heads > 0

HeadDim(cfg) ==
  IF Has(cfg, {"head_dim"}) THEN cfg.head_dim
  ELSE cfg.hidden_size \div cfg.num_attention_heads

KvHeads(cfg) == Field(cfg, "num_key_value_heads", cfg.num_attention_heads)

\* K and V of one token in one layer.
PerToken(cfg, elem) == 2 * KvHeads(cfg) * HeadDim(cfg) * elem

\* The window of a sliding window that is shorter than the context.
SlidingWindow(cfg) == Field(cfg, "sliding_window", 0)

Binds(cfg, context) ==
  /\ Field(cfg, "use_sliding_window", TRUE)
  /\ SlidingWindow(cfg) > 0 /\ context > SlidingWindow(cfg)

\* sliding_window_period: every how many layers one is global; 0 if none is.
Period(cfg) ==
  CASE Field(cfg, "sliding_window_pattern", 0) >= 2 -> cfg.sliding_window_pattern
    [] OTHER -> IF Field(cfg, "model_type", "") = "gemma2" THEN 2 ELSE 0

GlobalLayers(cfg) ==
  IF Period(cfg) = 0 THEN 0 ELSE cfg.num_hidden_layers \div Period(cfg)

\* The tokens that the layers keep between them.
TokensKept(cfg, context) ==
  LET layers == cfg.num_hidden_layers
  IN  IF Binds(cfg, context)
        THEN (layers - GlobalLayers(cfg)) * SlidingWindow(cfg)
               + GlobalLayers(cfg) * context
        ELSE layers * context

KvCacheBytes(cfg, context, elem) ==
  IF ~Computable(cfg) \/ cfg.num_hidden_layers = 0 \/ KvHeads(cfg) = 0
       \/ HeadDim(cfg) = 0
    THEN NoEstimate
  ELSE IF Hybrid(cfg) = {}
    THEN PerToken(cfg, elem) * TokensKept(cfg, context)
  ELSE LET split == CHOOSE h \in Hybrid(cfg) : TRUE
       IN  PerToken(cfg, elem) * split.attention * context
             + RecurrentState(cfg, elem) * split.recurrent
-----------------------------------------------------------------------------
(* The cache of a model, layer by layer.                                    *)

\* The kind of layer l (from 0), by the config's own words for it, the first
\* that make a hybrid of it; where none do, every layer is attention.
IsAttention(cfg, l) ==
  IF ByTypes(cfg) # {} THEN cfg.layer_types[l + 1] \in AttentionKinds
  ELSE IF ByPattern(cfg) # {} THEN cfg.hybrid_override_pattern[l + 1] = "*"
  ELSE IF ByIndices(cfg) # {} THEN
    \E k \in DOMAIN cfg.attn_layer_indices : cfg.attn_layer_indices[k] = l
  ELSE IF ByInterval(cfg) # {} THEN (l + 1) % cfg.full_attention_interval = 0
  ELSE IF ByOffset(cfg) # {} THEN
    /\ l >= cfg.attn_layer_offset
    /\ (l - cfg.attn_layer_offset) % cfg.attn_layer_period = 0
  ELSE TRUE

IsRecurrent(cfg, l) ==
  IF ByTypes(cfg) # {} THEN cfg.layer_types[l + 1] \in RecurrentKinds
  ELSE IF ByPattern(cfg) # {} THEN cfg.hybrid_override_pattern[l + 1] = "M"
  ELSE ~IsAttention(cfg, l)

\* The tokens whose keys an attention layer keeps: those of its window,
\* unless every Period-th layer is global and it is one.
Reach(cfg, context, l) ==
  IF /\ Binds(cfg, context) /\ Hybrid(cfg) = {}
     /\ ~(Period(cfg) # 0 /\ (l + 1) % Period(cfg) = 0)
    THEN SlidingWindow(cfg) ELSE context

LayerBytes(cfg, context, elem, l) ==
  IF IsAttention(cfg, l) THEN PerToken(cfg, elem) * Reach(cfg, context, l)
  ELSE IF IsRecurrent(cfg, l) THEN RecurrentState(cfg, elem)
  ELSE 0

BytesOfLayers(cfg, context, elem) ==
  LET bytes == [l \in 0 .. cfg.num_hidden_layers - 1 |->
                  LayerBytes(cfg, context, elem, l)]
  IN  MapThenSumSet(LAMBDA l : bytes[l], DOMAIN bytes)

\* What the fields of a config.json are, those that it has.
WellTyped(cfg) ==
  /\ \A f \in {"num_hidden_layers", "num_attention_heads", "num_key_value_heads",
               "head_dim", "hidden_size", "sliding_window",
               "sliding_window_pattern", "full_attention_interval",
               "attn_layer_offset", "attn_layer_period", "mamba_n_heads",
               "mamba_d_head", "mamba_d_state", "mamba_d_conv",
               "mamba_n_groups"} :
       Has(cfg, {f}) => cfg[f] \in Nat
  /\ Has(cfg, {"use_sliding_window"}) => cfg.use_sliding_window \in BOOLEAN
  /\ \A f \in {"layer_types", "hybrid_override_pattern", "attn_layer_indices"} :
       Has(cfg, {f}) => Len(cfg[f]) \in Nat /\ DOMAIN cfg[f] = 1 .. Len(cfg[f])

\* A config that does not contradict itself, which no code checks: what is
\* said of each layer is said of as many layers as there are, and of none
\* twice.
Consistent(cfg) ==
  Has(cfg, {"num_hidden_layers"}) =>
    /\ \A f \in {"layer_types", "hybrid_override_pattern"} :
         Has(cfg, {f}) => Len(cfg[f]) = cfg.num_hidden_layers
    /\ Has(cfg, {"attn_layer_indices"}) =>
         LET at == cfg.attn_layer_indices
         IN  /\ \A j \in DOMAIN at : at[j] \in 0 .. cfg.num_hidden_layers - 1
             /\ \A j, k \in DOMAIN at : at[j] = at[k] => j = k
=============================================================================

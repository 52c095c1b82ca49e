----------------------------- MODULE MCInspection -----------------------------
(* Small repositories for Inspection.                                       *)
EXTENDS InspectionReports, TLC

CONSTANTS t, u, f16, f32

Shard(n, tensors) == [name |-> n, tensors |-> tensors]

\* A listing need not be in name order, and a tensor can be in two shards.
Apart == <<Shard(2, t :> f16), Shard(1, u :> f32)>>
Twice == <<Shard(3, t :> f16), Shard(1, t :> f32), Shard(2, u :> f32)>>
Alone == <<Shard(1, (t :> f16) @@ (u :> f16))>>

Listings == {<<>>, Apart, Twice, Alone}

AllDiffs ==
  [a : Listings, b : {<<>>, Alone, Apart},
   filter : {NoFilter, {t}}, json : BOOLEAN]

Gguf(size, layers) == [gguf |-> TRUE, size |-> size, layers |-> layers]
Other(size) == [gguf |-> FALSE, size |-> size, layers |-> <<>>]
Repo(n, backlink, files) == [id |-> n, backlink |-> backlink, files |-> files]

\* Rows of every kind: under and over the ceiling, dense, with one layer of
\* experts, with layers alike and not, and with no known size (0).
Mixed ==
  << Repo(2, "here", <<Gguf(9, <<2, 2>>), Gguf(2, <<>>)>>),
     Repo(1, "none", <<Gguf(7, <<3, 1, 2>>), Other(4)>>),
     Repo(3, "elsewhere", <<Gguf(12, <<1, 1, 1>>)>>) >>

Plain ==
  << Repo(1, "here", <<Gguf(8, <<5>>), Gguf(8, <<1, 0>>)>>),
     Repo(2, "none", <<Other(5), Other(4)>>),
     Repo(3, "none", <<Other(0)>>),
     Repo(4, "none", <<Gguf(0, <<3, 3>>)>>) >>

AllSearches ==
  [found : {<<>>, Mixed, Plain}, budget : {6, 8}, reserve : {0, 3, 9}]
-----------------------------------------------------------------------------
(* Trees.  The segments in text order: "0", "1", "10", "2", ... "9", words. *)

MCIndex ==
  [s \in 0 .. 10 |-> CASE s < 2 -> s [] s = 2 -> 10 [] OTHER -> s - 1]
ElementWidth == (f16 :> 2) @@ (f32 :> 4)

Layers == 20
Experts == 21
A == 22
B == 23

Number(i) == CHOOSE s \in DOMAIN MCIndex : MCIndex[s] = i

Tensor(name, dtype, shape) ==
  [name |-> name, dtype |-> dtype, shape |-> shape,
   bytes |-> FoldSeq(LAMBDA n, product : n * product, ElementWidth[dtype], shape)]

\* What a layer may consist of: two tensors, the same of another dtype or
\* shape, and experts: two, three, or two of which one is alike.
Pair(dtype, shape) == {Tensor(<<A>>, dtype, shape), Tensor(<<B>>, f16, <<2>>)}
Under(prefix, tensors) == {[x EXCEPT !.name = prefix \o @] : x \in tensors}
Expert(i, dtype) == Under(<<Experts, Number(i)>>, Pair(dtype, <<2, 2>>))

Plain16 == Pair(f16, <<2, 2>>)
Plain32 == Pair(f32, <<2, 2>>)
Flatter == Pair(f16, <<4>>)
TwoExperts == Expert(0, f16) \cup Expert(1, f16) \cup {Tensor(<<B>>, f16, <<2>>)}
ThreeExperts == TwoExperts \cup Expert(2, f16)
Unlike == Expert(0, f32) \cup Expert(1, f16) \cup Expert(2, f16)
            \cup {Tensor(<<B>>, f16, <<2>>)}

\* The tensors of layers, the first of which is number `first'.
Stack(first, layers) ==
  UNION {Under(<<Layers, Number(first + k - 1)>>, layers[k]) :
           k \in DOMAIN layers}

File(n, tensors) == 
  [name |-> n, header |-> FoldSet(LAMBDA x, s : Append(s, x), <<>>, tensors)]

\* All short stacks of like and unlike layers, with edges of any length; one
\* that starts at 1; one of eleven, whose edges are both full or one too
\* long; names that are a tensor and a prefix, or no range at all.
Stacks ==
  {Stack(0, s) : s \in UNION {[1 .. n -> {Plain16, Plain32}] : n \in 1 .. 5}
                        \cup [1 .. 3 -> {Flatter, TwoExperts, ThreeExperts, Unlike}]}
    \cup {Stack(1, <<Plain16, Plain16>>),
          Stack(0, [k \in 1 .. 11 |-> IF k \in 4 .. 8 THEN Plain16 ELSE Plain32]),
          Stack(0, [k \in 1 .. 11 |-> IF k \in 5 .. 11 THEN Unlike ELSE Flatter]),
          Stack(0, <<Plain16, Plain16>>) \cup Plain32
            \cup {Tensor(<<Layers>>, f32, <<1>>)},
          Under(<<Number(2)>>, Plain16) \cup Under(<<Number(10)>>, Plain16)
            \cup {Tensor(<<A, B, A>>, f16, <<3>>)}}

\* A name in both of two files, which are not listed in order.
Overlap ==
  << File(2, Stack(0, <<Plain16, Plain16, Flatter>>)),
     File(1, Stack(0, <<Plain32>>) \cup {Tensor(<<B>>, f32, <<1>>)}) >>

Layer0 == {x.name : x \in Stack(0, <<Plain16>>)}

Inspect(files, filter, limit, report) ==
  [a |-> files, filter |-> filter, limit |-> limit, report |-> report,
   gpu |-> FALSE, context |-> Nothing, elem |-> 2, config |-> Nothing]

TreesAndTables ==
  {Inspect(<<File(1, s)>>, NoFilter, Nothing, "tree") : s \in Stacks}
    \cup {Inspect(files, filter, limit, report) :
            files \in {Overlap, <<>>}, filter \in {NoFilter, Layer0},
            limit \in {Nothing, 3}, report \in {"tree", "dtypes"}}
    \cup {Inspect(Overlap, filter, limit, "table") :
            filter \in {NoFilter, Layer0}, limit \in {3, 9}}
-----------------------------------------------------------------------------
(* Configurations.                                                          *)

Dims == [num_attention_heads |-> 2, hidden_size |-> 5]
Wide == Dims @@ [head_dim |-> 1, num_key_value_heads |-> 1]
Mamba == [mamba_n_heads |-> 2, mamba_d_head |-> 1, mamba_d_state |-> 2,
          mamba_d_conv |-> 3]

Deep(layers, more) == [num_hidden_layers |-> layers] @@ more

\* Every period, offset and interval, and every window, of up to five layers.
Configs ==
  {Deep(n, [attn_layer_offset |-> o, attn_layer_period |-> p] @@ Dims) :
     n \in 1 .. 5, o \in 0 .. 5, p \in 1 .. 3}
    \cup {Deep(n, [full_attention_interval |-> i] @@ Mamba @@ Wide) :
            n \in 2 .. 5, i \in 1 .. 3}
    \cup {Deep(n, [sliding_window |-> w, sliding_window_pattern |-> p] @@ Wide) :
            n \in {0, 1, 4, 5}, w \in {0, 2, 4}, p \in 1 .. 3}
    \cup {Deep(3, [sliding_window |-> 2, use_sliding_window |-> b,
                   model_type |-> m] @@ Dims) :
            b \in BOOLEAN, m \in {"gemma2", "qwen3"}}
    \cup {Deep(3, c @@ Mamba @@ Dims) : c \in
            {[layer_types |-> <<"mamba", "attention", "moe">>],
             [layer_types |-> <<"attention", "attention", "attention">>,
              attn_layer_indices |-> <<1, 2>>],
             [hybrid_override_pattern |-> <<"M", "-", "*">>,
              attn_layer_indices |-> <<0>>],
             [attn_layer_indices |-> <<0, 1, 2>>],
             [attn_layer_indices |-> <<2>>, mamba_n_groups |-> 2],
             [kv_lora_rank |-> 1]}}
    \cup {Dims, [num_hidden_layers |-> 2], Deep(2, [hidden_size |-> 4,
            num_attention_heads |-> 0]), Deep(2, Dims @@ [head_dim |-> 0])}

Fits ==
  {[Inspect(<<File(1, Plain32)>>, {<<A>>}, 0, "table") EXCEPT
      !.gpu = TRUE, !.context = context, !.config = config] :
     context \in {Nothing, 1, 3, 4}, config \in Configs \cup {Nothing}}

AllInspects == TreesAndTables \cup Fits
=============================================================================

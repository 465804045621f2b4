---------------------------- MODULE MCApcPersist ----------------------------
(* Values for TLC: all graphs of an array and two more structures. *)
EXTENDS ApcPersist, TLC

Link(type, p) == [type |-> type, p |-> p]
Undef == Link("undef", 0)
Long == Link("long", 0)

\* Arrays by their elements; a hash has distinct keys.
Packed(els) == [Blank EXCEPT !.kind = "arr", !.packed = TRUE,
                             !.els = [i \in DOMAIN els |-> Bucket(els[i])]]
Hash(keys, els) == [Blank EXCEPT !.kind = "arr",
                      !.els = [i \in DOMAIN els |-> [h |-> keys[i].h, key |-> keys[i].key, val |-> els[i]]]]
Str(n) == [Blank EXCEPT !.kind = "str", !.len = 6 * n, !.text = n]
Ref(z) == [Blank EXCEPT !.kind = "ref", !.els = <<Bucket(z)>>]
Obj == [Blank EXCEPT !.kind = "obj"]
Res == [Blank EXCEPT !.kind = "res"]

StringKey == [h |-> 0, key |-> "a"]
Numbered(h) == [h |-> h, key |-> None]
Lists(S, n) == UNION {[1..m -> S]: m \in 0..n}
KeyLists(n) ==
  CASE n = 0 -> {<<>>}
    [] n = 1 -> {<<StringKey>>, <<Numbered(3)>>}
    [] n = 2 -> {<<StringKey, Numbered(0)>>, <<Numbered(3), Numbered(0)>>}
    [] OTHER -> {}

Kinds == {"str", "arr", "ref", "obj", "res"}
\* A reference never leads to a reference, and arrays contain themselves only through one.
Targets(ks) == {Link(ks[n], n): n \in DOMAIN ks}
NoRef(zs) == {z \in zs: z.type # "ref"}
Above(n, zs) == {z \in zs: z.type = "arr" => z.p > n}

Nodes(ks, n, size) ==
  LET t == {Undef, Long} \cup Targets(ks) IN
  CASE ks[n] = "str" -> {Str(n)}
    [] ks[n] = "obj" -> {Obj}
    [] ks[n] = "res" -> {Res}
    [] ks[n] = "ref" -> {Ref(z): z \in NoRef(t \ {Undef})}
    [] ks[n] = "arr" ->
         {Packed(els): els \in Lists(Above(n, t), size)} \cup
         UNION {{Hash(keys, els): keys \in KeyLists(m), els \in [1..m -> Above(n, t)]}: m \in 0..size}

Graphs ==
  UNION {{<<a, b, c>>: a \in Nodes(ks, 1, 2), b \in Nodes(ks, 2, 1), c \in Nodes(ks, 3, 1)}:
           ks \in {<<"arr">> \o k: k \in [1..2 -> Kinds]}}

\* The first structures that a value leads to come first.
Direct(s) == {s[1].els[i].val.p: i \in DOMAIN s[1].els} \ {0, 1}
Canonical(s) == 2 \in Direct(s)

\* A variable with the first structure.
Value(s) ==
  [p \in {0} \cup DOMAIN s |-> IF p = 0 THEN [Blank EXCEPT !.els = <<Bucket(Link(s[1].kind, 1))>>]
                               ELSE s[p]]
Case(m, name, extensions) == [mem |-> m, name |-> name, extensions |-> extensions]
Globals == <<Hash(<<StringKey>>, <<Link("indirect", 0)>>)>>
Small == {<<Packed(<<>>)>>, <<Str(1)>>, <<Obj>>, <<Res>>, Globals,
          <<Packed(<<Link("obj", 2)>>), Obj>>}

\* Longer arrays, a structure shared three times, two cycles through one reference, and the
\* greatest index.
Larger ==
  {<<Packed(<<Link("str", 2), Undef, Link("arr", 3), Link("str", 2)>>), Str(2),
     Packed(<<Link("str", 2)>>)>>,
   <<Packed(<<Link("ref", 2), Link("arr", 4), Link("ref", 2)>>), Ref(Link("arr", 3)),
     Hash(<<StringKey, Numbered(3)>>, <<Link("ref", 2), Link("str", 5)>>),
     Packed(<<Link("ref", 2), Link("str", 5), Link("arr", 3)>>), Str(1)>>,
   <<Packed(<<Undef, Link("arr", 2), Link("arr", 2), Link("arr", 3)>>), Packed(<<Undef>>),
     Hash(<<Numbered(3), Numbered(0)>>, <<Undef, Link("arr", 2)>>)>>,
   <<Hash(<<Numbered(4), Numbered(-5)>>, <<Long, Long>>)>>}

TheCases ==
  {Case(Value(s), None, {}): s \in {g \in Graphs: Canonical(g)} \cup Larger} \cup
  {Case(Value(s), name, extensions):
     s \in Small, name \in {None, Php, External}, extensions \in {{}, {External}}} \cup
  {Case(0 :> [Blank EXCEPT !.els = <<Bucket(Long)>>], Php, {})}
===========================================================================

---------------------------- MODULE ClientProofs ----------------------------
(***************************************************************************)
(* What a client gets is what Generation promises: the engine behind the   *)
(* server, its threads, queues, pump and failures included, implements the *)
(* abstract specification, for any number of streams, any tokens and any   *)
(* length limit.                                                           *)
(*                                                                         *)
(* The argument: at any time the tokens that the engine has handed over    *)
(* and the client has not got are on the way, each in one item, in the     *)
(* order they were generated.  The way is a row of lists (queue, batch,    *)
(* updates, callbacks); a step moves items along it and keeps their order, *)
(* takes the first, puts one behind all others, or, when the pump is       *)
(* cancelled, cuts the way behind the queue.                               *)
(***************************************************************************)
EXTENDS WaitersProofs

-----------------------------------------------------------------------------
(* The way to a client *)

\* The updates a callback hands over.
ListOf(cb) == IF cb.kind = "updates" THEN cb.list ELSE <<>>

\* The lists on the way to a client, the next to be read first: its queue, the pump's batch, the
\* updates handed to the pump, and one for each callback.
WayOf(queue, batch, upd, cbs) ==
  [c \in 1 .. Len(cbs) + 3 |->
     IF c = 1 THEN queue ELSE IF c = 2 THEN batch ELSE IF c = 3 THEN upd ELSE ListOf(cbs[c - 3])]

\* The way to the client of stream s.  Only its queue is left of it when the pump is cancelled.
Way(s) ==
  IF pump.state = "cancelled" THEN WayOf(stream[s].queue, <<>>, <<>>, <<>>)
  ELSE WayOf(stream[s].queue, pump.batch, updates, soon)

\* A place x on the way w is the x[2]-th item of list x[1]; those that hold an item of stream s.
Item(w, x) == w[x[1]][x[2]]
Places(w, s) ==
  {x \in UNION {{c} \X DOMAIN w[c] : c \in DOMAIN w} : x[1] = 1 \/ Item(w, x).s = s}
Before(x, y) == x[1] < y[1] \/ (x[1] = y[1] /\ x[2] < y[2])

\* An item ends the stream without a token, or has one.
ItemOK(w, x) == \/ x[1] = 1 /\ Item(w, x) = DISCONNECTED
                \/ Item(w, x).reason \in {"abort", "error"}
                \/ Item(w, x).reason \in {"none", "stop", "length"} /\ Item(w, x).ids # <<>>

\* The item has the k-th token of out, and says whether that completes the output.
TokenOK(u, out, k) ==
  /\ u.ids = <<out[k]>>
  /\ u.reason = "none" => k < MaxNew /\ out[k] \notin GenStops
  /\ u.reason \in {"stop", "length"} => k >= MaxNew \/ out[k] \in GenStops

\* The tokens of out that the client has not got are on the way, in order: the k-th at place f[k].
Coming(got, out) == Len(got) + 1 .. Len(out)
Chain(w, s, got, out, f) ==
  /\ Len(got) <= Len(out) /\ \A k \in 1 .. Len(got) : got[k] = out[k]
  /\ \A k \in Coming(got, out) : f[k] \in Places(w, s) /\ TokenOK(Item(w, f[k]), out, k)
  /\ \A j, k \in Coming(got, out) : j < k => Before(f[j], f[k])
  /\ \A x \in Places(w, s) :
       ItemOK(w, x) /\ (Item(w, x).ids # <<>> => \E k \in Coming(got, out) : f[k] = x)

\* The request of stream s is on its way to the engine.
Pending(s) == sending = AddOf(s) \/ AddOf(s) \in ToSet(commands)

\* What the engine has of the request: nothing yet, or exactly out.
Origin(s, out) ==
  /\ Pending(s) => out = <<>>
  /\ s \in DOMAIN live => /\ gen[live[s].rid].out = out /\ live[s].sent = Len(out)
                          /\ gen[live[s].rid].max_new = MaxNew

\* out is the output of stream s as far as the engine has handed it over and it is not lost with the
\* pump: the client has some of it, and the rest is on the way.
Delivery(s) ==
  \E out \in Seq(GenTokens) :
    Origin(s, out) /\ \E f : Chain(Way(s), s, stream[s].got, out, f)

\* A handler that reads has seen no end, and what it will read continues what it has got.
Reads(s) ==
  stream[s].handler = "reading" =>
    /\ stream[s].reason = "none" /\ ~ stream[s].finished /\ stream[s].got \in Seq(GenTokens)
    /\ Delivery(s)

\* The pump is cancelled when the thread has ended.
CutIsEnded == pump.state = "cancelled" => engine_pc = "ended"

DInv == WInv /\ CutIsEnded /\ \A s \in Streams : Reads(s)
-----------------------------------------------------------------------------
(* Chains *)

\* A place is the number of a list and a number in it.
LEMMA PlaceIs ==
  ASSUME NEW w, NEW s, NEW x
  PROVE  x \in Places(w, s) <=>
           \E c \in DOMAIN w : \E i \in DOMAIN w[c] : x = <<c, i>> /\ (c = 1 \/ w[c][i].s = s)
<1>1. x \in UNION {{c} \X DOMAIN w[c] : c \in DOMAIN w} <=>
        \E c \in DOMAIN w : \E i \in DOMAIN w[c] : x = <<c, i>>
  OBVIOUS
<1>2. \A c, i : x = <<c, i>> => x[1] = c /\ x[2] = i
  OBVIOUS
<1> QED  BY <1>1, <1>2 DEF Places, Item

\* The tokens that are coming are numbered from the first that the client has not got.
LEMMA ComingIn ==
  ASSUME NEW got \in Seq(GenTokens), NEW out \in Seq(GenTokens)
  PROVE  /\ Len(got) \in Nat /\ Len(out) \in Nat /\ Coming(got, out) \subseteq Nat
         /\ \A k : k \in Coming(got, out) <=> k \in Nat /\ Len(got) < k /\ k <= Len(out)
BY DEF Coming

\* Items move to other places and keep their order; what else there is has no token.
LEMMA Moved ==
  ASSUME NEW v, NEW w, NEW s, NEW got, NEW out, NEW f, NEW phi, Chain(v, s, got, out, f),
         \A x \in Places(v, s) :
           /\ phi[x] \in Places(w, s) /\ (ItemOK(v, x) => ItemOK(w, phi[x]))
           /\ Item(w, phi[x]).ids = Item(v, x).ids
           /\ Item(w, phi[x]).reason \in {Item(v, x).reason, "error"},
         \A x, y \in Places(v, s) : Before(x, y) => Before(phi[x], phi[y]),
         \A z \in Places(w, s) : \/ \E x \in Places(v, s) : z = phi[x]
                                 \/ ItemOK(w, z) /\ Item(w, z).ids = <<>>
  PROVE  \E g : Chain(w, s, got, out, g)
<1> DEFINE K == Coming(got, out)
           g == [k \in K |-> phi[f[k]]]
<1>1. \A k \in K : f[k] \in Places(v, s) /\ TokenOK(Item(v, f[k]), out, k) /\ g[k] = phi[f[k]]
  BY DEF Chain
<1>2. \A k \in K : g[k] \in Places(w, s) /\ TokenOK(Item(w, g[k]), out, k)
  BY <1>1 DEF TokenOK
<1>3. \A j, k \in K : j < k => Before(g[j], g[k])
  <2>1. \A j, k \in K : j < k => Before(f[j], f[k])
    BY DEF Chain
  <2> QED  BY <1>1, <2>1
<1>4. ASSUME NEW z \in Places(w, s)
      PROVE  ItemOK(w, z) /\ (Item(w, z).ids # <<>> => \E k \in K : g[k] = z)
  <2>1. CASE \E x \in Places(v, s) : z = phi[x]
    <3>1. PICK x \in Places(v, s) : z = phi[x]
      BY <2>1
    <3>2. ItemOK(v, x) /\ (Item(v, x).ids # <<>> => \E k \in K : f[k] = x)
      BY DEF Chain
    <3> QED  BY <1>1, <3>1, <3>2
  <2>2. CASE ItemOK(w, z) /\ Item(w, z).ids = <<>>
    BY <2>2
  <2> QED  BY <2>1, <2>2
<1>5. Len(got) <= Len(out) /\ \A k \in 1 .. Len(got) : got[k] = out[k]
  BY DEF Chain
<1> HIDE DEF g
<1>6. Chain(w, s, got, out, g)
  BY <1>2, <1>3, <1>4, <1>5 DEF Chain
<1> QED  BY <1>6

\* The handler takes a token: it is the next one.
LEMMA Popped ==
  ASSUME NEW v, NEW w, NEW s, NEW got \in Seq(GenTokens), NEW out \in Seq(GenTokens), NEW f,
         Chain(v, s, got, out, f), DOMAIN v \subseteq Nat \ {0},
         \A c \in DOMAIN v : DOMAIN v[c] \subseteq Nat \ {0},
         1 \in DOMAIN v, IsSeq(v[1]), v[1] # <<>>, Head(v[1]).ids # <<>>,
         DOMAIN w = DOMAIN v, w[1] = Tail(v[1]), \A c \in DOMAIN v : c # 1 => w[c] = v[c]
  PROVE  /\ Len(got) < Len(out) /\ TokenOK(Head(v[1]), out, Len(got) + 1)
         /\ \E g : Chain(w, s, Append(got, out[Len(got) + 1]), out, g)
<1> DEFINE K == Coming(got, out)
           n == Len(got) + 1
           x1 == <<1, 1>>
<1>0. Len(got) \in Nat /\ Len(out) \in Nat /\ K \subseteq Nat /\ n \in Nat
      /\ \A k : k \in K <=> k \in Nat /\ Len(got) < k /\ k <= Len(out)
  BY ComingIn
<1>1. /\ Len(v[1]) \in Nat \ {0} /\ DOMAIN v[1] = 1 .. Len(v[1]) /\ Head(v[1]) = v[1][1]
      /\ IsSeq(w[1]) /\ Len(w[1]) = Len(v[1]) - 1 /\ DOMAIN w[1] = 1 .. Len(v[1]) - 1
      /\ \A i \in 1 .. Len(v[1]) - 1 : w[1][i] = v[1][i + 1]
  BY SeqTail, SeqLen
<1>2. x1 \in Places(v, s) /\ Item(v, x1) = Head(v[1]) /\ x1[1] = 1 /\ x1[2] = 1
  <2>1. 1 \in DOMAIN v[1]
    BY <1>1
  <2>2. x1 \in Places(v, s)
    BY <2>1, PlaceIs
  <2> QED  BY <1>1, <2>2 DEF Item
<1>3. \A x \in Places(v, s) : ~ Before(x, x1)
  <2> SUFFICES ASSUME NEW x \in Places(v, s) PROVE ~ Before(x, x1)
    OBVIOUS
  <2>1. PICK c \in DOMAIN v : \E i \in DOMAIN v[c] : x = <<c, i>>
    BY PlaceIs
  <2>2. PICK i \in DOMAIN v[c] : x = <<c, i>>
    BY <2>1
  <2>3. c \in Nat \ {0} /\ i \in Nat \ {0} /\ x[1] = c /\ x[2] = i
    BY <2>2
  <2>4. ~ (c < 1) /\ ~ (i < 1)
    BY <2>3
  <2> QED  BY <1>2, <2>3, <2>4 DEF Before
<1> HIDE DEF x1
<1>4. PICK k1 \in K : f[k1] = x1
  BY <1>2 DEF Chain
<1>5. n \in K /\ n <= k1
  BY <1>0, <1>4
<1>6. k1 = n
  <2> SUFFICES ASSUME n < k1 PROVE FALSE
    BY <1>0, <1>4, <1>5
  <2>1. Before(f[n], f[k1]) /\ f[n] \in Places(v, s)
    BY <1>4, <1>5 DEF Chain
  <2> QED  BY <1>3, <1>4, <2>1
<1>7. Len(got) < Len(out) /\ TokenOK(Head(v[1]), out, n)
  BY <1>0, <1>2, <1>4, <1>5, <1>6 DEF Chain
<1> DEFINE got2 == Append(got, out[n])
           K2 == Coming(got2, out)
           g == [k \in K2 |-> IF f[k][1] = 1 THEN <<1, f[k][2] - 1>> ELSE f[k]]
<1>8. out[n] \in GenTokens /\ got2 \in Seq(GenTokens) /\ Len(got2) = n
      /\ (\A k \in 1 .. Len(got) : got2[k] = got[k]) /\ got2[n] = out[n]
  BY <1>0, <1>7
<1> HIDE DEF got2
<1>9. K2 = K \ {n}
  <2>1. \A k : k \in K2 <=> k \in Nat /\ n < k /\ k <= Len(out)
    BY <1>8, ComingIn
  <2> QED  BY <1>0, <2>1
<1>10. \A k \in 1 .. Len(got2) : got2[k] = out[k]
  <2>1. \A k \in 1 .. Len(got) : got[k] = out[k]
    BY DEF Chain
  <2>2. \A k \in 1 .. Len(got2) : k = n \/ k \in 1 .. Len(got)
    BY <1>0, <1>8
  <2> HIDE DEF n
  <2> QED  BY <1>8, <2>1, <2>2
<1> HIDE DEF K2, K
\* Where a place other than the first moves to.
<1> DEFINE To(x) == IF x[1] = 1 THEN <<1, x[2] - 1>> ELSE x
<1>11. ASSUME NEW x \in Places(v, s), x # x1
       PROVE  /\ To(x) \in Places(w, s) /\ Item(w, To(x)) = Item(v, x) /\ To(x)[1] = x[1]
              /\ x[1] \in Nat /\ x[2] \in Nat /\ (x[1] = 1 => To(x)[2] = x[2] - 1)
              /\ (x[1] # 1 => To(x) = x)
  <2>0. PICK c \in DOMAIN v : \E i \in DOMAIN v[c] : x = <<c, i>> /\ (c = 1 \/ v[c][i].s = s)
    BY PlaceIs
  <2>1. PICK i \in DOMAIN v[c] : x = <<c, i>> /\ (c = 1 \/ v[c][i].s = s)
    BY <2>0
  <2>2. c \in Nat /\ i \in Nat /\ x[1] = c /\ x[2] = i
    BY <2>1
  <2>3. CASE c = 1
    <3>1. i \in 1 .. Len(v[1]) /\ i # 1
      BY <1>1, <1>11, <2>1, <2>3 DEF x1
    <3>2. i - 1 \in 1 .. Len(v[1]) - 1 /\ w[1][i - 1] = v[1][i]
      BY <1>1, <3>1
    <3>3. To(x) = <<1, i - 1>>
      BY <2>2, <2>3
    <3>4. <<1, i - 1>> \in Places(w, s)
      BY <1>1, <3>2, PlaceIs
    <3> QED  BY <2>2, <2>3, <3>2, <3>3, <3>4 DEF Item
  <2>4. CASE c # 1
    <3>1. To(x) = x
      BY <2>2, <2>4
    <3>2. w[c] = v[c] /\ c \in DOMAIN w
      BY <2>4
    <3>3. x \in Places(w, s)
      BY <2>1, <2>4, <3>2, PlaceIs
    <3> HIDE DEF To
    <3> QED  BY <2>2, <2>4, <3>1, <3>2, <3>3 DEF Item
  <2> QED  BY <2>3, <2>4
<1>12. ASSUME NEW z \in Places(w, s) PROVE \E x \in Places(v, s) : x # x1 /\ z = To(x)
  <2>0. PICK c \in DOMAIN w : \E i \in DOMAIN w[c] : z = <<c, i>> /\ (c = 1 \/ w[c][i].s = s)
    BY PlaceIs
  <2>1. PICK i \in DOMAIN w[c] : z = <<c, i>> /\ (c = 1 \/ w[c][i].s = s)
    BY <2>0
  <2>2. CASE c = 1
    <3>1. i \in 1 .. Len(v[1]) - 1 /\ i + 1 \in 1 .. Len(v[1])
      BY <1>1, <2>1, <2>2
    <3>2. <<1, i + 1>> \in Places(v, s)
      BY <1>1, <3>1, PlaceIs
    <3>3. <<1, i + 1>> # x1 /\ To(<<1, i + 1>>) = <<1, i>>
      BY <3>1 DEF x1
    <3> QED  BY <2>1, <2>2, <3>2, <3>3
  <2>3. CASE c # 1
    <3>1. v[c] = w[c] /\ c \in DOMAIN v
      BY <2>3
    <3>2. z \in Places(v, s)
      BY <2>1, <2>3, <3>1, PlaceIs
    <3>3. z # x1 /\ To(z) = z
      BY <2>1, <2>3 DEF x1
    <3> QED  BY <3>2, <3>3
  <2> QED  BY <2>2, <2>3
<1>13. \A k \in K2 : /\ f[k] \in Places(v, s) /\ f[k] # x1 /\ TokenOK(Item(v, f[k]), out, k)
                     /\ g[k] = To(f[k]) /\ k \in K
  <2>1. \A k \in K2 : k \in K /\ k # n /\ k \in Nat
    BY <1>0, <1>9
  <2>2. \A k \in K : n <= k
    BY <1>0
  <2>3. \A k \in K2 : n < k
    BY <1>0, <2>1, <2>2
  <2>4. \A k \in K2 : Before(f[n], f[k]) /\ f[k] \in Places(v, s) /\ TokenOK(Item(v, f[k]), out, k)
    BY <1>5, <2>1, <2>3 DEF Chain, K
  <2>5. \A k \in K2 : f[k] # x1
    BY <1>2, <1>3, <1>4, <1>6, <2>4
  <2> QED  BY <2>1, <2>4, <2>5
<1> HIDE DEF g
<1>14. \A k \in K2 : g[k] \in Places(w, s) /\ TokenOK(Item(w, g[k]), out, k)
  BY <1>11, <1>13
<1>15. \A j, k \in K2 : j < k => Before(g[j], g[k])
  <2> SUFFICES ASSUME NEW j \in K2, NEW k \in K2, j < k PROVE Before(g[j], g[k])
    OBVIOUS
  <2>1. Before(f[j], f[k])
    BY <1>13 DEF Chain, K
  <2>2. \A k2 \in K2 : /\ g[k2][1] = f[k2][1] /\ f[k2][1] \in Nat /\ f[k2][2] \in Nat
                       /\ (f[k2][1] = 1 => g[k2][2] = f[k2][2] - 1)
                       /\ (f[k2][1] # 1 => g[k2] = f[k2])
    BY <1>11, <1>13
  <2>3. CASE f[j][1] < f[k][1]
    BY <2>2, <2>3 DEF Before
  <2>4. CASE f[j][1] = f[k][1] /\ f[j][2] < f[k][2]
    <3>1. CASE f[j][1] = 1
      <4>1. g[j][2] = f[j][2] - 1 /\ g[k][2] = f[k][2] - 1
        BY <2>2, <2>4, <3>1
      <4>2. g[j][2] < g[k][2]
        BY <2>2, <2>4, <4>1
      <4> QED  BY <2>2, <2>4, <4>2 DEF Before
    <3>2. CASE f[j][1] # 1
      BY <2>1, <2>2, <2>4, <3>2
    <3> QED  BY <3>1, <3>2
  <2> QED  BY <2>1, <2>3, <2>4 DEF Before
<1>16. ASSUME NEW z \in Places(w, s)
       PROVE  ItemOK(w, z) /\ (Item(w, z).ids # <<>> => \E k \in K2 : g[k] = z)
  <2>1. PICK x \in Places(v, s) : x # x1 /\ z = To(x)
    BY <1>12
  <2>2. ItemOK(v, x) /\ (Item(v, x).ids # <<>> => \E k \in K : f[k] = x)
    BY DEF Chain, K
  <2>3. Item(w, z) = Item(v, x) /\ z[1] = x[1]
    BY <1>11, <2>1
  <2>4. ItemOK(w, z)
    BY <2>2, <2>3 DEF ItemOK
  <2>5. \A k \in K : f[k] = x => k \in K2 /\ g[k] = z
    <3>1. \A k \in K : f[k] = x => k \in K2
      BY <1>4, <1>6, <1>9, <2>1
    <3> QED  BY <1>13, <2>1, <3>1
  <2> QED  BY <2>2, <2>3, <2>4, <2>5
<1> HIDE DEF To
<1>17. Chain(w, s, got2, out, g)
  BY <1>0, <1>7, <1>8, <1>10, <1>14, <1>15, <1>16 DEF Chain, K2
<1> QED  BY <1>7, <1>17 DEF got2

\* Only the queue is left: the chain ends with what is in it.
LEMMA Cut ==
  ASSUME NEW v, NEW w, NEW s, NEW got \in Seq(GenTokens), NEW out \in Seq(GenTokens), NEW f,
         Chain(v, s, got, out, f), DOMAIN v \subseteq Nat \ {0},
         1 \in DOMAIN w, 1 \in DOMAIN v, w[1] = v[1], \A c \in DOMAIN w : c # 1 => w[c] = <<>>
  PROVE  \E n \in Len(got) .. Len(out) :
           \E o \in Seq(GenTokens) : Len(o) = n /\ Chain(w, s, got, o, f)
<1> DEFINE K == Coming(got, out)
           Lost == {k \in K : f[k][1] # 1}
<1>0. Len(got) \in Nat /\ Len(out) \in Nat /\ K \subseteq Nat /\ Len(got) <= Len(out)
      /\ \A k : k \in K <=> k \in Nat /\ Len(got) < k /\ k <= Len(out)
  BY ComingIn DEF Chain
<1>1. \A x \in Places(v, s) : x[1] \in Nat \ {0}
  <2> SUFFICES ASSUME NEW x \in Places(v, s) PROVE x[1] \in Nat \ {0}
    OBVIOUS
  <2>1. PICK c \in DOMAIN v : \E i \in DOMAIN v[c] : x = <<c, i>>
    BY PlaceIs
  <2> QED  BY <2>1
<1>2. /\ \A k \in K : f[k] \in Places(v, s) /\ f[k][1] \in Nat \ {0} /\ TokenOK(Item(v, f[k]), out, k)
      /\ \A j, k \in K : j < k => f[j][1] <= f[k][1]
  <2>1. \A k \in K : f[k] \in Places(v, s) /\ f[k][1] \in Nat \ {0} /\ TokenOK(Item(v, f[k]), out, k)
    BY <1>1 DEF Chain
  <2>2. \A j, k \in K : j < k => Before(f[j], f[k])
    BY DEF Chain
  <2> QED  BY <2>1, <2>2 DEF Before
<1> HIDE DEF K
<1>3. \E n \in Len(got) .. Len(out) : \A k \in K : f[k][1] = 1 <=> k <= n
  <2>1. CASE Lost = {}
    <3>1. Len(out) \in Len(got) .. Len(out) /\ \A k \in K : f[k][1] = 1 /\ k <= Len(out)
      BY <1>0, <2>1
    <3> QED  BY <3>1
  <2>2. CASE Lost # {}
    <3>1. Lost \in SUBSET Nat
      BY <1>0
    <3> HIDE DEF Lost
    <3>2. PICK m \in Lost : \A k \in Lost : m <= k
      BY <2>2, <3>1, LeastNat
    <3>3. m \in K /\ f[m][1] # 1 /\ \A k \in K : f[k][1] # 1 => m <= k
      BY <3>2 DEF Lost
    <3>4. m \in Nat /\ Len(got) < m /\ m <= Len(out)
      BY <1>0, <3>3
    <3>5. \A k \in K : f[k][1] = 1 <=> k <= m - 1
      <4> SUFFICES ASSUME NEW k \in K PROVE f[k][1] = 1 <=> k <= m - 1
        OBVIOUS
      <4>1. k \in Nat
        BY <1>0
      <4>2. CASE k <= m - 1
        BY <3>3, <3>4, <4>1, <4>2
      <4>3. CASE m < k
        <5>1. f[m][1] <= f[k][1] /\ f[k][1] \in Nat \ {0} /\ f[m][1] \in Nat \ {0}
          BY <1>2, <3>3, <4>3
        <5> QED  BY <3>3, <3>4, <4>1, <4>3, <5>1
      <4>4. CASE k = m
        BY <3>3, <3>4, <4>4
      <4> QED  BY <3>4, <4>1, <4>2, <4>3, <4>4
    <3>6. m - 1 \in Len(got) .. Len(out)
      BY <1>0, <3>4
    <3> QED  BY <3>5, <3>6
  <2> QED  BY <2>1, <2>2
<1>4. PICK n \in Len(got) .. Len(out) : \A k \in K : f[k][1] = 1 <=> k <= n
  BY <1>3
<1> DEFINE o == [k \in 1 .. n |-> out[k]]
<1>5. n \in Nat /\ n <= Len(out) /\ Len(got) <= n
  BY <1>0, <1>4
<1>6. o \in Seq(GenTokens) /\ Len(o) = n /\ \A k \in 1 .. n : o[k] = out[k]
  <2>1. \A k \in 1 .. n : out[k] \in GenTokens
    BY <1>0, <1>5
  <2>2. o \in [1 .. n -> GenTokens]
    BY <2>1
  <2> QED  BY <1>5, <2>2
<1> HIDE DEF o, Lost
<1> DEFINE K2 == Coming(got, o)
<1>7. \A k : k \in K2 <=> k \in K /\ f[k][1] = 1
  <2>1. \A k : k \in K2 <=> k \in Nat /\ Len(got) < k /\ k <= n
    BY <1>6, ComingIn
  <2> QED  BY <1>0, <1>4, <1>5, <2>1
<1>8. \A x : x \in Places(w, s) <=> x \in Places(v, s) /\ x[1] = 1
  <2> SUFFICES ASSUME NEW x PROVE x \in Places(w, s) <=> x \in Places(v, s) /\ x[1] = 1
    OBVIOUS
  <2>1. x \in Places(w, s) <=> \E i \in DOMAIN v[1] : x = <<1, i>>
    <3>1. \A c \in DOMAIN w : c # 1 => DOMAIN w[c] = {}
      OBVIOUS
    <3> QED  BY <3>1, PlaceIs
  <2>2. x \in Places(v, s) /\ x[1] = 1 <=> \E i \in DOMAIN v[1] : x = <<1, i>>
    <3>1. \A c, i : x = <<c, i>> => x[1] = c
      OBVIOUS
    <3> QED  BY <3>1, PlaceIs
  <2> QED  BY <2>1, <2>2
<1>9. \A x \in Places(w, s) : Item(w, x) = Item(v, x)
  BY <1>8 DEF Item
<1> HIDE DEF K2
<1>10. \A k \in K2 : f[k] \in Places(w, s) /\ TokenOK(Item(w, f[k]), o, k)
  <2>1. \A k \in K2 : o[k] = out[k]
    BY <1>0, <1>4, <1>5, <1>6, <1>7
  <2>2. \A k \in K2 : f[k] \in Places(w, s) /\ TokenOK(Item(v, f[k]), out, k) /\ Item(w, f[k]) = Item(v, f[k])
    BY <1>2, <1>7, <1>8, <1>9
  <2> QED  BY <2>1, <2>2 DEF TokenOK
<1>11. \A j, k \in K2 : j < k => Before(f[j], f[k])
  BY <1>7 DEF Chain, K
<1>12. ASSUME NEW x \in Places(w, s)
       PROVE  ItemOK(w, x) /\ (Item(w, x).ids # <<>> => \E k \in K2 : f[k] = x)
  <2>1. x \in Places(v, s) /\ x[1] = 1 /\ Item(w, x) = Item(v, x)
    BY <1>8, <1>9
  <2>2. ItemOK(v, x) /\ (Item(v, x).ids # <<>> => \E k \in K : f[k] = x)
    BY <2>1 DEF Chain, K
  <2>3. ItemOK(w, x)
    BY <2>1, <2>2 DEF ItemOK
  <2> QED  BY <1>7, <2>1, <2>2, <2>3
<1>13. Len(got) <= Len(o) /\ \A k \in 1 .. Len(got) : got[k] = o[k]
  <2>1. \A k \in 1 .. Len(got) : got[k] = out[k]
    BY DEF Chain
  <2>2. \A k \in 1 .. Len(got) : k \in 1 .. n
    BY <1>0, <1>5
  <2> QED  BY <1>5, <1>6, <2>1, <2>2
<1>14. Chain(w, s, got, o, f)
  BY <1>10, <1>11, <1>12, <1>13 DEF Chain, K2
<1> QED  BY <1>4, <1>6, <1>14

\* A step adds a token: it comes last.
LEMMA Extended ==
  ASSUME NEW v, NEW w, NEW s, NEW got \in Seq(GenTokens), NEW out \in Seq(GenTokens), NEW f,
         NEW tok \in GenTokens, NEW n \in Nat \ {0}, NEW i \in Nat,
         Chain(v, s, got, out, f), DOMAIN v = 1 .. n, DOMAIN w = 1 .. n + 1,
         \A c \in 1 .. n : w[c] = v[c],
         i \in DOMAIN w[n + 1], w[n + 1][i].s = s,
         \A j \in DOMAIN w[n + 1] : w[n + 1][j].s = s => j = i,
         w[n + 1][i].reason \in {"none", "stop", "length"},
         TokenOK(w[n + 1][i], Append(out, tok), Len(out) + 1)
  PROVE  \E g : Chain(w, s, got, Append(out, tok), g)
<1> DEFINE K == Coming(got, out)
           m == Len(out) + 1
           o == Append(out, tok)
           K2 == Coming(got, o)
           y == <<n + 1, i>>
           g == [k \in K2 |-> IF k = m THEN y ELSE f[k]]
<1>0. Len(got) \in Nat /\ Len(out) \in Nat /\ K \subseteq Nat /\ Len(got) <= Len(out) /\ m \in Nat
      /\ \A k : k \in K <=> k \in Nat /\ Len(got) < k /\ k <= Len(out)
  BY ComingIn DEF Chain
<1>1. o \in Seq(GenTokens) /\ Len(o) = m /\ o[m] = tok /\ \A k \in 1 .. Len(out) : o[k] = out[k]
  BY <1>0
<1> HIDE DEF o
<1>2. K2 = K \cup {m}
  <2>1. \A k : k \in K2 <=> k \in Nat /\ Len(got) < k /\ k <= m
    BY <1>1, ComingIn
  <2> QED  BY <1>0, <2>1
<1>3. y \in Places(w, s) /\ Item(w, y) = w[n + 1][i] /\ y[1] = n + 1 /\ y[2] = i
  <2>1. n + 1 \in DOMAIN w
    OBVIOUS
  <2>2. y \in Places(w, s)
    BY <2>1, PlaceIs
  <2> QED  BY <2>2 DEF Item
<1>4. ASSUME NEW x \in Places(v, s)
      PROVE  x \in Places(w, s) /\ Item(w, x) = Item(v, x) /\ x[1] \in 1 .. n
  <2>1. PICK c \in DOMAIN v : \E a \in DOMAIN v[c] : x = <<c, a>> /\ (c = 1 \/ v[c][a].s = s)
    BY PlaceIs
  <2>2. w[c] = v[c] /\ c \in DOMAIN w /\ x[1] = c /\ c \in 1 .. n
    BY <2>1
  <2>3. x \in Places(w, s)
    BY <2>1, <2>2, PlaceIs
  <2> QED  BY <2>2, <2>3 DEF Item
<1>5. ASSUME NEW x \in Places(w, s) PROVE x \in Places(v, s) \/ x = y
  <2>1. PICK c \in DOMAIN w : \E a \in DOMAIN w[c] : x = <<c, a>> /\ (c = 1 \/ w[c][a].s = s)
    BY PlaceIs
  <2>2. CASE c \in 1 .. n
    BY <2>1, <2>2, PlaceIs
  <2>3. CASE c = n + 1
    BY <2>1, <2>3
  <2> QED  BY <2>2, <2>3
<1> HIDE DEF y
<1>6. ASSUME NEW k \in K
      PROVE  /\ f[k] \in Places(v, s) /\ TokenOK(Item(v, f[k]), out, k) /\ f[k][1] < n + 1
             /\ o[k] = out[k] /\ k # m /\ k < m
  <2>1. f[k] \in Places(v, s) /\ TokenOK(Item(v, f[k]), out, k)
    BY DEF Chain
  <2>2. k # m /\ k < m /\ k \in 1 .. Len(out)
    BY <1>0
  <2> QED  BY <1>1, <1>4, <2>1, <2>2
<1>7. \A k \in K : g[k] = f[k] /\ m \in K2 /\ g[m] = y
  BY <1>2, <1>6
<1>8. g[m] = y /\ m \in K2
  BY <1>2
<1> HIDE DEF g, K2
<1>9. ASSUME NEW k \in K2 PROVE g[k] \in Places(w, s) /\ TokenOK(Item(w, g[k]), o, k)
  <2>1. CASE k \in K
    <3>1. g[k] = f[k] /\ o[k] = out[k] /\ TokenOK(Item(v, f[k]), out, k) /\ f[k] \in Places(v, s)
      BY <1>6, <1>7, <2>1
    <3>2. Item(w, f[k]) = Item(v, f[k]) /\ f[k] \in Places(w, s)
      BY <1>4, <3>1
    <3> QED  BY <3>1, <3>2 DEF TokenOK
  <2>2. CASE k = m
    BY <1>3, <1>8, <2>2 DEF o
  <2> QED  BY <1>2, <2>1, <2>2
<1>10. ASSUME NEW j \in K2, NEW k \in K2, j < k PROVE Before(g[j], g[k])
  <2>1. j \in K
    <3>1. \A l \in K2 : l \in Nat /\ l <= m
      BY <1>0, <1>2
    <3> QED  BY <1>0, <1>2, <1>10, <3>1
  <2>2. CASE k \in K
    <3>1. Before(f[j], f[k])
      BY <1>10, <2>1, <2>2 DEF Chain
    <3> QED  BY <1>7, <2>1, <2>2, <3>1
  <2>3. CASE k = m
    <3>1. g[j] = f[j] /\ g[k] = y /\ f[j][1] < n + 1
      BY <1>6, <1>7, <1>8, <2>1, <2>3
    <3> QED  BY <1>3, <3>1 DEF Before
  <2> QED  BY <1>2, <2>2, <2>3
<1>11. ASSUME NEW x \in Places(w, s)
       PROVE  ItemOK(w, x) /\ (Item(w, x).ids # <<>> => \E k \in K2 : g[k] = x)
  <2>1. CASE x \in Places(v, s)
    <3>1. ItemOK(v, x) /\ (Item(v, x).ids # <<>> => \E k \in K : f[k] = x)
      BY <2>1 DEF Chain
    <3>2. Item(w, x) = Item(v, x)
      BY <1>4, <2>1
    <3>3. ItemOK(w, x)
      BY <3>1, <3>2 DEF ItemOK
    <3> QED  BY <1>2, <1>7, <3>1, <3>2, <3>3
  <2>2. CASE x = y
    <3>0. \A e : <<e>> # <<>>
      OBVIOUS
    <3>1. Item(w, x).ids # <<>> /\ Item(w, x).reason \in {"none", "stop", "length"}
      BY <1>3, <2>2, <3>0 DEF TokenOK
    <3>2. ItemOK(w, x)
      BY <3>1 DEF ItemOK
    <3> QED  BY <1>8, <2>2, <3>2
  <2> QED  BY <1>5, <2>1, <2>2
<1>12. Len(got) <= Len(o) /\ \A k \in 1 .. Len(got) : got[k] = o[k]
  <2>1. \A k \in 1 .. Len(got) : got[k] = out[k] /\ k \in 1 .. Len(out)
    BY <1>0 DEF Chain
  <2> QED  BY <1>0, <1>1, <2>1
<1>13. Chain(w, s, got, o, g)
  BY <1>9, <1>10, <1>11, <1>12 DEF Chain, K2
<1> QED  BY <1>13 DEF o

\* What a place is made of, and back.
LEMMA PlaceOf ==
  ASSUME NEW w, NEW s, NEW x \in Places(w, s)
  PROVE  /\ x = <<x[1], x[2]>> /\ x[1] \in DOMAIN w /\ x[2] \in DOMAIN w[x[1]]
         /\ Item(w, x) = w[x[1]][x[2]] /\ (x[1] = 1 \/ Item(w, x).s = s)
<1>1. PICK c \in DOMAIN w : \E i \in DOMAIN w[c] : x = <<c, i>> /\ (c = 1 \/ w[c][i].s = s)
  BY PlaceIs
<1>2. PICK i \in DOMAIN w[c] : x = <<c, i>> /\ (c = 1 \/ w[c][i].s = s)
  BY <1>1
<1>3. x[1] = c /\ x[2] = i
  BY <1>2
<1> QED  BY <1>2, <1>3 DEF Item

LEMMA PlaceIn ==
  ASSUME NEW w, NEW s, NEW c \in DOMAIN w, NEW i \in DOMAIN w[c], c = 1 \/ w[c][i].s = s
  PROVE  <<c, i>> \in Places(w, s) /\ Item(w, <<c, i>>) = w[c][i]
<1>1. <<c, i>> \in Places(w, s)
  BY PlaceIs
<1> QED  BY <1>1 DEF Item

\* Items stay; what is new has no token.
LEMMA Stayed ==
  ASSUME NEW v, NEW w, NEW s, NEW got, NEW out, NEW f, Chain(v, s, got, out, f),
         \A x \in Places(v, s) : x \in Places(w, s) /\ Item(w, x) = Item(v, x),
         \A z \in Places(w, s) : z \in Places(v, s) \/ (ItemOK(w, z) /\ Item(w, z).ids = <<>>)
  PROVE  Chain(w, s, got, out, f)
<1> DEFINE K == Coming(got, out)
<1>1. \A k \in K : f[k] \in Places(w, s) /\ TokenOK(Item(w, f[k]), out, k)
  BY DEF Chain
<1>2. ASSUME NEW z \in Places(w, s)
      PROVE  ItemOK(w, z) /\ (Item(w, z).ids # <<>> => \E k \in K : f[k] = z)
  <2>1. CASE z \in Places(v, s)
    <3>1. ItemOK(v, z) /\ Item(w, z) = Item(v, z) /\ (Item(v, z).ids # <<>> => \E k \in K : f[k] = z)
      BY <2>1 DEF Chain
    <3> QED  BY <3>1 DEF ItemOK
  <2>2. CASE ItemOK(w, z) /\ Item(w, z).ids = <<>>
    BY <2>2
  <2> QED  BY <2>1, <2>2
<1> QED  BY <1>1, <1>2 DEF Chain

-----------------------------------------------------------------------------
(* Ways *)

\* What a way is made of.
Parts(queue, batch, upd, cbs) ==
  IsSeq(queue) /\ IsSeq(batch) /\ IsSeq(upd) /\ IsSeq(cbs) /\ \A k \in DOMAIN cbs : IsSeq(ListOf(cbs[k]))

\* The lists of a way, one by one.
LEMMA WayIs ==
  ASSUME NEW q, NEW b, NEW u, NEW cbs, Parts(q, b, u, cbs)
  PROVE  LET w == WayOf(q, b, u, cbs) IN
         /\ Len(cbs) \in Nat /\ DOMAIN w = 1 .. Len(cbs) + 3 /\ w[1] = q /\ w[2] = b /\ w[3] = u
         /\ \A k \in 1 .. Len(cbs) : k + 3 \in DOMAIN w /\ w[k + 3] = ListOf(cbs[k])
         /\ \A c \in DOMAIN w : \/ c \in {1, 2, 3}
                                \/ c - 3 \in 1 .. Len(cbs) /\ w[c] = ListOf(cbs[c - 3])
         /\ \A c \in DOMAIN w : IsSeq(w[c]) /\ DOMAIN w[c] \subseteq Nat \ {0}
         /\ 1 \in DOMAIN w /\ 2 \in DOMAIN w /\ 3 \in DOMAIN w /\ DOMAIN w \subseteq Nat \ {0}
<1> DEFINE w == WayOf(q, b, u, cbs)
<1>1. Len(cbs) \in Nat /\ DOMAIN cbs = 1 .. Len(cbs)
  BY SeqLen DEF Parts
<1>2. /\ DOMAIN w = 1 .. Len(cbs) + 3
      /\ \A c \in 1 .. Len(cbs) + 3 :
           w[c] = IF c = 1 THEN q ELSE IF c = 2 THEN b ELSE IF c = 3 THEN u ELSE ListOf(cbs[c - 3])
  BY DEF WayOf
<1> HIDE DEF w
<1>3. \A k \in 1 .. Len(cbs) : k + 3 \in 1 .. Len(cbs) + 3 /\ k + 3 # 1 /\ k + 3 # 2 /\ k + 3 # 3 /\ (k + 3) - 3 = k
  BY <1>1
<1>4. \A c \in 1 .. Len(cbs) + 3 : c # 1 /\ c # 2 /\ c # 3 => c - 3 \in 1 .. Len(cbs)
  BY <1>1
<1>5. 1 \in 1 .. Len(cbs) + 3 /\ 2 \in 1 .. Len(cbs) + 3 /\ 3 \in 1 .. Len(cbs) + 3
  BY <1>1
<1>6. \A c \in DOMAIN w : IsSeq(w[c])
  BY <1>1, <1>2, <1>4 DEF Parts
<1>7. \A c \in DOMAIN w : DOMAIN w[c] \subseteq Nat \ {0}
  <2> SUFFICES ASSUME NEW c \in DOMAIN w PROVE DOMAIN w[c] \subseteq Nat \ {0}
    OBVIOUS
  <2>1. Len(w[c]) \in Nat /\ DOMAIN w[c] = 1 .. Len(w[c])
    BY <1>6, SeqLen
  <2> QED  BY <2>1
<1>8. DOMAIN w \subseteq Nat \ {0}
  BY <1>1, <1>2
<1>9. w[1] = q /\ w[2] = b /\ w[3] = u /\ \A k \in 1 .. Len(cbs) : w[k + 3] = ListOf(cbs[k])
  BY <1>2, <1>3, <1>5
<1>10. \A c \in DOMAIN w : \/ c \in {1, 2, 3}
                           \/ c - 3 \in 1 .. Len(cbs) /\ w[c] = ListOf(cbs[c - 3])
  BY <1>2, <1>4
<1> QED  BY <1>1, <1>2, <1>3, <1>5, <1>6, <1>7, <1>8, <1>9, <1>10 DEF w

\* What is where in a concatenation.
LEMMA ConcatAt ==
  ASSUME NEW q, IsSeq(q), NEW r, IsSeq(r)
  PROVE  /\ IsSeq(q \o r) /\ Len(q) \in Nat /\ Len(r) \in Nat /\ DOMAIN (q \o r) = 1 .. Len(q) + Len(r)
         /\ DOMAIN q = 1 .. Len(q) /\ DOMAIN r = 1 .. Len(r)
         /\ \A i \in 1 .. Len(q) : (q \o r)[i] = q[i]
         /\ \A i \in 1 .. Len(r) : (q \o r)[Len(q) + i] = r[i]
<1>1. q \in Seq(ToSet(q) \cup ToSet(r)) /\ r \in Seq(ToSet(q) \cup ToSet(r))
  BY DEF IsSeq
<1>2. IsSeq(q \o r)
  BY SeqConcat
<1> QED  BY <1>1, <1>2

\* A callback runs: its list joins the updates.
LEMMA CallbackRuns ==
  ASSUME NEW q, NEW b, NEW u, NEW cbs, Parts(q, b, u, cbs), cbs # <<>>,
         NEW s, NEW got, NEW out, NEW f, Chain(WayOf(q, b, u, cbs), s, got, out, f)
  PROVE  \E g : Chain(WayOf(q, b, u \o ListOf(Head(cbs)), Tail(cbs)), s, got, out, g)
<1> DEFINE l == ListOf(Head(cbs))
           v == WayOf(q, b, u, cbs)
           w == WayOf(q, b, u \o l, Tail(cbs))
           n == Len(cbs)
<1>1. /\ n \in Nat \ {0} /\ IsSeq(Tail(cbs)) /\ Len(Tail(cbs)) = n - 1 /\ Head(cbs) = cbs[1]
      /\ \A k \in 1 .. n - 1 : Tail(cbs)[k] = cbs[k + 1]
      /\ DOMAIN cbs = 1 .. n /\ DOMAIN Tail(cbs) = 1 .. n - 1
  BY SeqTail, SeqLen DEF Parts
<1>2. IsSeq(l)
  BY <1>1 DEF Parts
<1>3. Parts(q, b, u \o l, Tail(cbs))
  <2>1. \A k \in 1 .. n - 1 : k + 1 \in 1 .. n
    BY <1>1
  <2>2. IsSeq(u \o l)
    BY <1>2, SeqConcat DEF Parts
  <2> QED  BY <1>1, <2>1, <2>2 DEF Parts
<1> DEFINE a == u \o l
<1>4. /\ Len(u) \in Nat /\ Len(l) \in Nat /\ DOMAIN a = 1 .. Len(u) + Len(l)
      /\ DOMAIN u = 1 .. Len(u) /\ DOMAIN l = 1 .. Len(l)
      /\ \A i \in 1 .. Len(u) : a[i] = u[i]
      /\ \A i \in 1 .. Len(l) : a[Len(u) + i] = l[i]
  BY <1>2, ConcatAt DEF Parts
<1>5. /\ DOMAIN v = 1 .. n + 3 /\ v[1] = q /\ v[2] = b /\ v[3] = u /\ v[4] = l
      /\ \A k \in 1 .. n : v[k + 3] = ListOf(cbs[k])
      /\ \A c \in DOMAIN v : DOMAIN v[c] \subseteq Nat \ {0}
  <2>1. /\ DOMAIN v = 1 .. n + 3 /\ v[1] = q /\ v[2] = b /\ v[3] = u
        /\ \A k \in 1 .. n : v[k + 3] = ListOf(cbs[k])
        /\ \A c \in DOMAIN v : DOMAIN v[c] \subseteq Nat \ {0}
    BY WayIs
  <2>2. 1 \in 1 .. n /\ 1 + 3 = 4
    BY <1>1
  <2> HIDE DEF v
  <2>3. v[1 + 3] = ListOf(cbs[1])
    BY <2>1, <2>2
  <2> QED  BY <1>1, <2>1, <2>2, <2>3
<1>6. /\ DOMAIN w = 1 .. n + 2 /\ w[1] = q /\ w[2] = b /\ w[3] = a
      /\ \A k \in 1 .. n - 1 : w[k + 3] = ListOf(cbs[k + 1])
  <2> DEFINE tl == Tail(cbs)
  <2>a. Parts(q, b, a, tl) /\ w = WayOf(q, b, a, tl)
    BY <1>3
  <2> HIDE DEF w, a, tl, n
  <2>b. /\ DOMAIN w = 1 .. Len(tl) + 3 /\ w[1] = q /\ w[2] = b /\ w[3] = a
        /\ \A k \in 1 .. Len(tl) : w[k + 3] = ListOf(tl[k])
    BY <2>a, WayIs
  <2>0. /\ DOMAIN w = 1 .. Len(Tail(cbs)) + 3 /\ w[1] = q /\ w[2] = b /\ w[3] = a
        /\ \A k \in 1 .. Len(Tail(cbs)) : w[k + 3] = ListOf(Tail(cbs)[k])
    BY <2>b DEF tl
  <2>1. /\ DOMAIN w = 1 .. (n - 1) + 3 /\ w[1] = q /\ w[2] = b /\ w[3] = a
        /\ \A k \in 1 .. n - 1 : w[k + 3] = ListOf(Tail(cbs)[k])
    BY <1>1, <2>0
  <2>2. (n - 1) + 3 = n + 2
    BY <1>1 DEF n
  <2> QED  BY <1>1, <2>1, <2>2
<1> HIDE DEF v, w, a, l
<1>7. \A c \in 5 .. n + 3 : c \in 1 .. n + 3 /\ c - 1 \in 4 .. n + 2 /\ w[c - 1] = v[c]
  <2> SUFFICES ASSUME NEW c \in 5 .. n + 3 PROVE c \in 1 .. n + 3 /\ c - 1 \in 4 .. n + 2 /\ w[c - 1] = v[c]
    OBVIOUS
  <2>1. c \in 1 .. n + 3 /\ c - 1 \in 4 .. n + 2 /\ c - 4 \in 1 .. n - 1 /\ c - 3 \in 1 .. n
        /\ (c - 4) + 3 = c - 1 /\ (c - 3) + 3 = c /\ (c - 4) + 1 = c - 3
    BY <1>1
  <2>2. w[(c - 4) + 3] = ListOf(cbs[(c - 4) + 1]) /\ v[(c - 3) + 3] = ListOf(cbs[c - 3])
    BY <1>5, <1>6, <2>1
  <2> QED  BY <2>1, <2>2
<1> HIDE DEF n
<1> DEFINE C(c) == IF c <= 3 THEN c ELSE c - 1
           I(c, i) == IF c = 4 THEN Len(u) + i ELSE i
           phi == [x \in Places(v, s) |-> <<C(x[1]), I(x[1], x[2])>>]
<1>8. ASSUME NEW c \in DOMAIN v, NEW i \in DOMAIN v[c], c = 1 \/ v[c][i].s = s
      PROVE  /\ C(c) \in DOMAIN w /\ I(c, i) \in DOMAIN w[C(c)] /\ w[C(c)][I(c, i)] = v[c][i]
             /\ (C(c) = 1 <=> c = 1)
  <2>1. c \in 1 .. n + 3 /\ n \in Nat \ {0} /\ i \in Nat \ {0}
    BY <1>1, <1>5 DEF n
  <2>2. CASE c \in {1, 2}
    BY <1>5, <1>6, <2>1, <2>2
  <2>3. CASE c = 3
    <3>1. i \in 1 .. Len(u) /\ i \in 1 .. Len(u) + Len(l)
      BY <1>4, <1>5, <2>3
    <3> QED  BY <1>4, <1>5, <1>6, <2>1, <2>3, <3>1
  <2>4. CASE c = 4
    <3>1. i \in 1 .. Len(l) /\ Len(u) + i \in 1 .. Len(u) + Len(l)
      BY <1>4, <1>5, <2>4
    <3> QED  BY <1>4, <1>5, <1>6, <2>1, <2>4, <3>1
  <2>5. CASE c \in 5 .. n + 3
    BY <1>5, <1>6, <1>7, <2>1, <2>5
  <2> QED  BY <2>1, <2>2, <2>3, <2>4, <2>5
<1>9. ASSUME NEW x \in Places(v, s)
      PROVE  /\ phi[x] \in Places(w, s) /\ Item(w, phi[x]) = Item(v, x) /\ (phi[x][1] = 1 <=> x[1] = 1)
             /\ phi[x][1] = C(x[1]) /\ phi[x][2] = I(x[1], x[2])
  <2>1. x[1] \in DOMAIN v /\ x[2] \in DOMAIN v[x[1]] /\ Item(v, x) = v[x[1]][x[2]]
        /\ (x[1] = 1 \/ v[x[1]][x[2]].s = s)
    BY PlaceOf
  <2> HIDE DEF C, I
  <2>2. phi[x] = <<C(x[1]), I(x[1], x[2])>>
    OBVIOUS
  <2>3. phi[x] \in Places(w, s) /\ Item(w, phi[x]) = w[C(x[1])][I(x[1], x[2])]
    BY <1>8, <2>1, <2>2, PlaceIn
  <2> QED  BY <1>8, <2>1, <2>2, <2>3
<1>10. ASSUME NEW x \in Places(v, s), NEW y \in Places(v, s), Before(x, y)
       PROVE  Before(phi[x], phi[y])
  <2>1. /\ x[1] \in 1 .. n + 3 /\ y[1] \in 1 .. n + 3 /\ x[2] \in Nat \ {0} /\ y[2] \in Nat \ {0}
        /\ (x[1] = 3 => x[2] <= Len(u)) /\ n \in Nat
    <3>1. x[1] \in DOMAIN v /\ x[2] \in DOMAIN v[x[1]] /\ y[1] \in DOMAIN v /\ y[2] \in DOMAIN v[y[1]]
      BY PlaceOf
    <3>2. x[1] = 3 => x[2] \in 1 .. Len(u)
      BY <1>4, <1>5, <3>1
    <3> QED  BY <1>1, <1>4, <1>5, <3>1, <3>2 DEF n
  <2>2. /\ phi[x][1] = C(x[1]) /\ phi[x][2] = I(x[1], x[2])
        /\ phi[y][1] = C(y[1]) /\ phi[y][2] = I(y[1], y[2])
    BY <1>9
  <2>3. C(x[1]) < C(y[1]) \/ (C(x[1]) = C(y[1]) /\ I(x[1], x[2]) < I(y[1], y[2]))
    <3>1. CASE x[1] < y[1]
      <4>1. CASE x[1] = 3 /\ y[1] = 4
        BY <1>4, <2>1, <4>1
      <4>2. CASE ~ (x[1] = 3 /\ y[1] = 4)
        BY <2>1, <3>1, <4>2
      <4> QED  BY <4>1, <4>2
    <3>2. CASE x[1] = y[1] /\ x[2] < y[2]
      BY <1>4, <2>1, <3>2
    <3> QED  BY <1>10, <3>1, <3>2 DEF Before
  <2> HIDE DEF C, I
  <2> QED  BY <2>2, <2>3 DEF Before
<1>11. ASSUME NEW z \in Places(w, s) PROVE \E x \in Places(v, s) : z = phi[x]
  <2>1. z = <<z[1], z[2]>> /\ z[1] \in DOMAIN w /\ z[2] \in DOMAIN w[z[1]] /\ (z[1] = 1 \/ w[z[1]][z[2]].s = s)
    BY PlaceOf
  <2>2. ASSUME NEW c \in DOMAIN v, NEW i \in DOMAIN v[c], C(c) = z[1], I(c, i) = z[2],
               v[c][i] = w[z[1]][z[2]], c = 1 \/ z[1] # 1
        PROVE  \E x \in Places(v, s) : z = phi[x]
    <3>1. <<c, i>> \in Places(v, s)
      BY <2>1, <2>2, PlaceIn
    <3>2. phi[<<c, i>>] = <<C(c), I(c, i)>>
      BY <3>1
    <3> HIDE DEF C, I, phi
    <3> QED  BY <2>1, <2>2, <3>1, <3>2
  <2>3. z[1] \in 1 .. n + 2 /\ n \in Nat \ {0}
    BY <1>1, <1>6, <2>1 DEF n
  <2>4. CASE z[1] \in {1, 2}
    <3>1. z[1] \in DOMAIN v /\ z[2] \in DOMAIN v[z[1]] /\ v[z[1]] = w[z[1]]
      BY <1>5, <1>6, <2>1, <2>3, <2>4
    <3>2. C(z[1]) = z[1] /\ I(z[1], z[2]) = z[2]
      BY <2>4
    <3> QED  BY <2>2, <3>1, <3>2
  <2>5. CASE z[1] = 3
    <3>1. z[2] \in 1 .. Len(u) + Len(l) /\ w[z[1]] = a
      BY <1>4, <1>6, <2>1, <2>5
    <3>2. CASE z[2] \in 1 .. Len(u)
      <4>1. 3 \in DOMAIN v /\ z[2] \in DOMAIN v[3] /\ v[3][z[2]] = w[z[1]][z[2]]
        BY <1>4, <1>5, <2>3, <3>1, <3>2
      <4>2. C(3) = z[1] /\ I(3, z[2]) = z[2]
        BY <2>5
      <4> QED  BY <2>2, <2>5, <4>1, <4>2
    <3>3. CASE z[2] \notin 1 .. Len(u)
      <4> DEFINE i == z[2] - Len(u)
      <4>1. i \in 1 .. Len(l) /\ Len(u) + i = z[2]
        BY <1>4, <3>1, <3>3
      <4>2. 4 \in DOMAIN v /\ i \in DOMAIN v[4] /\ v[4][i] = w[z[1]][z[2]]
        <5>1. a[Len(u) + i] = l[i]
          BY <1>4, <4>1
        <5> QED  BY <1>4, <1>5, <2>3, <3>1, <4>1, <5>1
      <4>3. C(4) = z[1] /\ I(4, i) = z[2]
        BY <2>5, <4>1
      <4> QED  BY <2>2, <2>5, <4>2, <4>3
    <3> QED  BY <3>2, <3>3
  <2>6. CASE z[1] \in 4 .. n + 2
    <3> DEFINE c == z[1] + 1
    <3>1. c \in 5 .. n + 3 /\ c - 1 = z[1] /\ C(c) = z[1] /\ I(c, z[2]) = z[2] /\ z[1] # 1
      BY <2>3, <2>6
    <3>2. c \in DOMAIN v /\ v[c] = w[z[1]]
      BY <1>5, <1>7, <3>1
    <3> HIDE DEF c
    <3> QED  BY <2>1, <2>2, <3>1, <3>2
  <2> QED  BY <2>3, <2>4, <2>5, <2>6
<1> HIDE DEF phi, C, I
<1>12. \A x \in Places(v, s) : ItemOK(v, x) => ItemOK(w, phi[x])
  BY <1>9 DEF ItemOK
<1>13. Chain(v, s, got, out, f)
  BY DEF v
<1>14. \A x \in Places(v, s) : /\ phi[x] \in Places(w, s) /\ (ItemOK(v, x) => ItemOK(w, phi[x]))
                               /\ Item(w, phi[x]).ids = Item(v, x).ids
                               /\ Item(w, phi[x]).reason \in {Item(v, x).reason, "error"}
  BY <1>9, <1>12
<1>15. \A x, y \in Places(v, s) : Before(x, y) => Before(phi[x], phi[y])
  BY <1>10
<1>16. \A z \in Places(w, s) : \E x \in Places(v, s) : z = phi[x]
  BY <1>11
<1>17. \E g : Chain(w, s, got, out, g)
  BY <1>13, <1>14, <1>15, <1>16, Moved
<1> QED  BY <1>17 DEF w, a, l

\* The pump takes the updates.
LEMMA UpdatesTaken ==
  ASSUME NEW q, NEW u, NEW cbs, Parts(q, <<>>, u, cbs),
         NEW s, NEW got, NEW out, NEW f, Chain(WayOf(q, <<>>, u, cbs), s, got, out, f)
  PROVE  \E g : Chain(WayOf(q, u, <<>>, cbs), s, got, out, g)
<1> DEFINE v == WayOf(q, <<>>, u, cbs)
           w == WayOf(q, u, <<>>, cbs)
           n == Len(cbs)
<1>1. Parts(q, u, <<>>, cbs)
  BY DEF Parts
<1>2. /\ n \in Nat /\ DOMAIN v = 1 .. n + 3 /\ v[1] = q /\ v[2] = <<>> /\ v[3] = u
      /\ \A c \in DOMAIN v : c \in {1, 2, 3} \/ (c - 3 \in 1 .. n /\ v[c] = ListOf(cbs[c - 3]))
      /\ \A c \in DOMAIN v : DOMAIN v[c] \subseteq Nat \ {0}
  BY WayIs
<1>3. /\ DOMAIN w = 1 .. n + 3 /\ w[1] = q /\ w[2] = u /\ w[3] = <<>>
      /\ \A c \in DOMAIN w : c \in {1, 2, 3} \/ (c - 3 \in 1 .. n /\ w[c] = ListOf(cbs[c - 3]))
  BY <1>1, WayIs
<1> HIDE DEF v, w, n
<1>4. DOMAIN v[2] = {} /\ DOMAIN w[3] = {} /\ 2 \in DOMAIN w /\ 3 \in DOMAIN v
  BY <1>2, <1>3
<1>5. \A c \in 1 .. n + 3 : c \notin {1, 2, 3} => w[c] = v[c]
  BY <1>2, <1>3
<1> DEFINE C(c) == IF c = 3 THEN 2 ELSE c
           phi == [x \in Places(v, s) |-> <<C(x[1]), x[2]>>]
<1>6. ASSUME NEW c \in DOMAIN v, NEW i \in DOMAIN v[c]
      PROVE  C(c) \in DOMAIN w /\ w[C(c)] = v[c] /\ (C(c) = 1 <=> c = 1) /\ c \in Nat /\ c # 2
  <2>1. c # 2 /\ c \in 1 .. n + 3 /\ c \in Nat
    BY <1>2, <1>4
  <2>2. CASE c = 1
    BY <1>2, <1>3, <2>2
  <2>3. CASE c = 3
    BY <1>2, <1>3, <1>4, <2>3
  <2>4. CASE c \notin {1, 2, 3}
    <3>1. C(c) = c /\ w[c] = v[c] /\ c \in DOMAIN w
      BY <1>3, <1>5, <2>1, <2>4
    <3> HIDE DEF C
    <3> QED  BY <2>1, <2>4, <3>1
  <2> QED  BY <2>1, <2>2, <2>3, <2>4
<1>7. ASSUME NEW x \in Places(v, s)
      PROVE  /\ phi[x] \in Places(w, s) /\ Item(w, phi[x]) = Item(v, x) /\ (phi[x][1] = 1 <=> x[1] = 1)
             /\ phi[x][1] = C(x[1]) /\ phi[x][2] = x[2] /\ x[1] \in Nat /\ x[1] # 2
  <2>1. x[1] \in DOMAIN v /\ x[2] \in DOMAIN v[x[1]] /\ Item(v, x) = v[x[1]][x[2]]
        /\ (x[1] = 1 \/ v[x[1]][x[2]].s = s)
    BY PlaceOf
  <2> HIDE DEF C
  <2>2. phi[x] = <<C(x[1]), x[2]>>
    OBVIOUS
  <2>4. /\ C(x[1]) \in DOMAIN w /\ x[2] \in DOMAIN w[C(x[1])]
        /\ (C(x[1]) = 1 \/ w[C(x[1])][x[2]].s = s)
    BY <1>6, <2>1
  <2>3. phi[x] \in Places(w, s) /\ Item(w, phi[x]) = w[C(x[1])][x[2]]
    BY <2>2, <2>4, PlaceIn
  <2> QED  BY <1>6, <2>1, <2>2, <2>3
<1>8. ASSUME NEW x \in Places(v, s), NEW y \in Places(v, s), Before(x, y)
      PROVE  Before(phi[x], phi[y])
  <2>1. CASE x[1] < y[1]
    <3>0. x[1] \in Nat /\ x[1] # 2 /\ y[1] \in Nat /\ y[1] # 2
      BY <1>7
    <3>1. C(x[1]) < C(y[1])
      BY <2>1, <3>0
    <3> QED  BY <1>7, <3>1 DEF Before
  <2>2. CASE x[1] = y[1] /\ x[2] < y[2]
    BY <1>7, <2>2 DEF Before
  <2> QED  BY <1>8, <2>1, <2>2 DEF Before
<1>9. ASSUME NEW z \in Places(w, s) PROVE \E x \in Places(v, s) : z = phi[x]
  <2>1. z = <<z[1], z[2]>> /\ z[1] \in DOMAIN w /\ z[2] \in DOMAIN w[z[1]] /\ (z[1] = 1 \/ w[z[1]][z[2]].s = s)
    BY PlaceOf
  <2>2. z[1] # 3
    BY <1>4, <2>1
  <2>3. PICK c \in DOMAIN v : C(c) = z[1] /\ v[c] = w[z[1]] /\ (z[1] = 1 <=> c = 1)
    <3>1. CASE z[1] = 1
      BY <1>2, <1>3, <3>1
    <3>2. CASE z[1] = 2
      BY <1>2, <1>3, <1>4, <3>2
    <3>3. CASE z[1] \notin {1, 2, 3}
      BY <1>2, <1>3, <1>5, <2>1, <3>3
    <3> QED  BY <2>2, <3>1, <3>2, <3>3
  <2>4. <<c, z[2]>> \in Places(v, s)
    BY <2>1, <2>3, PlaceIn
  <2>5. phi[<<c, z[2]>>] = <<C(c), z[2]>>
    BY <2>4
  <2> HIDE DEF C, phi
  <2> QED  BY <2>1, <2>3, <2>4, <2>5
<1> HIDE DEF phi, C
<1>10. \A x \in Places(v, s) : ItemOK(v, x) => ItemOK(w, phi[x])
  BY <1>7 DEF ItemOK
<1>11. Chain(v, s, got, out, f)
  BY DEF v
<1>12. \A x \in Places(v, s) : /\ phi[x] \in Places(w, s) /\ (ItemOK(v, x) => ItemOK(w, phi[x]))
                               /\ Item(w, phi[x]).ids = Item(v, x).ids
                               /\ Item(w, phi[x]).reason \in {Item(v, x).reason, "error"}
  BY <1>7, <1>10
<1>13. \A x, y \in Places(v, s) : Before(x, y) => Before(phi[x], phi[y])
  BY <1>8
<1>14. \A z \in Places(w, s) : \E x \in Places(v, s) : z = phi[x]
  BY <1>9
<1>15. \E g : Chain(w, s, got, out, g)
  BY <1>11, <1>12, <1>13, <1>14, Moved
<1> QED  BY <1>15 DEF w

\* outs are the items m[1], m[2], ... of the batch, those of stream s, or their failures.
Selected(outs, m, b, s) ==
  /\ \A k \in 1 .. Len(outs) :
       /\ m[k] \in DOMAIN b /\ b[m[k]].s = s /\ outs[k].ids = b[m[k]].ids
       /\ outs[k].reason \in {b[m[k]].reason, "error"}
  /\ \A j, k \in 1 .. Len(outs) : j < k => m[j] < m[k]
  /\ \A i \in DOMAIN b : b[i].s = s => \E k \in 1 .. Len(outs) : m[k] = i

\* The pump pushes the outputs for s.
LEMMA OutputsPushed ==
  ASSUME NEW q, NEW b, NEW u, NEW cbs, Parts(q, b, u, cbs), NEW outs, IsSeq(outs), NEW m, NEW s,
         Selected(outs, m, b, s),
         NEW got, NEW out, NEW f, Chain(WayOf(q, b, u, cbs), s, got, out, f)
  PROVE  \E g : Chain(WayOf(q \o outs, <<>>, u, cbs), s, got, out, g)
<1> SUFFICES
      ASSUME \A k \in 1 .. Len(outs) :
               /\ m[k] \in DOMAIN b /\ b[m[k]].s = s /\ outs[k].ids = b[m[k]].ids
               /\ outs[k].reason \in {b[m[k]].reason, "error"},
             \A j, k \in 1 .. Len(outs) : j < k => m[j] < m[k],
             \A i \in DOMAIN b : b[i].s = s => \E k \in 1 .. Len(outs) : m[k] = i
      PROVE  \E g : Chain(WayOf(q \o outs, <<>>, u, cbs), s, got, out, g)
  BY DEF Selected
<1> DEFINE v == WayOf(q, b, u, cbs)
           a == q \o outs
           w == WayOf(a, <<>>, u, cbs)
           n == Len(cbs)
<1>0. /\ IsSeq(a) /\ Len(q) \in Nat /\ Len(outs) \in Nat /\ DOMAIN a = 1 .. Len(q) + Len(outs)
      /\ DOMAIN q = 1 .. Len(q)
      /\ \A i \in 1 .. Len(q) : a[i] = q[i]
      /\ \A i \in 1 .. Len(outs) : a[Len(q) + i] = outs[i]
  BY ConcatAt DEF Parts
<1>00. Len(b) \in Nat /\ DOMAIN b = 1 .. Len(b)
  BY SeqLen DEF Parts
<1> HIDE DEF a
<1>1. Parts(a, <<>>, u, cbs)
  BY <1>0, SeqEmpty DEF Parts
<1>2. /\ n \in Nat /\ DOMAIN v = 1 .. n + 3 /\ v[1] = q /\ v[2] = b /\ v[3] = u
      /\ \A c \in DOMAIN v : c \in {1, 2, 3} \/ (c - 3 \in 1 .. n /\ v[c] = ListOf(cbs[c - 3]))
      /\ \A c \in DOMAIN v : DOMAIN v[c] \subseteq Nat \ {0}
  BY WayIs
<1>3. /\ DOMAIN w = 1 .. n + 3 /\ w[1] = a /\ w[2] = <<>> /\ w[3] = u
      /\ \A c \in DOMAIN w : c \in {1, 2, 3} \/ (c - 3 \in 1 .. n /\ w[c] = ListOf(cbs[c - 3]))
  BY <1>1, WayIs
<1> HIDE DEF v, w, n
<1>4. DOMAIN w[2] = {} /\ 1 \in DOMAIN v /\ 2 \in DOMAIN v /\ 1 \in DOMAIN w
  BY <1>2, <1>3
<1>5. \A c \in 1 .. n + 3 : c \notin {1, 2} => w[c] = v[c]
  BY <1>2, <1>3
\* The number among them of the item at i.
<1> DEFINE r == [i \in DOMAIN b |-> CHOOSE k \in 1 .. Len(outs) : m[k] = i]
<1>6. \A i \in DOMAIN b : b[i].s = s => r[i] \in 1 .. Len(outs) /\ m[r[i]] = i
  OBVIOUS
<1> HIDE DEF r
<1>7. ASSUME NEW i \in DOMAIN b, NEW j \in DOMAIN b, b[i].s = s, b[j].s = s, i < j
      PROVE  r[i] < r[j]
  <2>1. r[i] \in 1 .. Len(outs) /\ m[r[i]] = i /\ r[j] \in 1 .. Len(outs) /\ m[r[j]] = j
    BY <1>6, <1>7
  <2>2. ~ (r[j] < r[i])
    <3>1. r[j] < r[i] => j < i
      BY <2>1
    <3> QED  BY <1>00, <1>7, <3>1
  <2>3. r[i] # r[j]
    BY <1>00, <1>7, <2>1
  <2> QED  BY <1>0, <2>1, <2>2, <2>3
<1>8. \A k \in 1 .. Len(outs) : r[m[k]] = k
  <2> SUFFICES ASSUME NEW k \in 1 .. Len(outs) PROVE r[m[k]] = k
    OBVIOUS
  <2> DEFINE h == r[m[k]]
  <2>1. h \in 1 .. Len(outs) /\ m[h] = m[k] /\ m[k] \in Nat
    BY <1>00, <1>6
  <2> HIDE DEF h
  <2>2. (h < k => m[h] < m[k]) /\ (k < h => m[k] < m[h])
    BY <2>1
  <2>3. h = k
    BY <1>0, <2>1, <2>2
  <2> QED  BY <2>3 DEF h
<1> DEFINE C(c) == IF c = 2 THEN 1 ELSE c
           I(c, i) == IF c = 2 THEN Len(q) + r[i] ELSE i
           phi == [x \in Places(v, s) |-> <<C(x[1]), I(x[1], x[2])>>]
<1>9. ASSUME NEW c \in DOMAIN v, NEW i \in DOMAIN v[c], c = 1 \/ v[c][i].s = s
      PROVE  /\ C(c) \in DOMAIN w /\ I(c, i) \in DOMAIN w[C(c)] /\ (c = 1 => C(c) = 1)
             /\ (c # 2 => w[C(c)][I(c, i)] = v[c][i]) /\ (c # 1 /\ c # 2 => C(c) # 1)
             /\ w[C(c)][I(c, i)].ids = v[c][i].ids
             /\ w[C(c)][I(c, i)].reason \in {v[c][i].reason, "error"}
  <2>1. CASE c = 1
    <3>1. i \in 1 .. Len(q) /\ i \in 1 .. Len(q) + Len(outs)
      BY <1>0, <1>2, <2>1
    <3>2. C(c) = 1 /\ I(c, i) = i
      BY <2>1
    <3> QED  BY <1>0, <1>2, <1>3, <1>4, <2>1, <3>1, <3>2
  <2>2. CASE c = 2
    <3>1. i \in DOMAIN b /\ b[i].s = s /\ v[c] = b
      BY <1>2, <1>9, <2>2
    <3>2. r[i] \in 1 .. Len(outs) /\ m[r[i]] = i
      BY <1>6, <3>1
    <3>3. Len(q) + r[i] \in 1 .. Len(q) + Len(outs) /\ a[Len(q) + r[i]] = outs[r[i]]
      BY <1>0, <3>2
    <3>4. outs[r[i]].ids = b[i].ids /\ outs[r[i]].reason \in {b[i].reason, "error"}
      BY <3>2
    <3>5. C(c) = 1 /\ I(c, i) = Len(q) + r[i]
      BY <2>2
    <3> HIDE DEF C, I
    <3> QED  BY <1>0, <1>3, <1>4, <2>2, <3>1, <3>3, <3>4, <3>5
  <2>3. CASE c \notin {1, 2}
    BY <1>2, <1>3, <1>5, <2>3
  <2> QED  BY <2>1, <2>2, <2>3
<1>10. ASSUME NEW x \in Places(v, s)
      PROVE  /\ phi[x] \in Places(w, s) /\ Item(w, phi[x]).ids = Item(v, x).ids
             /\ Item(w, phi[x]).reason \in {Item(v, x).reason, "error"}
             /\ phi[x][1] = C(x[1]) /\ phi[x][2] = I(x[1], x[2])
             /\ (x[1] # 2 => Item(w, phi[x]) = Item(v, x)) /\ (x[1] = 1 => phi[x][1] = 1)
  <2>1. x[1] \in DOMAIN v /\ x[2] \in DOMAIN v[x[1]] /\ Item(v, x) = v[x[1]][x[2]]
        /\ (x[1] = 1 \/ v[x[1]][x[2]].s = s)
    BY PlaceOf
  <2> DEFINE c == C(x[1])
             i == I(x[1], x[2])
  <2>2. /\ c \in DOMAIN w /\ i \in DOMAIN w[c] /\ (x[1] = 1 => c = 1)
        /\ (x[1] # 2 => w[c][i] = v[x[1]][x[2]]) /\ (x[1] # 1 /\ x[1] # 2 => c # 1)
        /\ w[c][i].ids = v[x[1]][x[2]].ids
        /\ w[c][i].reason \in {v[x[1]][x[2]].reason, "error"}
    BY <1>9, <2>1
  <2>3. phi[x] = <<c, i>>
    OBVIOUS
  <2>4. c = 1 \/ (x[1] # 2 /\ x[1] # 1)
    OBVIOUS
  <2> HIDE DEF c, i
  <2>7. c = 1 \/ w[c][i].s = s
    BY <2>1, <2>2, <2>4
  <2>5. phi[x] \in Places(w, s) /\ Item(w, phi[x]) = w[c][i]
    BY <2>2, <2>3, <2>7, PlaceIn
  <2>6. phi[x][1] = c /\ phi[x][2] = i
    BY <2>3
  <2> HIDE DEF phi
  <2> QED  BY <2>1, <2>2, <2>5, <2>6 DEF c, i
<1>11. ASSUME NEW x \in Places(v, s), NEW y \in Places(v, s), Before(x, y)
       PROVE  Before(phi[x], phi[y])
  <2>1. \A z \in Places(v, s) :
          /\ z[1] \in 1 .. n + 3 /\ z[2] \in Nat \ {0} /\ n \in Nat
          /\ (z[1] = 1 => z[2] \in 1 .. Len(q))
          /\ (z[1] = 2 => z[2] \in DOMAIN b /\ b[z[2]].s = s /\ r[z[2]] \in 1 .. Len(outs))
    <3> SUFFICES ASSUME NEW z \in Places(v, s)
                 PROVE  /\ z[1] \in 1 .. n + 3 /\ z[2] \in Nat \ {0} /\ n \in Nat
                        /\ (z[1] = 1 => z[2] \in 1 .. Len(q))
                        /\ (z[1] = 2 => z[2] \in DOMAIN b /\ b[z[2]].s = s /\ r[z[2]] \in 1 .. Len(outs))
      OBVIOUS
    <3>1. z[1] \in DOMAIN v /\ z[2] \in DOMAIN v[z[1]] /\ (z[1] = 1 \/ v[z[1]][z[2]].s = s)
      BY PlaceOf
    <3>2. z[1] = 2 => z[2] \in DOMAIN b /\ b[z[2]].s = s
      BY <1>2, <3>1
    <3>3. z[1] = 1 => z[2] \in 1 .. Len(q)
      BY <1>0, <1>2, <3>1
    <3> QED  BY <1>2, <1>6, <3>1, <3>2, <3>3
  <2>2. /\ phi[x][1] = C(x[1]) /\ phi[x][2] = I(x[1], x[2])
        /\ phi[y][1] = C(y[1]) /\ phi[y][2] = I(y[1], y[2])
    BY <1>10
  <2>3. C(x[1]) < C(y[1]) \/ (C(x[1]) = C(y[1]) /\ I(x[1], x[2]) < I(y[1], y[2]))
    <3>1. CASE x[1] < y[1]
      <4>1. CASE x[1] = 1 /\ y[1] = 2
        <5>1. x[2] \in 1 .. Len(q) /\ r[y[2]] \in 1 .. Len(outs)
          BY <2>1, <4>1
        <5>2. x[2] < Len(q) + r[y[2]]
          BY <1>0, <5>1
        <5> QED  BY <4>1, <5>2
      <4>2. CASE ~ (x[1] = 1 /\ y[1] = 2)
        BY <2>1, <3>1, <4>2
      <4> QED  BY <4>1, <4>2
    <3>2. CASE x[1] = y[1] /\ x[2] < y[2] /\ x[1] # 2
      BY <3>2
    <3>3. CASE x[1] = 2 /\ y[1] = 2 /\ x[2] < y[2]
      <4>0. /\ x[2] \in DOMAIN b /\ b[x[2]].s = s /\ r[x[2]] \in 1 .. Len(outs)
            /\ y[2] \in DOMAIN b /\ b[y[2]].s = s /\ r[y[2]] \in 1 .. Len(outs)
        BY <2>1, <3>3
      <4>1. r[x[2]] < r[y[2]] /\ r[x[2]] \in Nat /\ r[y[2]] \in Nat
        BY <1>0, <1>7, <3>3, <4>0
      <4>2. Len(q) + r[x[2]] < Len(q) + r[y[2]]
        BY <1>0, <4>1
      <4> QED  BY <3>3, <4>2
    <3> QED  BY <1>11, <3>1, <3>2, <3>3 DEF Before
  <2> HIDE DEF C, I
  <2> QED  BY <2>2, <2>3 DEF Before
<1>12. ASSUME NEW z \in Places(w, s) PROVE \E x \in Places(v, s) : z = phi[x]
  <2>1. z = <<z[1], z[2]>> /\ z[1] \in DOMAIN w /\ z[2] \in DOMAIN w[z[1]] /\ (z[1] = 1 \/ w[z[1]][z[2]].s = s)
    BY PlaceOf
  <2>2. ASSUME NEW c \in DOMAIN v, NEW i \in DOMAIN v[c], C(c) = z[1], I(c, i) = z[2],
               c = 1 \/ v[c][i].s = s
        PROVE  \E x \in Places(v, s) : z = phi[x]
    <3>1. <<c, i>> \in Places(v, s)
      BY <2>1, <2>2, PlaceIn
    <3>2. phi[<<c, i>>] = <<C(c), I(c, i)>>
      BY <3>1
    <3> HIDE DEF C, I, phi
    <3> QED  BY <2>1, <2>2, <3>1, <3>2
  <2>3. z[1] # 2
    BY <1>4, <2>1
  <2>4. CASE z[1] = 1 /\ z[2] \in 1 .. Len(q)
    <3>1. 1 \in DOMAIN v /\ z[2] \in DOMAIN v[1]
      BY <1>0, <1>2, <1>4, <2>4
    <3>2. C(1) = z[1] /\ I(1, z[2]) = z[2]
      BY <2>4
    <3> QED  BY <2>2, <3>1, <3>2
  <2>5. CASE z[1] = 1 /\ z[2] \notin 1 .. Len(q)
    <3> DEFINE k == z[2] - Len(q)
    <3>1. z[2] \in 1 .. Len(q) + Len(outs)
      BY <1>0, <1>3, <2>1, <2>5
    <3>2. k \in 1 .. Len(outs) /\ Len(q) + k = z[2]
      BY <1>0, <2>5, <3>1
    <3> HIDE DEF k
    <3>3. m[k] \in DOMAIN b /\ b[m[k]].s = s /\ r[m[k]] = k
      BY <1>8, <3>2
    <3>4. 2 \in DOMAIN v /\ m[k] \in DOMAIN v[2] /\ v[2][m[k]].s = s
      BY <1>2, <1>4, <3>3
    <3>5. C(2) = z[1] /\ I(2, m[k]) = z[2]
      BY <2>5, <3>2, <3>3
    <3> QED  BY <2>2, <3>4, <3>5
  <2>6. CASE z[1] \notin {1, 2}
    <3>1. z[1] \in DOMAIN v /\ v[z[1]] = w[z[1]]
      BY <1>2, <1>3, <1>5, <2>1, <2>6
    <3>2. C(z[1]) = z[1] /\ I(z[1], z[2]) = z[2]
      BY <2>6
    <3> HIDE DEF C, I, phi
    <3> QED  BY <2>1, <2>2, <2>6, <3>1, <3>2
  <2> QED  BY <2>3, <2>4, <2>5, <2>6
<1> HIDE DEF phi
<1>13. ASSUME NEW x \in Places(v, s), ItemOK(v, x) PROVE ItemOK(w, phi[x])
  <2>1. CASE x[1] # 2
    <3>1. Item(w, phi[x]) = Item(v, x) /\ (x[1] = 1 => phi[x][1] = 1)
      BY <1>10, <2>1
    <3> QED  BY <1>13, <3>1 DEF ItemOK
  <2>2. CASE x[1] = 2
    <3>1. \/ Item(v, x).reason \in {"abort", "error"}
          \/ Item(v, x).reason \in {"none", "stop", "length"} /\ Item(v, x).ids # <<>>
      BY <1>13, <2>2 DEF ItemOK
    <3>2. /\ Item(w, phi[x]).ids = Item(v, x).ids
          /\ Item(w, phi[x]).reason \in {Item(v, x).reason, "error"}
      BY <1>10
    <3> QED  BY <3>1, <3>2 DEF ItemOK
  <2> QED  BY <2>1, <2>2
<1> HIDE DEF C, I
<1>14. Chain(v, s, got, out, f)
  BY DEF v
<1>15. \A x \in Places(v, s) : /\ phi[x] \in Places(w, s) /\ (ItemOK(v, x) => ItemOK(w, phi[x]))
                               /\ Item(w, phi[x]).ids = Item(v, x).ids
                               /\ Item(w, phi[x]).reason \in {Item(v, x).reason, "error"}
  BY <1>10, <1>13
<1>16. \A x, y \in Places(v, s) : Before(x, y) => Before(phi[x], phi[y])
  BY <1>11
<1>17. \A z \in Places(w, s) : (\E x \in Places(v, s) : z = phi[x]) \/ (ItemOK(w, z) /\ Item(w, z).ids = <<>>)
  BY <1>12
<1>18. \E g : Chain(w, s, got, out, g)
  BY <1>14, <1>15, <1>16, <1>17, Moved
<1> QED  BY <1>18 DEF w, a

-----------------------------------------------------------------------------
(* InOrder keeps the order *)

\* The elements of a set of numbers in order: each once, and increasing.
LEMMA InOrderIs ==
  ASSUME NEW n \in Nat, NEW S \in SUBSET (1 .. n)
  PROVE  /\ IsSeq(InOrder(S)) /\ Len(InOrder(S)) \in Nat /\ DOMAIN InOrder(S) = 1 .. Len(InOrder(S))
         /\ \A k \in 1 .. Len(InOrder(S)) : InOrder(S)[k] \in S
         /\ \A j, k \in 1 .. Len(InOrder(S)) : j < k => InOrder(S)[j] < InOrder(S)[k]
         /\ \A x \in S : \E k \in 1 .. Len(InOrder(S)) : InOrder(S)[k] = x
<1> DEFINE q == InOrder(S)
<1>0. \A x \in S : x \in Nat
  OBVIOUS
<1>1. IsSeq(q) /\ ToSet(q) = S
  BY Enumerated
<1>2. /\ Len(q) \in Nat /\ DOMAIN q = 1 .. Len(q)
      /\ \A k \in 1 .. Len(q) : q[k] \in S
      /\ \A x \in S : \E k \in 1 .. Len(q) : q[k] = x
  BY <1>1, SeqLen
<1>3. 1 .. Len(q) = 1 .. Cardinality(S)
  BY <1>2 DEF InOrder
<1>4. \A k \in 1 .. Len(q) : q[k] \in Nat /\ Cardinality(Below(S, q[k])) = k - 1
  <2> SUFFICES ASSUME NEW k \in 1 .. Len(q) PROVE q[k] \in Nat /\ Cardinality(Below(S, q[k])) = k - 1
    OBVIOUS
  <2>1. q[k] \in S /\ k \in 1 .. Cardinality(S)
    BY <1>2, <1>3
  <2>2. Cardinality(Below(S, q[k])) = k - 1
    BY <2>1, RankOf
  <2> HIDE DEF q
  <2> QED  BY <1>0, <2>1, <2>2
<1> HIDE DEF q
<1>5. ASSUME NEW j \in 1 .. Len(q), NEW k \in 1 .. Len(q), j < k PROVE q[j] < q[k]
  <2>1. q[j] \in S /\ q[k] \in S /\ q[j] \in Nat /\ q[k] \in Nat
    BY <1>2, <1>4
  <2>2. Cardinality(Below(S, q[j])) = j - 1 /\ Cardinality(Below(S, q[k])) = k - 1
    BY <1>4
  <2>3. q[j] # q[k]
    <3>1. j - 1 # k - 1
      BY <1>2, <1>5
    <3> QED  BY <2>2, <3>1
  <2>4. ~ (q[k] < q[j])
    <3> SUFFICES ASSUME q[k] < q[j] PROVE FALSE
      OBVIOUS
    <3>1. Cardinality(Below(S, q[k])) < Cardinality(Below(S, q[j]))
      BY <2>1, RankGrows
    <3>2. k - 1 < j - 1
      BY <2>2, <3>1
    <3> QED  BY <1>2, <1>5, <3>2
  <2> QED  BY <2>1, <2>3, <2>4
<1> QED  BY <1>1, <1>2, <1>5 DEF q

-----------------------------------------------------------------------------
(* Steps *)

\* What a stream's way is made of, whether or not the pump has been cancelled.
LEMMA WayParts ==
  ASSUME StreamsOK, PumpOK, DeliveryOK, NEW s \in Streams
  PROVE  /\ Parts(stream[s].queue, pump.batch, updates, soon)
         /\ Parts(stream[s].queue, <<>>, <<>>, <<>>)
<1>1. IsSeq(stream[s].queue) /\ IsSeq(pump.batch) /\ IsSeq(updates) /\ IsSeq(soon)
  BY DEF StreamsOK, StreamOK, PumpOK, DeliveryOK
<1>2. ASSUME NEW k \in DOMAIN soon PROVE IsSeq(ListOf(soon[k]))
  <2>1. CallbackOK(soon[k])
    BY DEF DeliveryOK, ToSet
  <2>2. CASE soon[k].kind = "updates" /\ IsSeq(soon[k].list)
    BY <2>2 DEF ListOf
  <2>3. CASE \E c \in Calls : soon[k] = SetFuture(c)
    <3>1. soon[k].kind # "updates"
      BY <2>3 DEF SetFuture
    <3> QED  BY <3>1, SeqEmpty DEF ListOf
  <2> QED  BY <2>1, <2>2, <2>3 DEF CallbackOK
<1> QED  BY <1>1, <1>2, SeqEmpty DEF Parts

\* What is needed of a step: the request is where it was, and items have moved along the way.
LEMMA Carried ==
  ASSUME NEW s, Delivery(s), stream'[s].got = stream[s].got,
         \A out \in Seq(GenTokens) : Origin(s, out) => Origin(s, out)',
         \A out \in Seq(GenTokens) : \A f :
           Chain(Way(s), s, stream[s].got, out, f) => \E g : Chain(Way(s)', s, stream[s].got, out, g)
  PROVE  Delivery(s)'
<1>1. PICK out \in Seq(GenTokens) : Origin(s, out) /\ \E f : Chain(Way(s), s, stream[s].got, out, f)
  BY DEF Delivery
<1>2. Origin(s, out)'
  BY <1>1
<1>3. \E g : Chain(Way(s)', s, stream[s].got, out, g)
  BY <1>1
<1> QED  BY <1>2, <1>3 DEF Delivery

\* The queue and the engine's requests are as they were, but for commands that add nothing.
LEMMA OriginKept ==
  ASSUME CommandsOK, NEW s, NEW out, Origin(s, out), UNCHANGED <<live, gen>>, Pending(s)' => Pending(s)
  PROVE  Origin(s, out)'
BY DEF Origin

\* Only a submission adds a request to the queue.
LEMMA PendingKept ==
  ASSUME CommandsOK, UNCHANGED sending, NEW s,
         \/ commands' = commands
         \/ \E t : commands' = Append(commands, AbortOf(t))
         \/ commands' = Append(commands, STOP)
         \/ commands # <<>> /\ commands' = Tail(commands)
  PROVE  Pending(s)' => Pending(s)
<1>1. IsSeq(commands)
  BY DEF CommandsOK
<1>2. \A e : commands' = Append(commands, e) => ToSet(commands)' = ToSet(commands) \cup {e}
  <2> SUFFICES ASSUME NEW e, commands' = Append(commands, e)
               PROVE  ToSet(commands)' = ToSet(commands) \cup {e}
    OBVIOUS
  <2>1. ToSet(Append(commands, e)) = ToSet(commands) \cup {e}
    BY <1>1, SeqAppend
  <2>2. ToSet(commands)' = ToSet(Append(commands, e))
    BY DEF ToSet
  <2> QED  BY <2>1, <2>2
<1>3. commands # <<>> /\ commands' = Tail(commands) => ToSet(commands)' \subseteq ToSet(commands)
  BY GetCommand
<1>4. commands' = commands => ToSet(commands)' = ToSet(commands)
  BY DEF ToSet
<1>5. \A t : AbortOf(t) # AddOf(s) /\ STOP # AddOf(s)
  BY Kinds
<1>6. AddOf(s) \in ToSet(commands)' => AddOf(s) \in ToSet(commands)
  BY <1>2, <1>3, <1>4, <1>5
<1> QED  BY <1>6 DEF Pending, AddOf

\* Nothing moves on the way of s.
LEMMA WayKept ==
  ASSUME NEW s, soon' = soon, updates' = updates, pump'.batch = pump.batch,
         (pump'.state = "cancelled") <=> (pump.state = "cancelled"), stream'[s].queue = stream[s].queue
  PROVE  Way(s)' = Way(s)
BY DEF Way

\* The step neither touches what stream s has nor what is on its way.
LEMMA ReadsKept ==
  ASSUME NEW s, Reads(s), Way(s)' = Way(s),
         \A out \in Seq(GenTokens) : Origin(s, out) => Origin(s, out)',
         stream'[s].handler = "reading" =>
           /\ stream[s].handler = "reading" /\ stream'[s].reason = stream[s].reason
           /\ stream'[s].finished = stream[s].finished /\ stream'[s].got = stream[s].got
  PROVE  Reads(s)'
<1> SUFFICES ASSUME stream'[s].handler = "reading"
             PROVE  /\ stream'[s].reason = "none" /\ ~ stream'[s].finished
                    /\ stream'[s].got \in Seq(GenTokens) /\ Delivery(s)'
  BY DEF Reads
<1>1. /\ stream[s].handler = "reading" /\ stream'[s].reason = stream[s].reason
      /\ stream'[s].finished = stream[s].finished /\ stream'[s].got = stream[s].got
  OBVIOUS
<1>2. /\ stream[s].reason = "none" /\ ~ stream[s].finished /\ stream[s].got \in Seq(GenTokens)
      /\ Delivery(s)
  BY <1>1 DEF Reads
<1>3. Delivery(s)'
  BY <1>1, <1>2, Carried
<1> QED  BY <1>1, <1>2, <1>3

\* The queue of s changes and nothing else on its way.
LEMMA WaySplit ==
  ASSUME StreamsOK, PumpOK, DeliveryOK, NEW s \in Streams, UNCHANGED <<soon, updates, pump>>
  PROVE  \E b, u, cbs : /\ Parts(stream[s].queue, b, u, cbs)
                        /\ Way(s) = WayOf(stream[s].queue, b, u, cbs)
                        /\ Way(s)' = WayOf(stream'[s].queue, b, u, cbs)
<1>1. /\ Parts(stream[s].queue, pump.batch, updates, soon)
      /\ Parts(stream[s].queue, <<>>, <<>>, <<>>)
  BY WayParts
<1>2. CASE pump.state = "cancelled"
  BY <1>1, <1>2 DEF Way
<1>3. CASE pump.state # "cancelled"
  BY <1>1, <1>3 DEF Way
<1> QED  BY <1>2, <1>3

\* The watcher's marker comes last in the queue.
LEMMA MarkerPut ==
  ASSUME NEW q, NEW b, NEW u, NEW cbs, Parts(q, b, u, cbs),
         NEW s, NEW got, NEW out, NEW f, Chain(WayOf(q, b, u, cbs), s, got, out, f)
  PROVE  Chain(WayOf(Append(q, DISCONNECTED), b, u, cbs), s, got, out, f)
<1> DEFINE a == Append(q, DISCONNECTED)
           v == WayOf(q, b, u, cbs)
           w == WayOf(a, b, u, cbs)
           n == Len(cbs)
<1>1. /\ IsSeq(a) /\ Len(a) = Len(q) + 1 /\ a[Len(q) + 1] = DISCONNECTED
      /\ \A i \in 1 .. Len(q) : a[i] = q[i]
  BY SeqAppend DEF Parts
<1> HIDE DEF a
<1>2. Len(q) \in Nat /\ DOMAIN q = 1 .. Len(q) /\ DOMAIN a = 1 .. Len(q) + 1
  BY <1>1, SeqLen DEF Parts
<1>3. Parts(a, b, u, cbs)
  BY <1>1 DEF Parts
<1>4. /\ n \in Nat /\ DOMAIN v = 1 .. n + 3 /\ v[1] = q /\ v[2] = b /\ v[3] = u
      /\ \A c \in DOMAIN v : c \in {1, 2, 3} \/ (c - 3 \in 1 .. n /\ v[c] = ListOf(cbs[c - 3]))
  BY WayIs
<1>5. /\ DOMAIN w = 1 .. n + 3 /\ w[1] = a /\ w[2] = b /\ w[3] = u
      /\ \A c \in DOMAIN w : c \in {1, 2, 3} \/ (c - 3 \in 1 .. n /\ w[c] = ListOf(cbs[c - 3]))
  BY <1>3, WayIs
<1> HIDE DEF v, w, n
<1>6. \A c \in 1 .. n + 3 : c # 1 => w[c] = v[c]
  BY <1>4, <1>5
<1>7. ASSUME NEW x \in Places(v, s) PROVE x \in Places(w, s) /\ Item(w, x) = Item(v, x)
  <2>1. x = <<x[1], x[2]>> /\ x[1] \in DOMAIN v /\ x[2] \in DOMAIN v[x[1]]
        /\ Item(v, x) = v[x[1]][x[2]] /\ (x[1] = 1 \/ v[x[1]][x[2]].s = s)
    BY PlaceOf
  <2>2. x[1] \in DOMAIN w /\ x[2] \in DOMAIN w[x[1]] /\ w[x[1]][x[2]] = v[x[1]][x[2]]
    <3>1. CASE x[1] = 1
      <4>1. x[2] \in 1 .. Len(q) /\ x[2] \in 1 .. Len(q) + 1
        BY <1>2, <1>4, <2>1, <3>1
      <4> QED  BY <1>1, <1>2, <1>4, <1>5, <2>1, <3>1, <4>1
    <3>2. CASE x[1] # 1
      BY <1>4, <1>5, <1>6, <2>1, <3>2
    <3> QED  BY <3>1, <3>2
  <2>3. <<x[1], x[2]>> \in Places(w, s) /\ Item(w, <<x[1], x[2]>>) = w[x[1]][x[2]]
    BY <2>1, <2>2, PlaceIn
  <2> QED  BY <2>1, <2>2, <2>3
<1>8. ASSUME NEW z \in Places(w, s)
      PROVE  z \in Places(v, s) \/ (ItemOK(w, z) /\ Item(w, z).ids = <<>>)
  <2>1. z = <<z[1], z[2]>> /\ z[1] \in DOMAIN w /\ z[2] \in DOMAIN w[z[1]]
        /\ Item(w, z) = w[z[1]][z[2]] /\ (z[1] = 1 \/ w[z[1]][z[2]].s = s)
    BY PlaceOf
  <2>2. CASE z[1] = 1 /\ z[2] = Len(q) + 1
    <3>1. Item(w, z) = DISCONNECTED
      BY <1>1, <1>5, <2>1, <2>2
    <3>2. DISCONNECTED.ids = <<>>
      BY DEF DISCONNECTED
    <3> QED  BY <2>2, <3>1, <3>2 DEF ItemOK
  <2>3. CASE ~ (z[1] = 1 /\ z[2] = Len(q) + 1)
    <3>1. z[1] \in DOMAIN v /\ z[2] \in DOMAIN v[z[1]] /\ (z[1] = 1 \/ v[z[1]][z[2]].s = s)
      <4>1. CASE z[1] = 1
        <5>1. z[2] \in 1 .. Len(q) + 1 /\ z[2] # Len(q) + 1
          BY <1>2, <1>5, <2>1, <2>3, <4>1
        <5>2. z[2] \in 1 .. Len(q)
          BY <1>2, <5>1
        <5> QED  BY <1>2, <1>4, <1>5, <2>1, <4>1, <5>2
      <4>2. CASE z[1] # 1
        BY <1>4, <1>5, <1>6, <2>1, <4>2
      <4> QED  BY <4>1, <4>2
    <3>2. <<z[1], z[2]>> \in Places(v, s)
      BY <3>1, PlaceIn
    <3> QED  BY <2>1, <3>2
  <2> QED  BY <2>2, <2>3
<1>9. Chain(v, s, got, out, f)
  BY DEF v
<1>10. Chain(w, s, got, out, f)
  BY <1>7, <1>8, <1>9, Stayed
<1> QED  BY <1>10 DEF w, a

\* Steps that touch neither streams nor ways: a call starts or is cancelled, a command is put, the
\* worker decodes, the pump aborts, and the thread moves on or fails.
Aside == \/ \E c \in Calls : StartCall(c) \/ CancelCall(c)
         \/ SendPut \/ Stop \/ Detokenize \/ PumpAborts \/ GoStep \/ StepFails

\* They leave the streams, the engine's requests and the items where they are.
LEMMA AsideIs ==
  ASSUME PumpOK, Aside
  PROVE  /\ UNCHANGED <<stream, live, gen, soon, updates>> /\ pump'.batch = pump.batch
         /\ ((pump'.state = "cancelled") <=> (pump.state = "cancelled"))
<1>1. CASE \E c \in Calls : StartCall(c) \/ CancelCall(c)
  BY <1>1 DEF StartCall, CancelCall, engineVars, pumpVars
<1>2. CASE SendPut \/ Stop
  BY <1>2 DEF SendPut, Stop, engineVars, pumpVars, clientVars
<1>3. CASE GoStep \/ StepFails
  BY <1>3 DEF GoStep, StepFails, pumpVars, clientVars
<1>4. CASE PumpAborts
  <2>1. /\ UNCHANGED <<stream, live, gen, soon, updates>>
        /\ pump' = [pump EXCEPT !.state = "aborting", !.texts = Append(pump.texts, <<>>)]
        /\ pump.state \in {"undecoded", "aborting"}
    BY <1>4 DEF PumpAborts, NextFailed, engineVars, clientVars
  <2>2. pump'.state = "aborting" /\ pump'.batch = pump.batch
    BY <2>1 DEF PumpOK
  <2> QED  BY <2>1, <2>2
<1>5. CASE Detokenize
  <2>1. UNCHANGED <<stream, live, gen, soon, updates>> /\ pump.state = "detokenizing"
    BY <1>5 DEF Detokenize, engineVars, clientVars
  <2>2. \E texts : \E st \in {"decoded", "detokenizing", "undecoded"} :
          pump' = [pump EXCEPT !.texts = texts, !.state = st]
    <3>1. PICK n : n = Len(pump.texts) + 1
      OBVIOUS
    <3>2. \/ \E text : pump' = [pump EXCEPT !.texts = Append(@, text),
                                            !.state = IF n = Len(pump.batch) THEN "decoded" ELSE @]
          \/ pump' = [pump EXCEPT !.state = "undecoded", !.texts = <<>>]
      BY <1>5, <3>1 DEF Detokenize
    <3>3. CASE pump' = [pump EXCEPT !.state = "undecoded", !.texts = <<>>]
      <4>1. pump' = [pump EXCEPT !.texts = <<>>, !.state = "undecoded"]
        BY <3>3 DEF PumpOK
      <4> QED  BY <4>1
    <3>4. CASE \E text : pump' = [pump EXCEPT !.texts = Append(@, text),
                                              !.state = IF n = Len(pump.batch) THEN "decoded" ELSE @]
      <4>1. PICK text : pump' = [pump EXCEPT !.texts = Append(@, text),
                                             !.state = IF n = Len(pump.batch) THEN "decoded" ELSE @]
        BY <3>4
      <4>2. PICK st \in {"decoded", "detokenizing"} :
               st = IF n = Len(pump.batch) THEN "decoded" ELSE pump.state
        BY <2>1
      <4>3. pump' = [pump EXCEPT !.texts = Append(pump.texts, text), !.state = st]
        BY <4>1, <4>2
      <4> QED  BY <4>3
    <3> QED  BY <3>2, <3>3, <3>4
  <2>3. PICK texts, st : st \in {"decoded", "detokenizing", "undecoded"}
                         /\ pump' = [pump EXCEPT !.texts = texts, !.state = st]
    BY <2>2
  <2>4. pump'.state = st /\ pump'.batch = pump.batch
    BY <2>3 DEF PumpOK
  <2> QED  BY <2>1, <2>3, <2>4
<1> QED  BY <1>1, <1>2, <1>3, <1>4, <1>5 DEF Aside

\* So what a client will read is as before.
LEMMA AsideReads ==
  ASSUME DInv, Aside
  PROVE  \A s \in Streams : Reads(s)'
<1> SUFFICES ASSUME NEW s \in Streams PROVE Reads(s)'
  OBVIOUS
<1>0. CommandsOK /\ PumpOK /\ Reads(s)
  BY DEF DInv, WInv
<1>1. UNCHANGED <<stream, live, gen, soon, updates>> /\ pump'.batch = pump.batch
      /\ ((pump'.state = "cancelled") <=> (pump.state = "cancelled"))
  BY <1>0, AsideIs
<1>2. Way(s)' = Way(s)
  BY <1>1, WayKept
<1>3. Pending(s)' => Pending(s)
  <2>1. CASE \E c \in Calls : StartCall(c)
    <3>1. commands' = commands /\ \E c \in Calls : sending' = CallOf(c)
      BY <2>1 DEF StartCall, Send
    <3>2. ToSet(commands)' = ToSet(commands)
      BY <3>1 DEF ToSet
    <3>3. sending' # AddOf(s)
      BY <3>1, Kinds
    <3> QED  BY <3>2, <3>3 DEF Pending, AddOf
  <2>2. CASE SendPut
    <3>1. commands' = Append(commands, sending) /\ sending' = NoCommand
      BY <2>2 DEF SendPut
    <3>2. ToSet(Append(commands, sending)) = ToSet(commands) \cup {sending}
      BY <1>0, SeqAppend DEF CommandsOK
    <3>3. ToSet(commands)' = ToSet(Append(commands, sending))
      BY <3>1 DEF ToSet
    <3>4. sending' # AddOf(s)
      BY <3>1, Kinds
    <3> QED  BY <3>2, <3>3, <3>4 DEF Pending, AddOf
  <2>3. CASE (\E c \in Calls : CancelCall(c)) \/ Stop \/ Detokenize \/ PumpAborts \/ GoStep \/ StepFails
    <3>1. UNCHANGED sending /\ \/ commands' = commands
                               \/ \E t : commands' = Append(commands, AbortOf(t))
                               \/ commands' = Append(commands, STOP)
      BY <2>3 DEF CancelCall, Stop, Detokenize, PumpAborts, Aborting, GoStep, StepFails, sendVars
    <3> QED  BY <1>0, <3>1, PendingKept
  <2> QED  BY <2>1, <2>2, <2>3 DEF Aside
<1>4. \A out \in Seq(GenTokens) : Origin(s, out) => Origin(s, out)'
  BY <1>0, <1>1, <1>3, OriginKept
<1>5. stream' = stream
  BY <1>1
<1> QED  BY <1>0, <1>2, <1>4, <1>5, ReadsKept

\* The steps of the loop that send nothing leave every request where it was.
LEMMA LoopOrigin ==
  ASSUME CommandsOK, NEW s,
         \/ \E t \in Streams : \/ HandlerGet(t) \/ HandlerFails(t) \/ HandlerStalls(t)
                               \/ Disconnect(t) \/ WatcherWakes(t)
         \/ RunCallback \/ PumpTake \/ PumpPush
  PROVE  \A out \in Seq(GenTokens) : Origin(s, out) => Origin(s, out)'
<1>1. /\ UNCHANGED <<live, gen, sending>>
      /\ commands' = commands \/ \E t : commands' = Append(commands, AbortOf(t))
  BY DEF HandlerGet, HandlerFails, HandlerStalls, Disconnect, WatcherWakes, EndHandler, Aborting,
         RunCallback, PumpTake, PumpPush, engineVars, sendVars
<1>2. Pending(s)' => Pending(s)
  BY <1>1, PendingKept
<1> QED  BY <1>1, <1>2, OriginKept

\* Another stream's handler or watcher does something.
LEMMA OtherReads ==
  ASSUME DInv, NEW t \in Streams, NEW s \in Streams, s # t,
         \/ HandlerGet(t) \/ HandlerFails(t) \/ HandlerStalls(t) \/ Disconnect(t) \/ WatcherWakes(t)
  PROVE  Reads(s)'
<1>1. CommandsOK /\ StreamsOK /\ Reads(s)
  BY DEF DInv, WInv
<1>2. stream'[s] = stream[s]
  <2>1. \E st : stream' = [stream EXCEPT ![t] = st] /\ StreamOK(st)
    BY <1>1, HandlerSteps
  <2> QED  BY <1>1, <2>1, StreamUpdated
<1>3. UNCHANGED <<soon, updates, pump>>
  BY DEF HandlerGet, HandlerFails, HandlerStalls, Disconnect, WatcherWakes, pumpVars
<1>4. Way(s)' = Way(s)
  BY <1>2, <1>3, WayKept
<1>5. \A out \in Seq(GenTokens) : Origin(s, out) => Origin(s, out)'
  BY <1>1, LoopOrigin
<1> QED  BY <1>1, <1>2, <1>4, <1>5, ReadsKept

\* A handler that fails or stalls reads no more; one whose client leaves does not notice yet.
LEMMA OwnReads ==
  ASSUME DInv, NEW t \in Streams, HandlerFails(t) \/ HandlerStalls(t) \/ Disconnect(t)
  PROVE  Reads(t)'
<1>1. CommandsOK /\ StreamsOK /\ Reads(t) /\ StreamOK(stream[t])
  BY DEF DInv, WInv, StreamsOK
<1>2. UNCHANGED <<soon, updates, pump>>
  BY DEF HandlerFails, HandlerStalls, Disconnect, pumpVars
<1>3. CASE HandlerFails(t)
  <2>1. stream' = [stream EXCEPT ![t] = [stream[t] EXCEPT !.handler = "ended", !.watcher = "ended"]]
    BY <1>3 DEF HandlerFails, EndHandler
  <2>2. stream'[t].handler = "ended"
    BY <1>1, <2>1 DEF Streams, StreamOK, Fields
  <2> QED  BY <2>2 DEF Reads
<1>4. CASE HandlerStalls(t)
  <2>1. stream' = [stream EXCEPT ![t] = [stream[t] EXCEPT !.handler = "stalled"]]
    BY <1>4 DEF HandlerStalls
  <2>2. stream'[t].handler = "stalled"
    BY <1>1, <2>1 DEF Streams, StreamOK, Fields
  <2> QED  BY <2>2 DEF Reads
<1>5. CASE Disconnect(t)
  <2>1. stream' = [stream EXCEPT ![t] = [stream[t] EXCEPT !.gone = TRUE]]
    BY <1>5 DEF Disconnect
  <2>2. /\ stream'[t].handler = stream[t].handler /\ stream'[t].queue = stream[t].queue
        /\ stream'[t].got = stream[t].got /\ stream'[t].reason = stream[t].reason
        /\ stream'[t].finished = stream[t].finished
    BY <1>1, <2>1 DEF Streams, StreamOK, Fields
  <2>3. Way(t)' = Way(t)
    BY <1>2, <2>2, WayKept
  <2>4. \A out \in Seq(GenTokens) : Origin(t, out) => Origin(t, out)'
    BY <1>1, <1>5, LoopOrigin
  <2> QED  BY <1>1, <2>2, <2>3, <2>4, ReadsKept
<1> QED  BY <1>3, <1>4, <1>5

\* _watch_disconnect: the marker is behind what the handler has yet to read.
LEMMA WatcherReads ==
  ASSUME DInv, NEW t \in Streams, WatcherWakes(t)
  PROVE  Reads(t)'
<1>1. CommandsOK /\ StreamsOK /\ PumpOK /\ DeliveryOK /\ Reads(t) /\ StreamOK(stream[t])
  BY DEF DInv, WInv, StreamsOK
<1>2. UNCHANGED <<soon, updates, pump>>
  BY DEF WatcherWakes, pumpVars
<1>3. stream' = [stream EXCEPT ![t] = [stream[t] EXCEPT !.watcher = "ended",
                                                        !.queue = Append(stream[t].queue, DISCONNECTED)]]
  BY DEF WatcherWakes
<1>4. /\ stream'[t].handler = stream[t].handler /\ stream'[t].queue = Append(stream[t].queue, DISCONNECTED)
      /\ stream'[t].got = stream[t].got /\ stream'[t].reason = stream[t].reason
      /\ stream'[t].finished = stream[t].finished
  BY <1>1, <1>3 DEF Streams, StreamOK, Fields
<1>5. PICK b, u, cbs : /\ Parts(stream[t].queue, b, u, cbs)
                       /\ Way(t) = WayOf(stream[t].queue, b, u, cbs)
                       /\ Way(t)' = WayOf(stream'[t].queue, b, u, cbs)
  BY <1>1, <1>2, WaySplit
<1>6. \A out \in Seq(GenTokens) : Origin(t, out) => Origin(t, out)'
  BY <1>1, LoopOrigin
<1>7. \A out \in Seq(GenTokens) : \A f :
        Chain(Way(t), t, stream[t].got, out, f) => \E g : Chain(Way(t)', t, stream[t].got, out, g)
  BY <1>4, <1>5, MarkerPut
<1> SUFFICES ASSUME stream'[t].handler = "reading"
             PROVE  /\ stream'[t].reason = "none" /\ ~ stream'[t].finished
                    /\ stream'[t].got \in Seq(GenTokens) /\ Delivery(t)'
  BY DEF Reads
<1>8. /\ stream[t].reason = "none" /\ ~ stream[t].finished /\ stream[t].got \in Seq(GenTokens)
      /\ Delivery(t)
  BY <1>1, <1>4 DEF Reads
<1>9. Delivery(t)'
  BY <1>4, <1>6, <1>7, <1>8, Carried
<1> QED  BY <1>4, <1>8, <1>9

\* What the next output of a stream that is read may be, and what it leaves.
LEMMA NextOutput ==
  ASSUME NEW q, NEW b, NEW u, NEW cbs, Parts(q, b, u, cbs), q # <<>>,
         NEW s, NEW got \in Seq(GenTokens), NEW out \in Seq(GenTokens), NEW f,
         Chain(WayOf(q, b, u, cbs), s, got, out, f)
  PROVE  \/ Head(q) = DISCONNECTED
         \/ Head(q).reason \in {"abort", "error"}
         \/ /\ Head(q).reason \in {"none", "stop", "length"} /\ Len(got) < Len(out)
            /\ TokenOK(Head(q), out, Len(got) + 1)
            /\ \E g : Chain(WayOf(Tail(q), b, u, cbs), s, Append(got, out[Len(got) + 1]), out, g)
<1> DEFINE v == WayOf(q, b, u, cbs)
           w == WayOf(Tail(q), b, u, cbs)
           n == Len(cbs)
<1>1. IsSeq(q) /\ IsSeq(Tail(q)) /\ Head(q) = q[1] /\ 1 \in DOMAIN q
  <2>1. IsSeq(q)
    BY DEF Parts
  <2>2. IsSeq(Tail(q)) /\ Head(q) = q[1] /\ Len(q) \in Nat \ {0}
    BY <2>1, SeqTail
  <2>3. DOMAIN q = 1 .. Len(q)
    BY <2>1, SeqLen
  <2> QED  BY <2>1, <2>2, <2>3
<1> DEFINE tl == Tail(q)
<1>2. Parts(tl, b, u, cbs)
  BY <1>1 DEF Parts
<1>3. /\ n \in Nat /\ DOMAIN v = 1 .. n + 3 /\ v[1] = q /\ v[2] = b /\ v[3] = u /\ 1 \in DOMAIN v
      /\ \A c \in DOMAIN v : c \in {1, 2, 3} \/ (c - 3 \in 1 .. n /\ v[c] = ListOf(cbs[c - 3]))
      /\ \A c \in DOMAIN v : DOMAIN v[c] \subseteq Nat \ {0}
      /\ DOMAIN v \subseteq Nat \ {0}
  BY WayIs
<1> HIDE DEF tl
<1>4. LET x == WayOf(tl, b, u, cbs) IN
      /\ DOMAIN x = 1 .. n + 3 /\ x[1] = tl /\ x[2] = b /\ x[3] = u
      /\ \A c \in DOMAIN x : c \in {1, 2, 3} \/ (c - 3 \in 1 .. n /\ x[c] = ListOf(cbs[c - 3]))
  BY <1>2, WayIs
<1>5. w = WayOf(tl, b, u, cbs)
  BY DEF tl
<1>6. /\ DOMAIN w = DOMAIN v /\ w[1] = Tail(v[1]) /\ \A c \in DOMAIN v : c # 1 => w[c] = v[c]
  <2> HIDE DEF v, w, n
  <2>1. DOMAIN w = 1 .. n + 3 /\ w[1] = tl /\ w[2] = b /\ w[3] = u
        /\ \A c \in DOMAIN w : c \in {1, 2, 3} \/ (c - 3 \in 1 .. n /\ w[c] = ListOf(cbs[c - 3]))
    BY <1>4, <1>5
  <2> QED  BY <1>3, <2>1 DEF tl
<1>7. Chain(v, s, got, out, f)
  OBVIOUS
<1> HIDE DEF v, w, n
<1>8. <<1, 1>> \in Places(v, s) /\ Item(v, <<1, 1>>) = Head(q)
  BY <1>1, <1>3, PlaceIn
<1>9. ItemOK(v, <<1, 1>>)
  BY <1>7, <1>8 DEF Chain
<1>10. \/ Head(q) = DISCONNECTED \/ Head(q).reason \in {"abort", "error"}
       \/ Head(q).reason \in {"none", "stop", "length"} /\ Head(q).ids # <<>>
  BY <1>8, <1>9 DEF ItemOK
<1>11. CASE Head(q).reason \in {"none", "stop", "length"} /\ Head(q).ids # <<>>
  <2>1. IsSeq(v[1]) /\ v[1] # <<>> /\ Head(v[1]).ids # <<>>
    BY <1>1, <1>3, <1>11
  <2>2. /\ Len(got) < Len(out) /\ TokenOK(Head(v[1]), out, Len(got) + 1)
        /\ \E g : Chain(w, s, Append(got, out[Len(got) + 1]), out, g)
    BY <1>3, <1>6, <1>7, <2>1, Popped
  <2> QED  BY <1>3, <1>11, <2>2 DEF w
<1> QED  BY <1>10, <1>11

\* RequestStream.get: what the client has after it.
LEMMA TakenIs ==
  ASSUME NEW st, StreamOK(st), NEW out
  PROVE  LET taken == Taken(st, out) IN
         /\ out = DISCONNECTED => taken.got = st.got /\ taken.reason = st.reason
         /\ out # DISCONNECTED =>
              /\ taken.reason = out.reason
              /\ taken.got = IF out.reason \in {"abort", "error"} THEN st.got ELSE st.got \o out.ids
<1>1. CASE out = DISCONNECTED
  BY <1>1 DEF Taken, StreamOK, Fields
<1>2. CASE out # DISCONNECTED
  <2>1. PICK got, text, fin :
          /\ got = IF out.reason \in {"abort", "error"} THEN st.got ELSE st.got \o out.ids
          /\ Taken(st, out) = [st EXCEPT !.queue = Tail(st.queue), !.finished = fin,
                                         !.reason = out.reason, !.got = got, !.text = text]
    BY <1>2 DEF Taken
  <2> QED  BY <1>2, <2>1 DEF StreamOK, Fields
<1> QED  BY <1>1, <1>2

\* HandlerGet changes one stream to what Taken says, ended or not.
LEMMA GetIs ==
  ASSUME StreamsOK, NEW t \in Streams, HandlerGet(t)
  PROVE  LET st    == stream[t]
             out   == Head(stream[t].queue)
             taken == Taken(stream[t], Head(stream[t].queue))
         IN
         /\ st.handler = "reading" /\ st.queue # <<>> /\ Streams' = Streams
         /\ \A s \in Streams : s # t => stream'[s] = stream[s]
         /\ stream'[t].got = taken.got /\ stream'[t].reason = taken.reason
         /\ \/ stream'[t].handler = "ended"
            \/ stream'[t] = taken /\ ~ taken.finished /\ out # DISCONNECTED
<1> DEFINE out == Head(stream[t].queue)
           taken == Taken(stream[t], out)
<1>1. /\ stream[t].handler = "reading" /\ stream[t].queue # <<>>
      /\ IF taken.finished \/ out = DISCONNECTED THEN EndHandler(t, taken)
         ELSE stream' = [stream EXCEPT ![t] = taken] /\ UNCHANGED commands
  BY DEF HandlerGet
<1>2. StreamOK(stream[t])
  BY DEF StreamsOK
<1>3. StreamOK(taken)
  BY <1>1, <1>2, TakenOK
<1> HIDE DEF taken, out
<1>4. CASE taken.finished \/ out = DISCONNECTED
  <2> DEFINE st == [taken EXCEPT !.handler = "ended", !.watcher = "ended"]
  <2>1. stream' = [stream EXCEPT ![t] = st]
    BY <1>1, <1>4 DEF EndHandler
  <2>2. StreamOK(st) /\ st.handler = "ended" /\ st.got = taken.got /\ st.reason = taken.reason
    BY <1>3 DEF StreamOK, Fields
  <2> HIDE DEF st
  <2>3. Streams' = Streams /\ stream'[t] = st /\ \A s \in Streams : s # t => stream'[s] = stream[s]
    BY <2>1, <2>2, StreamUpdated
  <2> QED  BY <1>1, <2>2, <2>3 DEF taken, out
<1>5. CASE ~ taken.finished /\ out # DISCONNECTED
  <2>1. stream' = [stream EXCEPT ![t] = taken]
    BY <1>1, <1>5
  <2>2. Streams' = Streams /\ stream'[t] = taken /\ \A s \in Streams : s # t => stream'[s] = stream[s]
    BY <1>3, <2>1, StreamUpdated
  <2> QED  BY <1>1, <1>5, <2>2 DEF taken, out
<1> QED  BY <1>4, <1>5

\* A list of one token concatenated is the token appended.
LEMMA AppendIs ==
  ASSUME NEW got \in Seq(GenTokens), NEW tok \in GenTokens
  PROVE  got \o <<tok>> = Append(got, tok) /\ Append(got, tok) \in Seq(GenTokens)
OBVIOUS

\* A handler that takes a token and goes on.
LEMMA GetReads ==
  ASSUME DInv, NEW t \in Streams, HandlerGet(t)
  PROVE  Reads(t)'
<1> DEFINE q == stream[t].queue
           taken == Taken(stream[t], Head(q))
           got == stream[t].got
<1>1. CommandsOK /\ StreamsOK /\ PumpOK /\ DeliveryOK /\ Reads(t) /\ StreamOK(stream[t])
  BY DEF DInv, WInv, StreamsOK
<1>2. UNCHANGED <<soon, updates, pump>>
  BY DEF HandlerGet, pumpVars
<1>3. /\ stream[t].handler = "reading" /\ q # <<>>
      /\ \/ stream'[t].handler = "ended"
         \/ stream'[t] = taken /\ ~ taken.finished /\ Head(q) # DISCONNECTED
  BY <1>1, GetIs
<1> SUFFICES ASSUME stream'[t].handler = "reading"
             PROVE  /\ stream'[t].reason = "none" /\ ~ stream'[t].finished
                    /\ stream'[t].got \in Seq(GenTokens) /\ Delivery(t)'
  BY DEF Reads
<1>4. stream'[t] = taken /\ ~ taken.finished /\ Head(q) # DISCONNECTED
  BY <1>3
<1>5. /\ taken.reason = Head(q).reason /\ taken.queue = Tail(q)
      /\ taken.finished = (Head(q).reason # "none")
      /\ taken.got = IF Head(q).reason \in {"abort", "error"} THEN got ELSE got \o Head(q).ids
  <2>1. q # <<>>
    BY <1>3
  <2>2. taken.queue = Tail(q) /\ taken.finished = (Head(q).reason # "none")
    BY <1>1, <1>4, <2>1, TakenOK
  <2> QED  BY <1>1, <1>4, <2>2, TakenIs
<1>6. got \in Seq(GenTokens) /\ Delivery(t)
  BY <1>1, <1>3 DEF Reads
<1>7. PICK out \in Seq(GenTokens) : Origin(t, out) /\ \E f : Chain(Way(t), t, got, out, f)
  BY <1>6 DEF Delivery
<1>8. PICK f : Chain(Way(t), t, got, out, f)
  BY <1>7
<1>9. PICK b, u, cbs : /\ Parts(q, b, u, cbs) /\ Way(t) = WayOf(q, b, u, cbs)
                       /\ Way(t)' = WayOf(stream'[t].queue, b, u, cbs)
  BY <1>1, <1>2, WaySplit
<1>10. Head(q).reason = "none"
  BY <1>4, <1>5
<1> HIDE DEF q, taken, got
<1>11. /\ Len(got) < Len(out) /\ TokenOK(Head(q), out, Len(got) + 1)
       /\ \E g : Chain(WayOf(Tail(q), b, u, cbs), t, Append(got, out[Len(got) + 1]), out, g)
  <2>1. Chain(WayOf(q, b, u, cbs), t, got, out, f)
    BY <1>8, <1>9
  <2> QED  BY <1>3, <1>4, <1>6, <1>9, <1>10, <2>1, NextOutput
<1> DEFINE tok == out[Len(got) + 1]
<1>12. tok \in GenTokens
  BY <1>6, <1>11
<1>13. taken.got = Append(got, tok) /\ Append(got, tok) \in Seq(GenTokens)
  <2>1. taken.got = got \o Head(q).ids /\ Head(q).ids = <<tok>>
    BY <1>5, <1>10, <1>11 DEF TokenOK
  <2> HIDE DEF tok
  <2> QED  BY <1>6, <1>12, <2>1, AppendIs
<1>14. Origin(t, out)'
  BY <1>1, <1>7, LoopOrigin
<1>15. \E g : Chain(Way(t)', t, stream'[t].got, out, g)
  BY <1>4, <1>5, <1>9, <1>11, <1>13
<1>16. Delivery(t)'
  BY <1>14, <1>15 DEF Delivery
<1> QED  BY <1>4, <1>5, <1>10, <1>13, <1>16

\* Items move on the way of every stream, and nothing else happens.
LEMMA MovedReads ==
  ASSUME DInv, NEW s \in Streams, RunCallback \/ PumpTake \/ PumpPush,
         stream'[s].got = stream[s].got, stream'[s].handler = stream[s].handler,
         stream'[s].reason = stream[s].reason, stream'[s].finished = stream[s].finished,
         \A out \in Seq(GenTokens) : \A f :
           Chain(Way(s), s, stream[s].got, out, f) => \E g : Chain(Way(s)', s, stream[s].got, out, g)
  PROVE  Reads(s)'
<1>1. CommandsOK /\ Reads(s)
  BY DEF DInv, WInv
<1>2. \A out \in Seq(GenTokens) : Origin(s, out) => Origin(s, out)'
  BY <1>1, LoopOrigin
<1> SUFFICES ASSUME stream'[s].handler = "reading"
             PROVE  /\ stream'[s].reason = "none" /\ ~ stream'[s].finished
                    /\ stream'[s].got \in Seq(GenTokens) /\ Delivery(s)'
  BY DEF Reads
<1>3. /\ stream[s].reason = "none" /\ ~ stream[s].finished /\ stream[s].got \in Seq(GenTokens)
      /\ Delivery(s)
  BY <1>1 DEF Reads
<1>4. Delivery(s)'
  BY <1>2, <1>3, Carried
<1> QED  BY <1>3, <1>4

\* A callback runs on the loop.
LEMMA CallbackReads ==
  ASSUME DInv, NEW s \in Streams, RunCallback
  PROVE  Reads(s)'
<1>1. StreamsOK /\ PumpOK /\ DeliveryOK
  BY DEF DInv, WInv
<1>2. UNCHANGED <<pump, stream>> /\ soon # <<>> /\ soon' = Tail(soon)
  BY DEF RunCallback
<1>3. updates' = updates \o ListOf(Head(soon))
  <2>1. CASE Head(soon).kind = "updates"
    BY <2>1 DEF RunCallback, ListOf
  <2>2. CASE Head(soon).kind # "updates"
    <3>1. updates' = updates
      BY <2>2 DEF RunCallback
    <3>2. updates \in Seq(ToSet(updates))
      BY <1>1 DEF DeliveryOK, IsSeq
    <3>3. updates \o <<>> = updates
      BY <3>2
    <3> QED  BY <2>2, <3>1, <3>3 DEF ListOf
  <2> QED  BY <2>1, <2>2
<1>4. ASSUME NEW out \in Seq(GenTokens), NEW f, Chain(Way(s), s, stream[s].got, out, f)
      PROVE  \E g : Chain(Way(s)', s, stream[s].got, out, g)
  <2>1. CASE pump.state = "cancelled"
    BY <1>2, <1>4, <2>1 DEF Way
  <2>2. CASE pump.state # "cancelled"
    <3>1. Way(s) = WayOf(stream[s].queue, pump.batch, updates, soon)
      BY <2>2 DEF Way
    <3>2. Way(s)' = WayOf(stream[s].queue, pump.batch, updates \o ListOf(Head(soon)), Tail(soon))
      BY <1>2, <1>3, <2>2 DEF Way
    <3>3. Parts(stream[s].queue, pump.batch, updates, soon)
      BY <1>1, WayParts
    <3> QED  BY <1>2, <1>4, <3>1, <3>2, <3>3, CallbackRuns
  <2> QED  BY <2>1, <2>2
<1> QED  BY <1>2, <1>4, MovedReads

\* The pump takes the backlog.
LEMMA TakeReads ==
  ASSUME DInv, NEW s \in Streams, PumpTake
  PROVE  Reads(s)'
<1>1. StreamsOK /\ PumpOK /\ DeliveryOK
  BY DEF DInv, WInv
<1>2. /\ UNCHANGED <<soon, stream>> /\ updates' = <<>> /\ pump.state = "waiting" /\ pump.batch = <<>>
      /\ pump'.state = "detokenizing" /\ pump'.batch = updates
  BY <1>1 DEF PumpTake, clientVars, PumpOK
<1>3. ASSUME NEW out \in Seq(GenTokens), NEW f, Chain(Way(s), s, stream[s].got, out, f)
      PROVE  \E g : Chain(Way(s)', s, stream[s].got, out, g)
  <2>1. Way(s) = WayOf(stream[s].queue, <<>>, updates, soon)
    BY <1>2 DEF Way
  <2>2. Way(s)' = WayOf(stream[s].queue, updates, <<>>, soon)
    BY <1>2 DEF Way
  <2>3. Parts(stream[s].queue, <<>>, updates, soon)
    BY <1>1, <1>2, WayParts
  <2> QED  BY <1>3, <2>1, <2>2, <2>3, UpdatesTaken
<1> QED  BY <1>2, <1>3, MovedReads

\* The pump pushes each stream its outputs of the batch, in the order of the batch.
LEMMA PushReads ==
  ASSUME DInv, NEW s \in Streams, PumpPush
  PROVE  Reads(s)'
<1>1. StreamsOK /\ PumpOK /\ DeliveryOK /\ StreamOK(stream[s])
  BY DEF DInv, WInv, StreamsOK
<1>2. /\ UNCHANGED <<soon, updates>> /\ pump.state # "cancelled" /\ pump' = PumpWaits
      /\ stream' = [t \in Streams |-> [stream[t] EXCEPT !.queue = stream[t].queue \o OutputsFor(t)]]
  BY DEF PumpPush
<1>3. pump'.state # "cancelled" /\ pump'.batch = <<>>
  BY <1>2 DEF PumpWaits
<1>4. stream'[s] = [stream[s] EXCEPT !.queue = stream[s].queue \o OutputsFor(s)]
  BY <1>2
<1>5. /\ stream'[s].queue = stream[s].queue \o OutputsFor(s)
      /\ stream'[s].got = stream[s].got /\ stream'[s].handler = stream[s].handler
      /\ stream'[s].reason = stream[s].reason /\ stream'[s].finished = stream[s].finished
  BY <1>1, <1>4 DEF StreamOK, Fields
<1> DEFINE S == {i \in DOMAIN pump.batch : pump.batch[i].s = s}
           m == InOrder(S)
           outs == OutputsFor(s)
<1>6. /\ IsSeq(m) /\ Len(m) \in Nat /\ DOMAIN m = 1 .. Len(m)
      /\ \A k \in 1 .. Len(m) : m[k] \in S
      /\ \A j, k \in 1 .. Len(m) : j < k => m[j] < m[k]
      /\ \A x \in S : \E k \in 1 .. Len(m) : m[k] = x
  <2>1. Len(pump.batch) \in Nat /\ DOMAIN pump.batch = 1 .. Len(pump.batch)
    BY <1>1, SeqLen DEF PumpOK
  <2>2. S \in SUBSET (1 .. Len(pump.batch))
    BY <2>1
  <2> HIDE DEF S
  <2> QED  BY <2>1, <2>2, InOrderIs
<1>7. outs = [k \in DOMAIN m |->
                [text   |-> pump.texts[m[k]], ids |-> pump.batch[m[k]].ids,
                 reason |-> IF pump.state = "aborting" THEN "error" ELSE pump.batch[m[k]].reason]]
  BY DEF OutputsFor
<1> HIDE DEF m, outs
<1>8. /\ DOMAIN outs = 1 .. Len(m)
      /\ \A k \in 1 .. Len(m) : /\ outs[k].ids = pump.batch[m[k]].ids
                                /\ outs[k].reason \in {pump.batch[m[k]].reason, "error"}
  BY <1>6, <1>7
<1>9. IsSeq(outs) /\ Len(outs) = Len(m)
  <2>1. outs \in [1 .. Len(m) -> {outs[k] : k \in 1 .. Len(m)}]
    BY <1>6, <1>7
  <2> QED  BY <1>6, <2>1, FunIsSeq
<1>10. ASSUME NEW out \in Seq(GenTokens), NEW f, Chain(Way(s), s, stream[s].got, out, f)
       PROVE  \E g : Chain(Way(s)', s, stream[s].got, out, g)
  <2>1. Way(s) = WayOf(stream[s].queue, pump.batch, updates, soon)
    BY <1>2 DEF Way
  <2>2. Way(s)' = WayOf(stream[s].queue \o outs, <<>>, updates, soon)
    BY <1>2, <1>3, <1>5 DEF Way, outs
  <2>3. Parts(stream[s].queue, pump.batch, updates, soon)
    BY <1>1, WayParts
  <2> DEFINE bt == pump.batch
  <2>4. \A k \in 1 .. Len(outs) :
           /\ m[k] \in DOMAIN bt /\ bt[m[k]].s = s /\ outs[k].ids = bt[m[k]].ids
           /\ outs[k].reason \in {bt[m[k]].reason, "error"}
    BY <1>6, <1>8, <1>9
  <2>5. \A j, k \in 1 .. Len(outs) : j < k => m[j] < m[k]
    BY <1>6, <1>9
  <2>6. \A i \in DOMAIN bt : bt[i].s = s => \E k \in 1 .. Len(outs) : m[k] = i
    BY <1>6, <1>9
  <2>7. Chain(WayOf(stream[s].queue, bt, updates, soon), s, stream[s].got, out, f)
    BY <1>10, <2>1
  <2>8. Parts(stream[s].queue, bt, updates, soon)
    BY <2>3
  <2>10. Selected(outs, m, bt, s)
    BY <2>4, <2>5, <2>6 DEF Selected
  <2> HIDE DEF bt, S
  <2>9. \E g : Chain(WayOf(stream[s].queue \o outs, <<>>, updates, soon), s, stream[s].got, out, g)
    BY <1>9, <2>7, <2>8, <2>10, OutputsPushed
  <2> QED  BY <2>2, <2>9
<1> HIDE DEF S
<1> QED  BY <1>5, <1>10, MovedReads

\* The pump is cancelled: what has not been pushed is lost.
LEMMA StopReads ==
  ASSUME DInv, NEW s \in Streams, StopJoined
  PROVE  Reads(s)'
<1>1. StreamsOK /\ PumpOK /\ DeliveryOK /\ LiveOK /\ Reads(s)
  BY DEF DInv, WInv
<1>2. /\ UNCHANGED <<gen, live, commands, sending, soon, updates, stream>> /\ engine_pc = "ended"
      /\ pump' = [PumpWaits EXCEPT !.state = "cancelled"]
  BY DEF StopJoined, engineVars, sendVars
<1>3. pump'.state = "cancelled" /\ live' = live /\ DOMAIN live = {}
  BY <1>1, <1>2 DEF PumpWaits, LiveOK
<1> SUFFICES ASSUME stream'[s].handler = "reading"
             PROVE  /\ stream'[s].reason = "none" /\ ~ stream'[s].finished
                    /\ stream'[s].got \in Seq(GenTokens) /\ Delivery(s)'
  BY DEF Reads
<1> DEFINE q == stream[s].queue
           got == stream[s].got
<1>4. /\ stream[s].reason = "none" /\ ~ stream[s].finished /\ got \in Seq(GenTokens)
      /\ Delivery(s)
  BY <1>1, <1>2 DEF Reads
<1>5. PICK out \in Seq(GenTokens) : Origin(s, out) /\ \E f : Chain(Way(s), s, got, out, f)
  BY <1>4 DEF Delivery
<1>6. PICK f : Chain(Way(s), s, got, out, f)
  BY <1>5
<1>7. PICK b, u, cbs : Parts(q, b, u, cbs) /\ Way(s) = WayOf(q, b, u, cbs)
  <2>1. Parts(q, pump.batch, updates, soon) /\ Parts(q, <<>>, <<>>, <<>>)
    BY <1>1, WayParts
  <2>2. CASE pump.state = "cancelled"
    BY <2>1, <2>2 DEF Way
  <2>3. CASE pump.state # "cancelled"
    BY <2>1, <2>3 DEF Way
  <2> QED  BY <2>2, <2>3
<1>8. Way(s)' = WayOf(q, <<>>, <<>>, <<>>) /\ Parts(q, <<>>, <<>>, <<>>)
  BY <1>1, <1>2, <1>3, WayParts DEF Way
<1> HIDE DEF q, got
<1> DEFINE v == WayOf(q, b, u, cbs)
           w == WayOf(q, <<>>, <<>>, <<>>)
<1>9. 1 \in DOMAIN v /\ v[1] = q /\ DOMAIN v \subseteq Nat \ {0}
  BY <1>7, WayIs
<1>10. 1 \in DOMAIN w /\ w[1] = q /\ \A c \in DOMAIN w : c # 1 => w[c] = <<>>
  <2>1. /\ 1 \in DOMAIN w /\ w[1] = q /\ w[2] = <<>> /\ w[3] = <<>>
        /\ \A c \in DOMAIN w : c \in {1, 2, 3} \/ c - 3 \in 1 .. Len(<<>>)
    BY <1>8, WayIs
  <2>2. 1 .. Len(<<>>) = {}
    OBVIOUS
  <2> HIDE DEF w
  <2> QED  BY <2>1, <2>2
<1>11. Chain(v, s, got, out, f)
  BY <1>6, <1>7
<1> HIDE DEF v, w
<1>12. PICK n \in Len(got) .. Len(out) :
         \E o \in Seq(GenTokens) : Len(o) = n /\ Chain(w, s, got, o, f)
  BY <1>4, <1>9, <1>10, <1>11, Cut
<1>13. PICK o \in Seq(GenTokens) : Len(o) = n /\ Chain(w, s, got, o, f)
  BY <1>12
<1>14. out = <<>> => o = <<>>
  <2> SUFFICES ASSUME out = <<>> PROVE o = <<>>
    OBVIOUS
  <2>1. Len(got) \in Nat /\ Len(out) = 0 /\ Len(o) \in Nat
    BY <1>4
  <2>2. Len(o) = 0
    BY <1>12, <1>13, <2>1
  <2> QED  BY <2>2
<1>15. Pending(s)' => Pending(s)
  BY <1>2 DEF Pending, AddOf, ToSet
<1>16. Origin(s, o)'
  BY <1>3, <1>5, <1>14, <1>15 DEF Origin
<1>17. Chain(Way(s)', s, stream'[s].got, o, f)
  BY <1>2, <1>8, <1>13 DEF w, got
<1>18. Delivery(s)'
  BY <1>16, <1>17 DEF Delivery
<1> QED  BY <1>2, <1>4, <1>18 DEF got

\* A new stream: nothing is on its way yet.
LEMMA SubmitReads ==
  ASSUME DInv, SubmitStream
  PROVE  \A s \in Streams' : Reads(s)'
<1>1. CommandsOK /\ StreamsOK /\ PumpOK /\ DeliveryOK /\ LiveOK
  BY DEF DInv, WInv
<1>0. PICK new : new = Len(stream) + 1
  OBVIOUS
<1>2. /\ UNCHANGED <<gen, live, commands, soon, updates, pump>> /\ sending' = AddOf(new)
      /\ stream' = Append(stream, NewStream)
  BY <1>0 DEF SubmitStream, Send, engineVars, pumpVars
<1>3. Len(stream) \in Nat /\ Streams = 1 .. Len(stream)
  BY <1>1, SeqLen DEF StreamsOK, Streams
<1>4. /\ Streams' = 1 .. new /\ stream'[new] = NewStream
      /\ \A s \in Streams : stream'[s] = stream[s]
  <2>1. /\ IsSeq(stream') /\ Len(stream') = Len(stream) + 1 /\ stream'[Len(stream) + 1] = NewStream
        /\ \A i \in 1 .. Len(stream) : stream'[i] = stream[i]
    BY <1>1, <1>2, SeqAppend DEF StreamsOK
  <2>2. DOMAIN stream' = 1 .. Len(stream')
    BY <2>1, SeqLen
  <2> QED  BY <1>0, <1>3, <2>1, <2>2 DEF Streams
<1>5. new \notin Streams
  BY <1>0, <1>3
<1>6. ASSUME NEW s \in Streams PROVE Reads(s)'
  <2>1. Way(s)' = Way(s)
    BY <1>2, <1>4, WayKept
  <2>2. AddOf(s) # AddOf(new)
    BY <1>5, Kinds
  <2>3. Pending(s)' => Pending(s)
    <3>1. ToSet(commands)' = ToSet(commands)
      BY <1>2 DEF ToSet
    <3>2. sending' # AddOf(s)
      BY <1>2, <2>2
    <3> QED  BY <3>1, <3>2 DEF Pending, AddOf
  <2>4. \A out \in Seq(GenTokens) : Origin(s, out) => Origin(s, out)'
    BY <1>1, <1>2, <2>3, OriginKept
  <2>5. Reads(s)
    BY DEF DInv
  <2> QED  BY <1>4, <2>1, <2>4, <2>5, ReadsKept
<1>7. Reads(new)'
  <2> DEFINE q == stream'[new].queue
  <2>1. /\ stream'[new].reason = "none" /\ stream'[new].finished = FALSE /\ stream'[new].got = <<>>
        /\ q = <<>>
    BY <1>4 DEF NewStream
  <2>2. PICK b, u, cbs :
          /\ Parts(<<>>, b, u, cbs) /\ Way(new)' = WayOf(<<>>, b, u, cbs)
          /\ \A x \in ToSet(b) \cup ToSet(u) : x.s # new
          /\ \A k \in DOMAIN cbs : \A x \in ToSet(ListOf(cbs[k])) : x.s # new
    <3>1. Parts(<<>>, pump.batch, updates, soon) /\ Parts(<<>>, <<>>, <<>>, <<>>)
      <4>1. \A k \in DOMAIN soon : IsSeq(ListOf(soon[k]))
        <5> SUFFICES ASSUME NEW k \in DOMAIN soon PROVE IsSeq(ListOf(soon[k]))
          OBVIOUS
        <5>1. CallbackOK(soon[k])
          BY <1>1 DEF DeliveryOK, ToSet
        <5>2. soon[k].kind = "updates" => IsSeq(soon[k].list)
          BY <5>1 DEF CallbackOK, SetFuture
        <5> QED  BY <5>2, SeqEmpty DEF ListOf
      <4> QED  BY <1>1, <4>1, SeqEmpty DEF Parts, PumpOK, DeliveryOK
    <3>2. CASE pump.state = "cancelled"
      <4>1. Way(new)' = WayOf(<<>>, <<>>, <<>>, <<>>)
        BY <1>2, <2>1, <3>2 DEF Way
      <4>2. DOMAIN <<>> = {} /\ ToSet(<<>>) = {}
        BY SeqEmpty
      <4> QED  BY <3>1, <4>1, <4>2
    <3>3. CASE pump.state # "cancelled"
      <4>1. Way(new)' = WayOf(<<>>, pump.batch, updates, soon)
        BY <1>2, <2>1, <3>3 DEF Way
      <4>2. \A x \in ToSet(pump.batch) \cup ToSet(updates) : x.s # new
        BY <1>1, <1>5 DEF DeliveryOK
      <4>3. ASSUME NEW k \in DOMAIN soon, NEW x \in ToSet(ListOf(soon[k])) PROVE x.s # new
        <5>1. CallbackOK(soon[k])
          BY <1>1 DEF DeliveryOK, ToSet
        <5>2. CASE soon[k].kind = "updates"
          <6>1. x \in ToSet(soon[k].list)
            BY <5>2 DEF ListOf
          <6>2. \A e \in ToSet(soon[k].list) : e.s \in Streams
            BY <5>1, <5>2 DEF CallbackOK, SetFuture
          <6> QED  BY <1>5, <6>1, <6>2
        <5>3. CASE soon[k].kind # "updates"
          BY <5>3, SeqEmpty DEF ListOf
        <5> QED  BY <5>2, <5>3
      <4> QED  BY <3>1, <4>1, <4>2, <4>3
    <3> QED  BY <3>2, <3>3
  <2> DEFINE w == WayOf(<<>>, b, u, cbs)
  <2>3. /\ DOMAIN w = 1 .. Len(cbs) + 3 /\ w[1] = <<>> /\ w[2] = b /\ w[3] = u
        /\ \A c \in DOMAIN w : c \in {1, 2, 3} \/ (c - 3 \in 1 .. Len(cbs) /\ w[c] = ListOf(cbs[c - 3]))
    BY <2>2, WayIs
  <2> HIDE DEF w
  <2>4. ASSUME NEW x \in Places(w, new) PROVE FALSE
    <3>1. x[1] \in DOMAIN w /\ x[2] \in DOMAIN w[x[1]] /\ (x[1] = 1 \/ w[x[1]][x[2]].s = new)
      BY PlaceOf
    <3>2. x[1] # 1
      BY <2>3, <3>1
    <3>3. w[x[1]][x[2]] \in ToSet(w[x[1]])
      BY <3>1 DEF ToSet
    <3>4. DOMAIN cbs = 1 .. Len(cbs)
      BY <2>2, SeqLen DEF Parts
    <3> QED  BY <2>2, <2>3, <3>1, <3>2, <3>3, <3>4
  <2>5. Chain(w, new, <<>>, <<>>, <<>>)
    <3>1. Coming(<<>>, <<>>) = {} /\ Len(<<>>) <= Len(<<>>) /\ 1 .. Len(<<>>) = {}
      BY DEF Coming
    <3> QED  BY <2>4, <3>1 DEF Chain
  <2>6. Origin(new, <<>>)'
    <3>1. live' = live /\ new \notin DOMAIN live
      BY <1>1, <1>2, <1>5 DEF LiveOK
    <3> QED  BY <3>1 DEF Origin
  <2>7. <<>> \in Seq(GenTokens)
    OBVIOUS
  <2>8. Chain(Way(new)', new, stream'[new].got, <<>>, <<>>)
    BY <2>1, <2>2, <2>5 DEF w
  <2>9. Delivery(new)'
    BY <2>6, <2>7, <2>8 DEF Delivery
  <2> QED  BY <2>1, <2>7, <2>9 DEF Reads
<1>8. \A s \in Streams' : s \in Streams \/ s = new
  BY <1>0, <1>3, <1>4
<1> QED  BY <1>6, <1>7, <1>8

-----------------------------------------------------------------------------
(* The thread *)

\* A callback is queued: its list comes last on the way.
LEMMA WayLonger ==
  ASSUME NEW q, NEW b, NEW u, NEW cbs, Parts(q, b, u, cbs), NEW cb, IsSeq(ListOf(cb))
  PROVE  LET v == WayOf(q, b, u, cbs)
             w == WayOf(q, b, u, Append(cbs, cb))
             n == Len(cbs) + 3
         IN  /\ n \in Nat \ {0} /\ DOMAIN v = 1 .. n /\ DOMAIN w = 1 .. n + 1
             /\ w[n + 1] = ListOf(cb) /\ \A c \in 1 .. n : w[c] = v[c]
<1> DEFINE v == WayOf(q, b, u, cbs)
           a == Append(cbs, cb)
           w == WayOf(q, b, u, a)
           l == Len(cbs)
<1>1. /\ IsSeq(a) /\ Len(a) = l + 1 /\ a[l + 1] = cb /\ \A i \in 1 .. l : a[i] = cbs[i]
      /\ l \in Nat /\ DOMAIN cbs = 1 .. l
  BY SeqAppend, SeqLen DEF Parts
<1>2. DOMAIN a = 1 .. l + 1
  BY <1>1, SeqLen
<1> HIDE DEF a
<1>3. Parts(q, b, u, a)
  <2>1. ASSUME NEW k \in DOMAIN a PROVE IsSeq(ListOf(a[k]))
    <3>1. k \in 1 .. l \/ k = l + 1
      BY <1>1, <1>2
    <3> QED  BY <1>1, <3>1 DEF Parts
  <2> QED  BY <1>1, <2>1 DEF Parts
<1>4. /\ DOMAIN v = 1 .. l + 3 /\ v[1] = q /\ v[2] = b /\ v[3] = u
      /\ \A c \in DOMAIN v : c \in {1, 2, 3} \/ (c - 3 \in 1 .. l /\ v[c] = ListOf(cbs[c - 3]))
  BY WayIs
<1>5. /\ DOMAIN w = 1 .. Len(a) + 3 /\ w[1] = q /\ w[2] = b /\ w[3] = u
      /\ \A c \in DOMAIN w : c \in {1, 2, 3} \/ (c - 3 \in 1 .. Len(a) /\ w[c] = ListOf(a[c - 3]))
      /\ \A k \in 1 .. Len(a) : w[k + 3] = ListOf(a[k])
  BY <1>3, WayIs
<1> HIDE DEF v, w, l
<1>6. l + 3 \in Nat \ {0} /\ Len(a) + 3 = (l + 3) + 1 /\ l + 1 \in 1 .. Len(a) /\ (l + 1) + 3 = (l + 3) + 1
  BY <1>1
<1>7. w[(l + 3) + 1] = ListOf(cb)
  BY <1>1, <1>5, <1>6
<1>8. ASSUME NEW c \in 1 .. l + 3 PROVE w[c] = v[c]
  <2>1. c \in DOMAIN v /\ c \in DOMAIN w
    BY <1>1, <1>4, <1>5
  <2>2. CASE c \in {1, 2, 3}
    BY <1>4, <1>5, <2>2
  <2>3. CASE c \notin {1, 2, 3}
    <3>1. c - 3 \in 1 .. l /\ v[c] = ListOf(cbs[c - 3]) /\ w[c] = ListOf(a[c - 3])
      BY <1>4, <1>5, <2>1, <2>3
    <3> QED  BY <1>1, <3>1
  <2> QED  BY <2>2, <2>3
<1> QED  BY <1>4, <1>5, <1>6, <1>7, <1>8 DEF v, w, a, l

\* What the callback has for stream s is at most that it ends.
Endings(s, cb) ==
  IsSeq(ListOf(cb)) /\ \A x \in ToSet(ListOf(cb)) : x.s = s => x.ids = <<>> /\ x.reason \in {"abort", "error"}

\* An ending joins the way behind everything else, and adds no token.
LEMMA EndingPut ==
  ASSUME NEW q, NEW b, NEW u, NEW cbs, Parts(q, b, u, cbs), NEW s, NEW cb, Endings(s, cb),
         NEW got, NEW out, NEW f, Chain(WayOf(q, b, u, cbs), s, got, out, f)
  PROVE  Chain(WayOf(q, b, u, Append(cbs, cb)), s, got, out, f)
<1> DEFINE v == WayOf(q, b, u, cbs)
           w == WayOf(q, b, u, Append(cbs, cb))
           n == Len(cbs) + 3
<1>1. /\ n \in Nat \ {0} /\ DOMAIN v = 1 .. n /\ DOMAIN w = 1 .. n + 1
      /\ w[n + 1] = ListOf(cb) /\ \A c \in 1 .. n : w[c] = v[c]
  BY WayLonger DEF Endings
<1>2. Chain(v, s, got, out, f)
  OBVIOUS
<1> HIDE DEF v, w, n
<1>3. ASSUME NEW x \in Places(v, s) PROVE x \in Places(w, s) /\ Item(w, x) = Item(v, x)
  <2>1. x = <<x[1], x[2]>> /\ x[1] \in DOMAIN v /\ x[2] \in DOMAIN v[x[1]]
        /\ Item(v, x) = v[x[1]][x[2]] /\ (x[1] = 1 \/ v[x[1]][x[2]].s = s)
    BY PlaceOf
  <2>2. x[1] \in DOMAIN w /\ w[x[1]] = v[x[1]]
    BY <1>1, <2>1
  <2>3. <<x[1], x[2]>> \in Places(w, s) /\ Item(w, <<x[1], x[2]>>) = w[x[1]][x[2]]
    BY <2>1, <2>2, PlaceIn
  <2> QED  BY <2>1, <2>2, <2>3
<1>4. ASSUME NEW z \in Places(w, s)
      PROVE  z \in Places(v, s) \/ (ItemOK(w, z) /\ Item(w, z).ids = <<>>)
  <2>1. z = <<z[1], z[2]>> /\ z[1] \in DOMAIN w /\ z[2] \in DOMAIN w[z[1]]
        /\ Item(w, z) = w[z[1]][z[2]] /\ (z[1] = 1 \/ w[z[1]][z[2]].s = s)
    BY PlaceOf
  <2>2. CASE z[1] \in 1 .. n
    <3>1. <<z[1], z[2]>> \in Places(v, s)
      BY <1>1, <2>1, <2>2, PlaceIn
    <3> QED  BY <2>1, <3>1
  <2>3. CASE z[1] = n + 1
    <3>1. z[1] # 1 /\ w[z[1]] = ListOf(cb)
      BY <1>1, <2>3
    <3>2. w[z[1]][z[2]] \in ToSet(ListOf(cb)) /\ w[z[1]][z[2]].s = s
      BY <2>1, <3>1 DEF ToSet
    <3>3. Item(w, z).ids = <<>> /\ Item(w, z).reason \in {"abort", "error"}
      BY <2>1, <3>2 DEF Endings
    <3> QED  BY <3>3 DEF ItemOK
  <2> QED  BY <1>1, <2>1, <2>2, <2>3
<1>5. Chain(w, s, got, out, f)
  BY <1>2, <1>3, <1>4, Stayed
<1> QED  BY <1>5 DEF w

\* What a step of the thread that has no token for stream s does to its way.
Quiet(s) == soon' = soon \/ \E cb : soon' = Append(soon, cb) /\ Endings(s, cb)

\* A quiet step of the thread that leaves the request where it was.
LEMMA QuietReads ==
  ASSUME DInv, NEW s \in Streams, UNCHANGED <<updates, pump, stream>>, pump.state # "cancelled", Quiet(s),
         \A out \in Seq(GenTokens) : Origin(s, out) => Origin(s, out)'
  PROVE  Reads(s)'
<1>1. StreamsOK /\ PumpOK /\ DeliveryOK /\ Reads(s)
  BY DEF DInv, WInv
<1>2. /\ Way(s) = WayOf(stream[s].queue, pump.batch, updates, soon)
      /\ Way(s)' = WayOf(stream[s].queue, pump.batch, updates, soon')
  BY DEF Way
<1>3. Parts(stream[s].queue, pump.batch, updates, soon)
  BY <1>1, WayParts
<1>4. ASSUME NEW out \in Seq(GenTokens), NEW f, Chain(Way(s), s, stream[s].got, out, f)
      PROVE  Chain(Way(s)', s, stream[s].got, out, f)
  <2>1. CASE soon' = soon
    BY <1>2, <1>4, <2>1
  <2>2. CASE \E cb : soon' = Append(soon, cb) /\ Endings(s, cb)
    BY <1>2, <1>3, <1>4, <2>2, EndingPut
  <2> QED  BY <2>1, <2>2 DEF Quiet
<1> SUFFICES ASSUME stream'[s].handler = "reading"
             PROVE  /\ stream'[s].reason = "none" /\ ~ stream'[s].finished
                    /\ stream'[s].got \in Seq(GenTokens) /\ Delivery(s)'
  BY DEF Reads
<1>5. /\ stream[s].reason = "none" /\ ~ stream[s].finished /\ stream[s].got \in Seq(GenTokens)
      /\ Delivery(s)
  BY <1>1 DEF Reads
<1>6. stream'[s].got = stream[s].got
  OBVIOUS
<1>7. \A out \in Seq(GenTokens) : \A f :
        Chain(Way(s), s, stream[s].got, out, f) => \E g : Chain(Way(s)', s, stream[s].got, out, g)
  BY <1>4
<1>8. Delivery(s)'
  BY <1>5, <1>6, <1>7, Carried
<1> QED  BY <1>5, <1>8

\* _publish of endings, a call's result, one ending, and _fail_all are quiet.
LEMMA PublishQuiet ==
  ASSUME NEW s, NEW list, Publish(list), IsSeq(list),
         \A x \in ToSet(list) : x.s = s => x.ids = <<>> /\ x.reason \in {"abort", "error"}
  PROVE  Quiet(s)
<1>1. CASE list = <<>>
  BY <1>1 DEF Publish, Quiet
<1>2. CASE list # <<>>
  <2>1. PICK cb : cb = PutUpdates(list)
    OBVIOUS
  <2>2. soon' = Append(soon, cb)
    BY <1>2, <2>1 DEF Publish
  <2>3. ListOf(cb) = list
    BY <2>1 DEF ListOf, PutUpdates
  <2>4. Endings(s, cb)
    BY <2>3 DEF Endings
  <2> QED  BY <2>2, <2>4 DEF Quiet
<1> QED  BY <1>1, <1>2

LEMMA FutureQuiet ==
  ASSUME NEW s, NEW c, soon' = Append(soon, SetFuture(c))
  PROVE  Quiet(s)
<1>1. PICK cb : cb = SetFuture(c)
  OBVIOUS
<1>2. ListOf(cb) = <<>>
  BY <1>1 DEF ListOf, SetFuture
<1>3. Endings(s, cb)
  BY <1>2, SeqEmpty DEF Endings
<1>4. soon' = Append(soon, cb)
  BY <1>1
<1> QED  BY <1>3, <1>4 DEF Quiet

LEMMA OneQuiet ==
  ASSUME NEW s, NEW t, NEW reason \in {"abort", "error"}, Publish(<<Update(t, <<>>, reason)>>)
  PROVE  Quiet(s)
<1>1. PICK x : x = Update(t, <<>>, reason)
  OBVIOUS
<1>2. x.ids = <<>> /\ x.reason = reason
  BY <1>1 DEF Update
<1>3. IsSeq(<<x>>) /\ ToSet(<<x>>) = {x}
  BY SeqOne
<1>4. PICK list : list = <<x>>
  OBVIOUS
<1>5. Publish(list) /\ IsSeq(list) /\ ToSet(list) = {x}
  BY <1>1, <1>3, <1>4
<1> QED  BY <1>2, <1>5, PublishQuiet

LEMMA AllQuiet ==
  ASSUME LiveOK, StreamsOK, NEW reason \in {"abort", "error"}, FailAll(reason), NEW s
  PROVE  Quiet(s) /\ DOMAIN live' = {}
<1> DEFINE failed == InOrder(DOMAIN live)
           list == [i \in DOMAIN failed |-> Update(failed[i], <<>>, reason)]
<1>1. Publish(list) /\ live' = << >>
  BY DEF FailAll
<1>2. Len(stream) \in Nat /\ DOMAIN live \in SUBSET (1 .. Len(stream))
  BY SeqLen DEF LiveOK, StreamsOK, Streams
<1>3. IsSeq(failed) /\ ToSet(failed) = DOMAIN live
  BY <1>2, Enumerated
<1> HIDE DEF failed
<1>4. Len(failed) \in Nat /\ DOMAIN failed = 1 .. Len(failed)
  BY <1>3, SeqLen
<1>5. list \in [1 .. Len(failed) -> {Update(t, <<>>, reason) : t \in DOMAIN live}]
  BY <1>3, <1>4 DEF ToSet
<1>6. IsSeq(list)
  BY <1>4, <1>5, FunIsSeq
<1>7. \A i \in DOMAIN list : list[i].ids = <<>> /\ list[i].reason = reason
  BY DEF Update
<1> HIDE DEF list
<1>8. \A x \in ToSet(list) : x.ids = <<>> /\ x.reason \in {"abort", "error"}
  BY <1>7 DEF ToSet
<1>9. Quiet(s)
  BY <1>1, <1>6, <1>8, PublishQuiet
<1> QED  BY <1>1, <1>9

\* The thread runs, so the pump has not been cancelled.
LEMMA ThreadRuns ==
  ASSUME DInv, HandleCommand \/ EngineStep \/ Die \/ DrainAfterDeath
  PROVE  UNCHANGED <<updates, pump, stream, sending>> /\ pump.state # "cancelled" /\ Streams' = Streams
<1>1. engine_pc # "ended" /\ UNCHANGED <<updates, pump, stream, sending>>
  BY DEF HandleCommand, EngineStep, Die, DrainAfterDeath, sendVars, pumpVars, clientVars
<1>2. pump.state # "cancelled"
  BY <1>1 DEF DInv, CutIsEnded
<1> QED  BY <1>1, <1>2 DEF Streams

\* The request of stream t is accepted: it has no output yet, and every other one is where it was.
LEMMA AddOrigin ==
  ASSUME LiveOK, NEW t \in Streams, t \notin DOMAIN live, Submit(MaxNew), Pending(t),
         live' = [x \in DOMAIN live \cup {t} |->
                    IF x = t THEN [rid |-> Len(gen) + 1, sent |-> 0] ELSE live[x]],
         NEW s, Pending(s)' => Pending(s), NEW out, Origin(s, out)
  PROVE  Origin(s, out)'
<1>1. IsSeq(gen) /\ Len(gen) \in Nat /\ DOMAIN gen = 1 .. Len(gen)
  BY SeqLen DEF LiveOK
<1>2. PICK g : g = NewGen(MaxNew)
  OBVIOUS
<1>3. g.out = <<>> /\ g.max_new = MaxNew
  BY <1>2 DEF NewGen
<1>4. gen' = Append(gen, g)
  BY <1>2 DEF Submit
<1>5. gen'[Len(gen) + 1] = g /\ \A r \in 1 .. Len(gen) : gen'[r] = gen[r]
  BY <1>1, <1>4, SeqAppend
<1>6. CASE s = t
  <2>1. out = <<>>
    BY <1>6 DEF Origin
  <2>2. live'[s].rid = Len(gen) + 1 /\ live'[s].sent = 0 /\ Len(<<>>) = 0
    BY <1>6
  <2>3. gen'[live'[s].rid] = g
    BY <1>5, <2>2
  <2> QED  BY <1>3, <2>1, <2>2, <2>3 DEF Origin
<1>7. CASE s # t
  <2>1. (s \in DOMAIN live' <=> s \in DOMAIN live) /\ (s \in DOMAIN live => live'[s] = live[s])
    BY <1>7
  <2>2. s \in DOMAIN live => live[s].rid \in 1 .. Len(gen)
    BY <1>1 DEF LiveOK
  <2>3. s \in DOMAIN live => gen'[live'[s].rid] = gen[live[s].rid]
    BY <1>5, <2>1, <2>2
  <2> QED  BY <2>1, <2>3 DEF Origin
<1> QED  BY <1>6, <1>7

\* The request of stream t is cancelled: every other one is where it was.
LEMMA AbortOrigin ==
  ASSUME LiveOK, NEW t \in DOMAIN live, Cancel(live[t].rid), Forget(t),
         NEW s, Pending(s)' => Pending(s), NEW out, Origin(s, out)
  PROVE  Origin(s, out)'
<1>1. DOMAIN live' = DOMAIN live \ {t} /\ \A x \in DOMAIN live' : live'[x] = live[x]
  BY DEF Forget
<1>2. PICK r \in DOMAIN gen : r = live[t].rid
  BY DEF LiveOK
<1>3. gen' = [gen EXCEPT ![r].status = "aborted"]
  BY <1>2 DEF Cancel
<1>4. \A i \in DOMAIN gen : i # r => gen'[i] = gen[i]
  BY <1>3
<1>5. s \in DOMAIN live' => s \in DOMAIN live /\ live[s].rid # r /\ live[s].rid \in DOMAIN gen
  BY <1>1, <1>2 DEF LiveOK
<1>6. s \in DOMAIN live' => gen'[live'[s].rid] = gen[live[s].rid] /\ live'[s] = live[s]
  BY <1>1, <1>4, <1>5
<1> QED  BY <1>5, <1>6 DEF Origin

\* Nobody is live any more.
LEMMA NoneOrigin ==
  ASSUME NEW s, DOMAIN live' = {}, Pending(s)' => Pending(s), NEW out, Origin(s, out)
  PROVE  Origin(s, out)'
BY DEF Origin

\* _run handles a command: no token moves.
LEMMA CommandReads ==
  ASSUME DInv, HandleCommand, NEW s \in Streams
  PROVE  Reads(s)'
<1> DEFINE cmd == Head(commands)
<1>1. CommandsOK /\ StreamsOK /\ LiveOK /\ AddedOnce
  BY DEF DInv, WInv
<1>2. /\ UNCHANGED <<updates, pump, stream, sending>> /\ pump.state # "cancelled"
      /\ commands # <<>> /\ commands' = Tail(commands)
      /\ \/ cmd.kind = "add"   /\ HandleAdd(cmd.s)
         \/ cmd.kind = "abort" /\ HandleAbort(cmd.s)
         \/ cmd.kind = "call"  /\ HandleCall(cmd.c)
         \/ cmd.kind = "stop"  /\ FailAll("abort")
  BY ThreadRuns DEF HandleCommand
<1>3. Pending(s)' => Pending(s)
  BY <1>1, <1>2, PendingKept
<1>4. /\ cmd \in ToSet(commands)
      /\ cmd.kind = "add" => cmd.s \in Streams /\ cmd = AddOf(cmd.s)
  BY <1>1, <1>2, HeadIs
<1> HIDE DEF cmd
<1> SUFFICES Quiet(s) /\ \A out \in Seq(GenTokens) : Origin(s, out) => Origin(s, out)'
  BY <1>2, QuietReads
<1>5. CASE cmd.kind = "add" /\ HandleAdd(cmd.s)
  <2>1. PICK t \in Streams : t = cmd.s /\ cmd = AddOf(t)
    BY <1>4, <1>5
  <2>2. t \notin DOMAIN live /\ Pending(t)
    BY <1>1, <1>4, <2>1 DEF AddedOnce, Pending
  <2>3. CASE Publish(<<Update(t, <<>>, "error")>>) /\ UNCHANGED <<gen, live>>
    <3>1. Quiet(s)
      BY <2>3, OneQuiet
    <3> QED  BY <1>1, <1>3, <2>3, <3>1, OriginKept
  <2>4. CASE /\ Submit(MaxNew) /\ UNCHANGED soon
             /\ live' = [x \in DOMAIN live \cup {t} |->
                           IF x = t THEN [rid |-> Len(gen) + 1, sent |-> 0] ELSE live[x]]
    <3>1. Quiet(s)
      BY <2>4 DEF Quiet
    <3> QED  BY <1>1, <1>3, <2>2, <2>4, <3>1, AddOrigin
  <2> QED  BY <1>5, <2>1, <2>3, <2>4 DEF HandleAdd
<1>6. CASE cmd.kind = "abort" /\ HandleAbort(cmd.s)
  <2>1. PICK t : t = cmd.s
    OBVIOUS
  <2>2. CASE t \notin DOMAIN live
    <3>1. UNCHANGED <<gen, live, soon>>
      BY <1>6, <2>1, <2>2 DEF HandleAbort
    <3> QED  BY <1>1, <1>3, <3>1, OriginKept DEF Quiet
  <2>3. CASE t \in DOMAIN live
    <3>1. Cancel(live[t].rid) /\ Forget(t) /\ Publish(<<Update(t, <<>>, "abort")>>)
      BY <1>6, <2>1, <2>3 DEF HandleAbort
    <3>2. Quiet(s)
      BY <3>1, OneQuiet
    <3> QED  BY <1>1, <1>3, <2>3, <3>1, <3>2, AbortOrigin
  <2> QED  BY <2>2, <2>3
<1>7. CASE cmd.kind = "call" /\ HandleCall(cmd.c)
  <2>1. soon' = Append(soon, SetFuture(cmd.c)) /\ UNCHANGED <<gen, live>>
    BY <1>7 DEF HandleCall
  <2>2. Quiet(s)
    BY <2>1, FutureQuiet
  <2> QED  BY <1>1, <1>3, <2>1, <2>2, OriginKept
<1>8. CASE cmd.kind = "stop" /\ FailAll("abort")
  <2>1. Quiet(s) /\ DOMAIN live' = {}
    BY <1>1, <1>8, AllQuiet
  <2> QED  BY <1>3, <2>1, NoneOrigin
<1> QED  BY <1>2, <1>5, <1>6, <1>7, <1>8

\* The thread dies and answers what is queued: no token moves.
LEMMA DieReads ==
  ASSUME DInv, Die \/ DrainAfterDeath, NEW s \in Streams
  PROVE  Reads(s)'
<1>1. CommandsOK /\ StreamsOK /\ LiveOK
  BY DEF DInv, WInv
<1>2. UNCHANGED <<updates, pump, stream, sending>> /\ pump.state # "cancelled"
  BY ThreadRuns
<1> SUFFICES Quiet(s) /\ \A out \in Seq(GenTokens) : Origin(s, out) => Origin(s, out)'
  BY <1>2, QuietReads
<1>3. CASE Die
  <2>1. FailAll("error") /\ commands' = commands
    BY <1>3 DEF Die
  <2>2. Quiet(s) /\ DOMAIN live' = {}
    BY <1>1, <2>1, AllQuiet
  <2>3. Pending(s)' => Pending(s)
    BY <1>1, <1>2, <2>1, PendingKept
  <2> QED  BY <2>2, <2>3, NoneOrigin
<1>4. CASE DrainAfterDeath
  <2>1. /\ UNCHANGED <<gen, live>>
        /\ \/ commands' = commands /\ soon' = soon
           \/ commands # <<>> /\ commands' = Tail(commands) /\ AnswerDead(Head(commands))
    BY <1>4 DEF DrainAfterDeath
  <2>2. Pending(s)' => Pending(s)
    BY <1>1, <1>2, <2>1, PendingKept
  <2>3. Quiet(s)
    <3>1. CASE soon' = soon
      BY <3>1 DEF Quiet
    <3>2. CASE AnswerDead(Head(commands))
      <4>1. PICK cmd : cmd = Head(commands)
        OBVIOUS
      <4>2. \/ Publish(<<Update(cmd.s, <<>>, "error")>>)
            \/ soon' = Append(soon, SetFuture(cmd.c))
            \/ soon' = soon
        BY <3>2, <4>1 DEF AnswerDead
      <4>3. CASE Publish(<<Update(cmd.s, <<>>, "error")>>)
        BY <4>3, OneQuiet
      <4> QED  BY <3>1, <4>2, <4>3, FutureQuiet
    <3> QED  BY <2>1, <3>1, <3>2
  <2> QED  BY <1>1, <2>1, <2>2, <2>3, OriginKept
<1> QED  BY <1>3, <1>4

\* The last element as a sequence.
LEMMA SubSeqOne ==
  ASSUME NEW S, NEW o \in Seq(S), NEW m \in Nat \ {0}, m = Len(o)
  PROVE  SubSeq(o, m, m) = <<o[m]>>
<1>1. /\ SubSeq(o, m, m) \in Seq(S) /\ Len(SubSeq(o, m, m)) = m - m + 1
      /\ \A i \in 1 .. m - m + 1 : SubSeq(o, m, m)[i] = o[m + i - 1]
  OBVIOUS
<1>2. PICK e : e = SubSeq(o, m, m)
  OBVIOUS
<1>3. e \in Seq(S) /\ Len(e) = 1 /\ e[1] = o[m]
  BY <1>1, <1>2
<1>4. PICK d : d = <<o[m]>>
  OBVIOUS
<1>5. d \in Seq(S) /\ Len(d) = 1 /\ d[1] = o[m]
  BY <1>4
<1>6. e \in [1 .. 1 -> S] /\ d \in [1 .. 1 -> S]
  BY <1>3, <1>5
<1>7. e = d
  BY <1>3, <1>5, <1>6
<1> QED  BY <1>2, <1>4, <1>7

\* The request of stream s, of which out has been sent, grows by a token.
Grows(s, out, g, tok, now) ==
  /\ {"max_new", "out", "status"} \subseteq DOMAIN g /\ g.out = out /\ g.max_new = MaxNew
  /\ live[s].sent = Len(out) /\ now[live[s].rid] = Grown(g, tok)

\* The update says so.
LEMMA TokenUpdate ==
  ASSUME NEW s, NEW out \in Seq(GenTokens), NEW g, NEW tok \in GenTokens, NEW now,
         Grows(s, out, g, tok, now)
  PROVE  /\ Grown(g, tok).out = Append(out, tok) /\ Grown(g, tok).max_new = MaxNew
         /\ NewUpdate(s, now).s = s /\ NewUpdate(s, now).reason \in {"none", "stop", "length"}
         /\ TokenOK(NewUpdate(s, now), Append(out, tok), Len(out) + 1)
<1> USE DEF Grows
<1> DEFINE o == Append(out, tok)
           m == Len(out) + 1
           h == Grown(g, tok)
           u == NewUpdate(s, now)
<1>0. o \in Seq(GenTokens) /\ Len(o) = m /\ o[m] = tok /\ m \in Nat \ {0} /\ Len(out) \in Nat
  OBVIOUS
<1> HIDE DEF o, m
<1>1. o \in Seq(GenTokens) /\ Len(o) = m /\ o[m] = tok /\ o # <<>> /\ m \in Nat /\ Len(out) \in Nat
  <2>1. Len(<<>>) = 0
    OBVIOUS
  <2> QED  BY <1>0, <2>1
<1>2. SubSeq(o, m, m) = <<o[m]>>
  BY <1>0, SubSeqOne
<1>3. PICK longer : longer = [g EXCEPT !.out = o]
  OBVIOUS
<1>4. {"max_new", "out", "status"} \subseteq DOMAIN longer /\ longer.out = o /\ longer.max_new = MaxNew
  BY <1>3
<1>5. PICK status : status = GenStatus(longer)
  OBVIOUS
<1>6. h = [longer EXCEPT !.status = status]
  BY <1>3, <1>5 DEF Grown, o
<1>7. h.out = o /\ h.max_new = MaxNew /\ h.status = status
  BY <1>4, <1>6
<1>8. status = IF m >= MaxNew \/ tok \in GenStops THEN "finished" ELSE "open"
  BY <1>1, <1>4, <1>5 DEF GenStatus, Complete
<1> HIDE DEF h
<1>9. now[live[s].rid] = h
  BY DEF h
<1>10. Last(o) = tok
  BY <1>1 DEF Last
<1>11. PICK reason : reason = IF h.status # "finished" THEN "none"
                              ELSE IF Last(h.out) \in GenStops THEN "stop" ELSE "length"
  OBVIOUS
<1>12. u = Update(s, SubSeq(h.out, live[s].sent + 1, Len(h.out)), reason)
  BY <1>9, <1>11 DEF NewUpdate
<1>13. u.s = s /\ u.ids = SubSeq(o, m, m) /\ u.reason = reason
  BY <1>1, <1>7, <1>12 DEF Update, m
<1>14. MaxNew \in Nat
  BY AsyncAssumption
<1>15. reason = IF m >= MaxNew \/ tok \in GenStops THEN (IF tok \in GenStops THEN "stop" ELSE "length")
                ELSE "none"
  BY <1>7, <1>8, <1>10, <1>11
<1>16. u.reason \in {"none", "stop", "length"}
  BY <1>13, <1>15
<1> HIDE DEF u
<1>17. TokenOK(u, o, m)
  <2>1. u.ids = <<o[m]>>
    BY <1>2, <1>13
  <2>2. u.reason = "none" => m < MaxNew /\ o[m] \notin GenStops
    BY <1>1, <1>13, <1>14, <1>15
  <2>3. u.reason \in {"stop", "length"} => m >= MaxNew \/ o[m] \in GenStops
    BY <1>1, <1>13, <1>15
  <2> QED  BY <2>1, <2>2, <2>3 DEF TokenOK
<1> QED  BY <1>7, <1>13, <1>16, <1>17 DEF o, m, h, u

\* A step of the engine: a request that grows sends its token behind all others of its stream; one that
\* does not grow sends nothing.
LEMMA StepReads ==
  ASSUME DInv, EngineStep, NEW s \in Streams
  PROVE  Reads(s)'
<1>1. CommandsOK /\ StreamsOK /\ PumpOK /\ DeliveryOK /\ LiveOK /\ AddedOnce /\ Reads(s)
  BY DEF DInv, WInv
<1>2. UNCHANGED <<updates, pump, stream, sending, commands>> /\ pump.state # "cancelled"
  BY ThreadRuns DEF EngineStep, sendVars
<1>3. PICK rids \in SUBSET DOMAIN gen : \E grow \in [rids -> GenTokens] : StepWith(grow)
  BY DEF EngineStep
<1>4. PICK grow \in [rids -> GenTokens] : StepWith(grow)
  BY <1>3
<1>5. DOMAIN grow = rids
  BY <1>4
<1> DEFINE now == [r \in DOMAIN gen |-> IF r \in DOMAIN grow THEN Grown(gen[r], grow[r]) ELSE gen[r]]
           mine == {x \in DOMAIN live : live[x].rid \in DOMAIN grow}
           news == InOrder(mine)
           list == [i \in DOMAIN news |-> NewUpdate(news[i], now)]
<1>6. gen' = now /\ live' = SentUpTo(now) /\ Publish(list)
  BY <1>4 DEF StepWith
<1>7. \A r \in DOMAIN gen : now[r] = IF r \in DOMAIN grow THEN Grown(gen[r], grow[r]) ELSE gen[r]
  OBVIOUS
<1> HIDE DEF now
<1>8. \A x \in DOMAIN live : {"rid", "sent"} \subseteq DOMAIN live[x] /\ live[x].rid \in DOMAIN gen
  BY <1>1 DEF LiveOK
<1>9. /\ DOMAIN live' \subseteq DOMAIN live
      /\ \A x \in DOMAIN live' : live'[x] = [live[x] EXCEPT !.sent = Len(now[live[x].rid].out)]
  BY <1>6 DEF SentUpTo
<1>10. \A x \in DOMAIN live' : live'[x].rid = live[x].rid /\ live'[x].sent = Len(now[live[x].rid].out)
  BY <1>8, <1>9
<1>11. /\ IsSeq(news) /\ Len(news) \in Nat /\ DOMAIN news = 1 .. Len(news)
       /\ \A k \in 1 .. Len(news) : news[k] \in mine
       /\ \A j, k \in 1 .. Len(news) : j < k => news[j] < news[k]
       /\ \A x \in mine : \E k \in 1 .. Len(news) : news[k] = x
  <2>1. Len(stream) \in Nat /\ mine \in SUBSET (1 .. Len(stream))
    BY <1>1, SeqLen DEF StreamsOK, LiveOK, Streams
  <2> HIDE DEF mine
  <2> QED  BY <2>1, InOrderIs
<1> HIDE DEF news
<1>12. DOMAIN list = 1 .. Len(news) /\ \A i \in 1 .. Len(news) : list[i] = NewUpdate(news[i], now)
  BY <1>11
<1>13. IsSeq(list)
  <2>1. list \in [1 .. Len(news) -> {NewUpdate(x, now) : x \in mine}]
    BY <1>11
  <2> QED  BY <1>11, <2>1, FunIsSeq
<1> HIDE DEF list
<1>14. \A x : NewUpdate(x, now).s = x
  BY DEF NewUpdate, Update
<1>15. Pending(s)' => Pending(s)
  BY <1>1, <1>2, PendingKept
<1>16. CASE s \notin mine
  <2>1. \A x \in ToSet(list) : x.s # s
    BY <1>11, <1>12, <1>14, <1>16 DEF ToSet
  <2>2. Quiet(s)
    BY <1>6, <1>13, <2>1, PublishQuiet
  <2>3. ASSUME NEW out \in Seq(GenTokens), Origin(s, out) PROVE Origin(s, out)'
    <3>1. s \in DOMAIN live' => /\ s \in DOMAIN live /\ live'[s].rid = live[s].rid
                                /\ now[live[s].rid] = gen[live[s].rid]
      BY <1>7, <1>8, <1>9, <1>10, <1>16
    <3> QED  BY <1>6, <1>10, <1>15, <2>3, <3>1 DEF Origin
  <2> QED  BY <1>2, <2>2, <2>3, QuietReads
<1>17. CASE s \in mine
  <2> SUFFICES ASSUME stream'[s].handler = "reading"
               PROVE  /\ stream'[s].reason = "none" /\ ~ stream'[s].finished
                      /\ stream'[s].got \in Seq(GenTokens) /\ Delivery(s)'
    BY DEF Reads
  <2>1. /\ stream[s].reason = "none" /\ ~ stream[s].finished /\ stream[s].got \in Seq(GenTokens)
        /\ Delivery(s) /\ stream' = stream
    BY <1>1, <1>2 DEF Reads
  <2>2. PICK out \in Seq(GenTokens) : Origin(s, out) /\ \E f : Chain(Way(s), s, stream[s].got, out, f)
    BY <2>1 DEF Delivery
  <2>3. PICK f : Chain(Way(s), s, stream[s].got, out, f)
    BY <2>2
  <2>4. s \in DOMAIN live /\ live[s].rid \in rids
    BY <1>5, <1>17
  <2> HIDE DEF mine
  <2>5. PICK g : g = gen[live[s].rid]
    OBVIOUS
  <2>6. PICK tok \in GenTokens : tok = grow[live[s].rid]
    BY <2>4
  <2>7. /\ {"max_new", "out", "status"} \subseteq DOMAIN g /\ g.out = out /\ g.max_new = MaxNew
        /\ live[s].sent = Len(out) /\ now[live[s].rid] = Grown(g, tok)
    BY <1>1, <1>5, <1>7, <1>8, <2>2, <2>4, <2>5, <2>6 DEF LiveOK, Origin
  <2>8. /\ now[live[s].rid].out = Append(out, tok) /\ now[live[s].rid].max_new = MaxNew
        /\ NewUpdate(s, now).s = s /\ NewUpdate(s, now).reason \in {"none", "stop", "length"}
        /\ TokenOK(NewUpdate(s, now), Append(out, tok), Len(out) + 1)
    <3>1. PICK N : N = now
      OBVIOUS
    <3>2. Grows(s, out, g, tok, N)
      BY <2>7, <3>1 DEF Grows
    <3>3. /\ Grown(g, tok).out = Append(out, tok) /\ Grown(g, tok).max_new = MaxNew
          /\ NewUpdate(s, N).s = s /\ NewUpdate(s, N).reason \in {"none", "stop", "length"}
          /\ TokenOK(NewUpdate(s, N), Append(out, tok), Len(out) + 1)
      BY <3>2, TokenUpdate
    <3> QED  BY <2>7, <3>1, <3>3
  <2>9. Append(out, tok) \in Seq(GenTokens)
    OBVIOUS
  <2>10. Origin(s, Append(out, tok))'
    <3>1. ~ Pending(s)
      BY <1>1, <2>4 DEF AddedOnce, Pending
    <3>2. s \in DOMAIN live' => gen'[live'[s].rid] = now[live[s].rid] /\ live'[s].sent = Len(now[live[s].rid].out)
      BY <1>6, <1>10
    <3> QED  BY <1>15, <2>8, <3>1, <3>2 DEF Origin
  <2>11. PICK i \in 1 .. Len(news) : news[i] = s
    BY <1>11, <1>17
  <2>12. /\ i \in DOMAIN list /\ i \in Nat /\ list[i] = NewUpdate(s, now)
         /\ \A j \in DOMAIN list : list[j].s = s => j = i
    <3>1. ASSUME NEW j \in 1 .. Len(news), news[j] = s PROVE j = i
      <4>0. s \in Nat
        BY <1>1, SeqLen DEF StreamsOK, Streams
      <4>1. ~ (j < i) /\ ~ (i < j)
        BY <1>11, <2>11, <3>1, <4>0
      <4> QED  BY <4>1
    <3>2. i \in Nat
      BY <2>11
    <3> QED  BY <1>12, <1>14, <2>11, <3>1, <3>2
  <2>13. PICK cb : cb = PutUpdates(list)
    OBVIOUS
  <2>14. ListOf(cb) = list /\ list # <<>>
    <3>1. DOMAIN <<>> = {}
      OBVIOUS
    <3> QED  BY <2>12, <2>13, <3>1 DEF ListOf, PutUpdates
  <2>15. soon' = Append(soon, cb)
    BY <1>6, <2>13, <2>14 DEF Publish
  <2> DEFINE q == stream[s].queue
             v == WayOf(q, pump.batch, updates, soon)
             w == WayOf(q, pump.batch, updates, Append(soon, cb))
             n == Len(soon) + 3
  <2>16. Way(s) = v /\ Way(s)' = w
    BY <1>2, <2>15 DEF Way
  <2>17. /\ n \in Nat \ {0} /\ DOMAIN v = 1 .. n /\ DOMAIN w = 1 .. n + 1
         /\ w[n + 1] = list /\ \A c \in 1 .. n : w[c] = v[c]
    <3>1. Parts(q, pump.batch, updates, soon)
      BY <1>1, WayParts
    <3> HIDE DEF q
    <3> QED  BY <1>13, <2>14, <3>1, WayLonger
  <2> HIDE DEF v, w, n, q
  <2>18. /\ i \in DOMAIN w[n + 1] /\ w[n + 1][i].s = s
         /\ (\A j \in DOMAIN w[n + 1] : w[n + 1][j].s = s => j = i)
         /\ w[n + 1][i].reason \in {"none", "stop", "length"}
         /\ TokenOK(w[n + 1][i], Append(out, tok), Len(out) + 1)
    BY <2>8, <2>12, <2>17
  <2>19. Chain(v, s, stream[s].got, out, f)
    BY <2>3, <2>16
  <2>20. \E e : Chain(w, s, stream[s].got, Append(out, tok), e)
    BY <2>1, <2>12, <2>17, <2>18, <2>19, Extended
  <2>21. Delivery(s)'
    BY <2>1, <2>9, <2>10, <2>16, <2>20 DEF Delivery
  <2> QED  BY <2>1, <2>21
<1> QED  BY <1>16, <1>17

-----------------------------------------------------------------------------
(* The invariant *)

\* Only stop cancels the pump, and only once the thread has ended.
LEMMA NextCut == DInv /\ [Next]_vars => CutIsEnded'
<1> SUFFICES ASSUME DInv, [Next]_vars PROVE CutIsEnded'
  OBVIOUS
<1>1. PumpOK /\ CutIsEnded
  BY DEF DInv, WInv
<1>2. CASE UNCHANGED vars
  BY <1>1, <1>2 DEF CutIsEnded, vars, engineVars, pumpVars
<1>3. CASE HandleCommand \/ EngineStep \/ Die \/ DrainAfterDeath
  BY <1>3, ThreadRuns DEF CutIsEnded
<1>4. CASE Aside
  <2>1. (pump'.state = "cancelled") <=> (pump.state = "cancelled")
    BY <1>1, <1>4, AsideIs
  <2>2. CASE GoStep \/ StepFails
    BY <1>1, <2>1, <2>2 DEF CutIsEnded, GoStep, StepFails
  <2>3. CASE ~ (GoStep \/ StepFails)
    <3>1. engine_pc' = engine_pc
      BY <1>4, <2>3 DEF Aside, StartCall, CancelCall, SendPut, Stop, Detokenize, PumpAborts, engineVars
    <3> QED  BY <1>1, <2>1, <3>1 DEF CutIsEnded
  <2> QED  BY <2>2, <2>3
<1>5. CASE SubmitStream \/ RunCallback
           \/ \E s \in Streams : \/ HandlerGet(s) \/ HandlerFails(s) \/ HandlerStalls(s)
                                 \/ Disconnect(s) \/ WatcherWakes(s)
  <2>1. engine_pc' = engine_pc /\ pump' = pump
    BY <1>5 DEF SubmitStream, RunCallback, HandlerGet, HandlerFails, HandlerStalls, Disconnect,
                WatcherWakes, engineVars, pumpVars
  <2> QED  BY <1>1, <2>1 DEF CutIsEnded
<1>6. CASE PumpTake \/ PumpPush
  <2>1. pump'.state # "cancelled"
    BY <1>6 DEF PumpTake, PumpPush, PumpWaits
  <2> QED  BY <2>1 DEF CutIsEnded
<1>7. CASE StopJoined
  BY <1>7 DEF StopJoined, CutIsEnded, engineVars
<1> QED  BY <1>2, <1>3, <1>4, <1>5, <1>6, <1>7 DEF Next, Loop, Thread, Aside

\* There are no streams at first.
LEMMA InitD == Init => DInv
<1> SUFFICES ASSUME Init PROVE DInv
  OBVIOUS
<1>1. WInv
  BY InitWInv
<1>2. Streams = {} /\ pump.state # "cancelled"
  BY DEF Init, Streams, PumpWaits
<1> QED  BY <1>1, <1>2 DEF DInv, CutIsEnded

\* Nothing happens.
LEMMA StutterD ==
  ASSUME DInv, UNCHANGED vars
  PROVE  \A s \in Streams' : Reads(s)'
<1> SUFFICES ASSUME NEW s \in Streams PROVE Reads(s)'
  BY DEF vars, clientVars, Streams
<1>1. UNCHANGED <<gen, live, commands, sending, soon, updates, pump, stream>>
  BY DEF vars, engineVars, sendVars, pumpVars, clientVars
<1>2. CommandsOK /\ Reads(s)
  BY DEF DInv, WInv
<1>3. Way(s)' = Way(s)
  BY <1>1, WayKept
<1>4. Pending(s)' => Pending(s)
  BY <1>1, <1>2, PendingKept
<1>5. \A out \in Seq(GenTokens) : Origin(s, out) => Origin(s, out)'
  BY <1>1, <1>2, <1>4, OriginKept
<1> QED  BY <1>1, <1>2, <1>3, <1>5, ReadsKept

\* Every step but a submission leaves the streams as many as they were.
LEMMA StreamsKept ==
  ASSUME DInv, Next, ~ SubmitStream
  PROVE  Streams' = Streams
<1>1. StreamsOK /\ PumpOK
  BY DEF DInv, WInv
<1>2. CASE Aside
  BY <1>1, <1>2, AsideIs DEF Streams
<1>3. CASE HandleCommand \/ EngineStep \/ Die \/ DrainAfterDeath
  BY <1>3, ThreadRuns
<1>4. CASE RunCallback \/ PumpTake \/ StopJoined
  BY <1>4 DEF RunCallback, PumpTake, StopJoined, clientVars, Streams
<1>5. CASE PumpPush
  BY <1>5 DEF PumpPush, Streams
<1>6. CASE \E t \in Streams : \/ HandlerGet(t) \/ HandlerFails(t) \/ HandlerStalls(t)
                              \/ Disconnect(t) \/ WatcherWakes(t)
  <2>1. PICK t \in Streams : \/ HandlerGet(t) \/ HandlerFails(t) \/ HandlerStalls(t)
                             \/ Disconnect(t) \/ WatcherWakes(t)
    BY <1>6
  <2>2. \E st : stream' = [stream EXCEPT ![t] = st] /\ StreamOK(st)
    BY <1>1, <2>1, HandlerSteps
  <2> QED  BY <1>1, <2>2, StreamUpdated
<1> QED  BY <1>2, <1>3, <1>4, <1>5, <1>6 DEF Next, Loop, Thread, Aside

\* The invariant is inductive.
LEMMA NextD == DInv /\ [Next]_vars => DInv'
<1> SUFFICES ASSUME DInv, [Next]_vars PROVE DInv'
  OBVIOUS
<1>1. WInv' /\ CutIsEnded'
  BY NextWInv, NextCut DEF DInv
<1>2. CASE UNCHANGED vars
  BY <1>1, <1>2, StutterD DEF DInv
<1>3. CASE SubmitStream
  BY <1>1, <1>3, SubmitReads DEF DInv
<1>4. CASE Next /\ ~ SubmitStream
  <2>1. Streams' = Streams
    BY <1>4, StreamsKept
  <2>2. ASSUME NEW s \in Streams PROVE Reads(s)'
    <3>1. CASE Aside
      BY <3>1, AsideReads
    <3>2. CASE HandleCommand
      BY <3>2, CommandReads
    <3>3. CASE EngineStep
      BY <3>3, StepReads
    <3>4. CASE Die \/ DrainAfterDeath
      BY <3>4, DieReads
    <3>5. CASE RunCallback
      BY <3>5, CallbackReads
    <3>6. CASE PumpTake
      BY <3>6, TakeReads
    <3>7. CASE PumpPush
      BY <3>7, PushReads
    <3>8. CASE StopJoined
      BY <3>8, StopReads
    <3>9. ASSUME NEW t \in Streams,
                 HandlerGet(t) \/ HandlerFails(t) \/ HandlerStalls(t) \/ Disconnect(t) \/ WatcherWakes(t)
          PROVE  Reads(s)'
      <4>1. CASE s # t
        BY <3>9, <4>1, OtherReads
      <4>2. CASE s = t
        <5>1. CASE HandlerGet(t)
          BY <4>2, <5>1, GetReads
        <5>2. CASE WatcherWakes(t)
          BY <4>2, <5>2, WatcherReads
        <5>3. CASE HandlerFails(t) \/ HandlerStalls(t) \/ Disconnect(t)
          BY <4>2, <5>3, OwnReads
        <5> QED  BY <3>9, <5>1, <5>2, <5>3
      <4> QED  BY <4>1, <4>2
    <3> QED  BY <1>4, <3>1, <3>2, <3>3, <3>4, <3>5, <3>6, <3>7, <3>8, <3>9 DEF Next, Loop, Thread, Aside
  <2> QED  BY <1>1, <2>1, <2>2 DEF DInv
<1> QED  BY <1>2, <1>3, <1>4

-----------------------------------------------------------------------------
(* The refinement *)

\* What was there before the last element.
LEMMA PrefixOfAppend ==
  ASSUME NEW S, NEW o \in Seq(S), NEW x \in S
  PROVE  SubSeq(Append(o, x), 1, Len(o)) = o
<1>1. PICK a : a = Append(o, x)
  OBVIOUS
<1>2. a \in Seq(S) /\ Len(a) = Len(o) + 1 /\ Len(o) \in Nat /\ \A i \in 1 .. Len(o) : a[i] = o[i]
  BY <1>1
<1>3. PICK e : e = SubSeq(a, 1, Len(o))
  OBVIOUS
<1>4. e \in Seq(S) /\ Len(e) = Len(o) /\ \A i \in 1 .. Len(o) : e[i] = a[i]
  BY <1>2, <1>3
<1>5. e \in [1 .. Len(o) -> S] /\ o \in [1 .. Len(o) -> S]
  BY <1>2, <1>4
<1>6. e = o
  BY <1>2, <1>4, <1>5
<1> QED  BY <1>1, <1>3, <1>6

\* A function that is one longer than a sequence.
LEMMA FunAppend ==
  ASSUME NEW S, NEW n \in Nat, NEW v \in [1 .. n -> S], NEW g \in S, NEW w \in [1 .. n + 1 -> S],
         w[n + 1] = g, \A i \in 1 .. n : w[i] = v[i]
  PROVE  w = Append(v, g)
<1>1. v \in Seq(S) /\ Len(v) = n
  OBVIOUS
<1>2. PICK a : a = Append(v, g)
  OBVIOUS
<1>3. a \in Seq(S) /\ Len(a) = n + 1 /\ a[n + 1] = g /\ \A i \in 1 .. n : a[i] = v[i]
  BY <1>1, <1>2
<1>4. \A i \in 1 .. n + 1 : i \in 1 .. n \/ i = n + 1
  OBVIOUS
<1>5. a \in [1 .. n + 1 -> S] /\ \A i \in 1 .. n + 1 : a[i] = w[i]
  BY <1>3, <1>4
<1>6. w = a
  BY <1>5
<1> QED  BY <1>2, <1>6

\* All the streams as their clients see them.
View == [s \in Streams |-> ClientView(stream[s])]

\* A client sees what its handler has taken, and nothing else.
LEMMA ViewKept ==
  ASSUME Streams' = Streams,
         \A s \in Streams : stream'[s].got = stream[s].got /\ stream'[s].reason = stream[s].reason
  PROVE  View' = View
<1>1. \A s \in Streams : ClientView(stream'[s]) = ClientView(stream[s])
  BY DEF ClientView
<1> QED  BY <1>1 DEF View

\* Who has a stream's next output sees it grow, end, or both.
LEMMA SeesToken ==
  ASSUME NEW st, NEW st2, st.reason = "none", st.got \in Seq(GenTokens),
         NEW tok \in GenTokens, st2.got = Append(st.got, tok),
         \/ st2.reason = "none" /\ Len(st.got) + 1 < MaxNew /\ tok \notin GenStops
         \/ st2.reason \in {"stop", "length"} /\ (Len(st.got) + 1 >= MaxNew \/ tok \in GenStops)
  PROVE  Client!Extends(ClientView(st), ClientView(st2))
<1> DEFINE g == ClientView(st)
           h == ClientView(st2)
           got == st.got
           o == Append(got, tok)
<1>1. g.status = "open" /\ g.out = got /\ g.max_new = MaxNew
  BY DEF ClientView
<1>2. h.out = o /\ h.max_new = MaxNew /\ h.status = IF st2.reason = "none" THEN "open" ELSE "finished"
  BY DEF ClientView
<1>3. Len(got) \in Nat /\ o \in Seq(GenTokens) /\ Len(o) = Len(got) + 1 /\ o[Len(got) + 1] = tok
  OBVIOUS
<1>4. SubSeq(o, 1, Len(got)) = got
  BY PrefixOfAppend
<1> HIDE DEF o, got, g, h
<1>5. o # <<>>
  <2>1. Len(<<>>) = 0
    OBVIOUS
  <2> QED  BY <1>3, <2>1
<1>6. MaxNew \in Nat /\ GenMaxStep \in Nat \ {0}
  BY AsyncAssumption
<1>7. Client!Complete(o, MaxNew) <=> Len(got) + 1 >= MaxNew \/ tok \in GenStops
  BY <1>3, <1>5 DEF Client!Complete
<1>8. Client!Complete(o, MaxNew) <=> st2.reason # "none"
  BY <1>3, <1>6, <1>7 DEF got
<1>9. h.status = Client!GenStatus(h)
  BY <1>2, <1>8 DEF Client!GenStatus
<1>10. Len(h.out) - Len(g.out) \in 1 .. GenMaxStep
  BY <1>1, <1>2, <1>3, <1>6
<1>11. \A k \in Len(g.out) + 1 .. Len(h.out) : k = Len(got) + 1 /\ ~ (k < Len(h.out)) /\ h.out[k] \in GenTokens
  BY <1>1, <1>2, <1>3
<1>12. SubSeq(h.out, 1, Len(g.out)) = g.out
  BY <1>1, <1>2, <1>4
<1>13. Client!Extends(g, h)
  BY <1>1, <1>2, <1>9, <1>10, <1>11, <1>12 DEF Client!Extends
<1> QED  BY <1>13 DEF g, h

\* A handler takes an output: its client's output grows by the next token, or its request is over.
LEMMA GetSees ==
  ASSUME DInv, NEW t \in Streams, HandlerGet(t)
  PROVE  View' = View \/ Client!GenNext
<1> DEFINE q == stream[t].queue
           got == stream[t].got
<1>1. StreamsOK /\ PumpOK /\ DeliveryOK /\ Reads(t) /\ StreamOK(stream[t])
  BY DEF DInv, WInv, StreamsOK
<1>2. UNCHANGED <<soon, updates, pump>>
  BY DEF HandlerGet, pumpVars
<1>3. PICK taken : taken = Taken(stream[t], Head(q))
  OBVIOUS
<1>4. /\ stream[t].handler = "reading" /\ q # <<>> /\ Streams' = Streams
      /\ \A s \in Streams : s # t => stream'[s] = stream[s]
      /\ stream'[t].got = taken.got /\ stream'[t].reason = taken.reason
  BY <1>1, <1>3, GetIs
<1>5. /\ Head(q) = DISCONNECTED => taken.got = got /\ taken.reason = stream[t].reason
      /\ Head(q) # DISCONNECTED =>
           /\ taken.reason = Head(q).reason
           /\ taken.got = IF Head(q).reason \in {"abort", "error"} THEN got ELSE got \o Head(q).ids
  BY <1>1, <1>3, TakenIs
<1>6. stream[t].reason = "none" /\ got \in Seq(GenTokens) /\ Delivery(t)
  BY <1>1, <1>4 DEF Reads
<1>7. PICK out \in Seq(GenTokens) : \E f : Chain(Way(t), t, got, out, f)
  BY <1>6 DEF Delivery
<1>8. PICK f : Chain(Way(t), t, got, out, f)
  BY <1>7
<1>9. PICK b, u, cbs : Parts(q, b, u, cbs) /\ Way(t) = WayOf(q, b, u, cbs)
  BY <1>1, <1>2, WaySplit
<1>10. Chain(WayOf(q, b, u, cbs), t, got, out, f)
  BY <1>8, <1>9
<1> HIDE DEF q, got
<1>11. \/ Head(q) = DISCONNECTED
       \/ Head(q).reason \in {"abort", "error"}
       \/ /\ Head(q).reason \in {"none", "stop", "length"} /\ Len(got) < Len(out)
          /\ TokenOK(Head(q), out, Len(got) + 1)
  BY <1>4, <1>6, <1>9, <1>10, NextOutput
<1>12. CASE Head(q) = DISCONNECTED
  <2>1. stream'[t].got = stream[t].got /\ stream'[t].reason = stream[t].reason
    BY <1>4, <1>5, <1>12 DEF got
  <2>2. \A s \in Streams : stream'[s].got = stream[s].got /\ stream'[s].reason = stream[s].reason
    BY <1>4, <2>1
  <2> QED  BY <1>4, <2>2, ViewKept
<1>13. CASE Head(q) # DISCONNECTED /\ Head(q).reason \in {"abort", "error"}
  <2>1. stream'[t].got = stream[t].got /\ stream'[t].reason \in {"abort", "error"}
    BY <1>4, <1>5, <1>13 DEF got
  <2>2. ClientView(stream[t]).status = "open"
    BY <1>6 DEF ClientView
  <2>3. ClientView(stream'[t]) = [ClientView(stream[t]) EXCEPT !.status = "aborted"]
    BY <2>1 DEF ClientView
  <2>4. [s \in Streams' |-> ClientView(stream'[s])]
          = [[s \in Streams |-> ClientView(stream[s])] EXCEPT
               ![t] = [ClientView(stream[t]) EXCEPT !.status = "aborted"]]
    BY <1>4, <2>3
  <2>5. Client!Cancel(t)
    BY <2>2, <2>4 DEF Client!Cancel
  <2>6. t \in DOMAIN [s \in Streams |-> ClientView(stream[s])]
    OBVIOUS
  <2> QED  BY <2>5, <2>6 DEF Client!GenNext
<1>14. CASE /\ Head(q) # DISCONNECTED /\ Head(q).reason \in {"none", "stop", "length"}
            /\ Len(got) < Len(out) /\ TokenOK(Head(q), out, Len(got) + 1)
  <2>1. PICK m : m = Len(got) + 1
    OBVIOUS
  <2>2. PICK tok \in GenTokens : tok = out[m]
    <3>1. m \in 1 .. Len(out)
      BY <1>6, <1>14, <2>1
    <3> QED  BY <3>1
  <2>3. /\ Head(q).ids = <<tok>> /\ taken.reason = Head(q).reason /\ taken.got = got \o <<tok>>
        /\ Head(q).reason = "none" => m < MaxNew /\ tok \notin GenStops
        /\ Head(q).reason \in {"stop", "length"} => m >= MaxNew \/ tok \in GenStops
    BY <1>5, <1>14, <2>1, <2>2 DEF TokenOK
  <2>4. taken.got = Append(got, tok)
    BY <1>6, <2>3, AppendIs
  <2>5. Client!Extends(ClientView(stream[t]), ClientView(stream'[t]))
    <3>1. PICK st, st2 : st = stream[t] /\ st2 = stream'[t]
      OBVIOUS
    <3>2. /\ st.reason = "none" /\ st.got \in Seq(GenTokens) /\ st2.got = Append(st.got, tok)
          /\ \/ st2.reason = "none" /\ Len(st.got) + 1 < MaxNew /\ tok \notin GenStops
             \/ st2.reason \in {"stop", "length"} /\ (Len(st.got) + 1 >= MaxNew \/ tok \in GenStops)
      BY <1>4, <1>6, <1>14, <2>1, <2>3, <2>4, <3>1 DEF got
    <3>3. Client!Extends(ClientView(st), ClientView(st2))
      BY <3>2, SeesToken
    <3> QED  BY <3>1, <3>3
  <2>6. \A s \in Streams : \/ ClientView(stream'[s]) = ClientView(stream[s])
                           \/ Client!Extends(ClientView(stream[s]), ClientView(stream'[s]))
    BY <1>4, <2>5
  <2>7. Client!Advance
    BY <1>4, <2>6 DEF Client!Advance
  <2> QED  BY <2>7 DEF Client!GenNext
<1> QED  BY <1>11, <1>12, <1>13, <1>14

\* A submission adds a request that has no output.
LEMMA SubmitSees ==
  ASSUME DInv, SubmitStream
  PROVE  Client!GenNext
<1>1. StreamsOK
  BY DEF DInv, WInv
<1>2. PICK n : n = Len(stream)
  OBVIOUS
<1>3. n \in Nat /\ Streams = 1 .. n
  BY <1>1, <1>2, SeqLen DEF StreamsOK, Streams
<1>4. stream' = Append(stream, NewStream)
  BY DEF SubmitStream
<1>5. /\ IsSeq(stream') /\ Len(stream') = n + 1 /\ stream'[n + 1] = NewStream
      /\ \A i \in 1 .. n : stream'[i] = stream[i]
  BY <1>1, <1>2, <1>4, SeqAppend DEF StreamsOK
<1>6. Streams' = 1 .. n + 1
  <2>1. DOMAIN stream' = 1 .. Len(stream')
    BY <1>5, SeqLen
  <2> QED  BY <1>5, <2>1 DEF Streams
<1>7. ClientView(NewStream) = Client!NewGen(MaxNew)
  BY DEF ClientView, NewStream, Client!NewGen
<1>8. PICK v, w : v = [s \in Streams |-> ClientView(stream[s])] /\ w = [s \in Streams' |-> ClientView(stream'[s])]
  OBVIOUS
<1> DEFINE g == Client!NewGen(MaxNew)
           S == {v[s] : s \in 1 .. n} \cup {g}
<1>9. /\ w \in [1 .. n + 1 -> S] /\ w[n + 1] = g /\ (\A i \in 1 .. n : w[i] = v[i])
      /\ v \in [1 .. n -> S]
  <2>1. v \in [1 .. n -> S] /\ \A i \in 1 .. n : v[i] = ClientView(stream[i])
    BY <1>3, <1>8
  <2>2. DOMAIN w = 1 .. n + 1 /\ w[n + 1] = g /\ \A i \in 1 .. n : w[i] = v[i]
    BY <1>3, <1>5, <1>6, <1>7, <1>8, <2>1
  <2>3. w = [s \in 1 .. n + 1 |-> w[s]]
    BY <1>6, <1>8
  <2> HIDE DEF g
  <2>4. \A i \in 1 .. n + 1 : w[i] \in S
    <3>1. \A i \in 1 .. n + 1 : i \in 1 .. n \/ i = n + 1
      BY <1>3
    <3> QED  BY <2>2, <3>1
  <2> QED  BY <2>1, <2>2, <2>3, <2>4
<1> HIDE DEF g, S
<1>10. g \in S
  BY DEF S
<1>11. w = Append(v, g)
  BY <1>3, <1>9, <1>10, FunAppend
<1>12. Client!Submit(MaxNew)
  BY <1>8, <1>11 DEF Client!Submit, g
<1>13. MaxNew \in GenMaxNew
  BY AsyncAssumption
<1> QED  BY <1>12, <1>13 DEF Client!GenNext

\* A step that takes nothing from a queue shows a client nothing.
LEMMA OtherSees ==
  ASSUME DInv, Next, ~ SubmitStream, \A t \in Streams : ~ HandlerGet(t)
  PROVE  View' = View
<1>1. StreamsOK /\ PumpOK
  BY DEF DInv, WInv
<1>2. Streams' = Streams
  BY StreamsKept
<1> SUFFICES ASSUME NEW s \in Streams
             PROVE  stream'[s].got = stream[s].got /\ stream'[s].reason = stream[s].reason
  BY <1>2, ViewKept
<1>3. StreamOK(stream[s])
  BY <1>1 DEF StreamsOK
<1>4. CASE Aside
  BY <1>1, <1>4, AsideIs
<1>5. CASE HandleCommand \/ EngineStep \/ Die \/ DrainAfterDeath
  BY <1>5, ThreadRuns
<1>6. CASE RunCallback \/ PumpTake \/ StopJoined
  BY <1>6 DEF RunCallback, PumpTake, StopJoined, clientVars
<1>7. CASE PumpPush
  <2>1. stream'[s] = [stream[s] EXCEPT !.queue = stream[s].queue \o OutputsFor(s)]
    BY <1>7 DEF PumpPush
  <2> QED  BY <1>3, <2>1 DEF StreamOK, Fields
<1>8. ASSUME NEW t \in Streams, HandlerFails(t) \/ HandlerStalls(t) \/ Disconnect(t) \/ WatcherWakes(t)
      PROVE  stream'[s].got = stream[s].got /\ stream'[s].reason = stream[s].reason
  <2>1. PICK st : /\ stream' = [stream EXCEPT ![t] = st]
                  /\ \/ st = [stream[t] EXCEPT !.handler = "ended", !.watcher = "ended"]
                     \/ st = [stream[t] EXCEPT !.handler = "stalled"]
                     \/ st = [stream[t] EXCEPT !.gone = TRUE]
                     \/ st = [stream[t] EXCEPT !.watcher = "ended",
                                               !.queue = Append(stream[t].queue, DISCONNECTED)]
    BY <1>8 DEF HandlerFails, EndHandler, HandlerStalls, Disconnect, WatcherWakes
  <2>2. StreamOK(stream[t])
    BY <1>1 DEF StreamsOK
  <2>3. st.got = stream[t].got /\ st.reason = stream[t].reason
    BY <2>1, <2>2 DEF StreamOK, Fields
  <2> QED  BY <2>1, <2>3 DEF Streams
<1> QED  BY <1>4, <1>5, <1>6, <1>7, <1>8 DEF Next, Loop, Thread, Aside

\* The initial states map to initial states, and every step to a step of Generation or to a stutter.
LEMMA ClientInit == Init => Client!GenInit
BY DEF Init, Client!GenInit, Streams

LEMMA ClientStep == DInv /\ [Next]_vars => [Client!GenNext]_[s \in Streams |-> ClientView(stream[s])]
<1> SUFFICES ASSUME DInv, [Next]_vars PROVE View' = View \/ Client!GenNext
  BY DEF View
<1>1. CASE UNCHANGED vars
  BY <1>1 DEF vars, clientVars, View, Streams
<1>2. CASE SubmitStream
  BY <1>2, SubmitSees
<1>3. CASE \E t \in Streams : HandlerGet(t)
  BY <1>3, GetSees
<1>4. CASE Next /\ ~ SubmitStream /\ \A t \in Streams : ~ HandlerGet(t)
  BY <1>4, OtherSees
<1> QED  BY <1>1, <1>2, <1>3, <1>4

\* RequestStream: "outputs arrive in order, the last one has a ``finish_reason``".  Whatever the engine
\* generates, however the callbacks, the pump's batches and the handlers interleave, and whether the
\* tokenizer fails, requests are aborted, the engine dies or the server stops: what every client gets
\* is a behaviour of Generation.  Its tokens come in order, none twice, none left out before another,
\* none after the end, and the stream is reported finished with the token that completes it and with
\* no other.
THEOREM AsyncClientSeesGeneration == Spec => ClientSeesGeneration
<1>1. Spec => []DInv
  BY InitD, NextD, PTL DEF Spec
<1> QED  BY <1>1, ClientInit, ClientStep, PTL DEF Spec, ClientSeesGeneration, Client!GenSpec
=============================================================================

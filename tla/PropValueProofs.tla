-------------------------- MODULE PropValueProofs --------------------------
(***************************************************************************)
(* The encoder of a property's value has its two maps of name spaces the   *)
(* inverse of each other, and takes back with each element what it         *)
(* declared.  The decoder's name spaces are those that the open tags       *)
(* declare, and a value takes the tokens of its own element and no more.   *)
(* What the encoder writes of a value is read again token by token, and    *)
(* the names in it as they were sent.                                      *)
(***************************************************************************)
EXTENDS PropValue, PathMapProofs, FiniteSetTheorems

-----------------------------------------------------------------------------
(* Sequences of anything *)

IsSeq(s) == Len(s) \in Nat /\ s = [i \in 1..Len(s) |-> s[i]]

\* A sequence is one over its own elements.
LEMMA IsSeqOverItself ==
  ASSUME NEW s, IsSeq(s), NEW S, \A i \in 1..Len(s) : s[i] \in S
  PROVE  s \in Seq(S)
<1>1. s \in [1..Len(s) -> S]
  BY DEF IsSeq
<1> QED BY <1>1 DEF IsSeq

\* A sequence over a set is a sequence.
LEMMA SeqIsSeq ==
  ASSUME NEW S, NEW s \in Seq(S)
  PROVE  IsSeq(s) /\ DOMAIN s = 1..Len(s)
BY DEF IsSeq

\* One element more at the end.
LEMMA AppendIsSeq ==
  ASSUME NEW s, IsSeq(s), NEW e
  PROVE  LET t == Append(s, e)
         IN  /\ IsSeq(t) /\ Len(t) = Len(s) + 1 /\ t[Len(s) + 1] = e
             /\ \A i \in 1..Len(s) : t[i] = s[i]
<1> DEFINE S == {s[i] : i \in 1..Len(s)} \cup {e}
           t == Append(s, e)
<1>1. s \in Seq(S) /\ e \in S
  BY IsSeqOverItself
<1> HIDE DEF S
<1>2. t \in Seq(S) /\ Len(t) = Len(s) + 1 /\ t[Len(s) + 1] = e
      /\ \A i \in 1..Len(s) : t[i] = s[i]
  BY <1>1, AppendProperties
<1> HIDE DEF t
<1>3. IsSeq(t)
  BY <1>2, SeqIsSeq
<1> QED BY <1>2, <1>3 DEF t

\* A part of a sequence.
LEMMA SubSeqIsSeq ==
  ASSUME NEW s, IsSeq(s), NEW m \in Nat \ {0}, NEW n \in Nat, n <= Len(s), m <= n + 1
  PROVE  LET t == SubSeq(s, m, n)
         IN  /\ IsSeq(t) /\ Len(t) = n - m + 1
             /\ \A i \in 1..(n - m + 1) : t[i] = s[m + i - 1]
<1> DEFINE S == {s[i] : i \in 1..Len(s)}
           t == SubSeq(s, m, n)
<1>1. s \in Seq(S)
  BY IsSeqOverItself
<1> HIDE DEF S
<1>2. /\ t \in Seq(S) /\ Len(t) = n - m + 1
      /\ \A i \in 1..(n - m + 1) : t[i] = s[m + i - 1]
  <2>1. CASE m <= n
    <3>1. m \in 1..Len(s) /\ n \in 1..Len(s) /\ Len(s) \in Nat
      BY <1>1, <2>1
    <3>2. \A i \in m..n : s[i] \in S
      BY <1>1, <3>1
    <3> QED BY <1>1, <2>1, <3>1, <3>2, SubSeqProperties
  <2>2. CASE m = n + 1
    <3>1. t = << >>
      BY <2>2, SubSeqEmpty
    <3> QED BY <2>2, <3>1
  <2> QED BY <2>1, <2>2
<1> HIDE DEF t
<1>3. IsSeq(t)
  BY <1>2, SeqIsSeq
<1> QED BY <1>2, <1>3 DEF t

\* A sequence from its end to its start.
LEMMA ReverseIsSeq ==
  ASSUME NEW s, IsSeq(s)
  PROVE  /\ IsSeq(Reverse(s)) /\ Len(Reverse(s)) = Len(s)
         /\ \A i \in 1..Len(s) : Reverse(s)[i] = s[Len(s) - i + 1]
<1> DEFINE S == {s[i] : i \in 1..Len(s)}
           n == Len(s)
           t == [i \in 1..n |-> s[(n - i) + 1]]
<1>1. n \in Nat
  BY DEF IsSeq
<1>2. \A i \in 1..n : (n - i) + 1 \in 1..n
  BY <1>1
<1>3. Reverse(s) = t
  BY DEF Reverse
<1>4. t \in [1..n -> S]
  BY <1>2
<1>5. \A i \in 1..n : t[i] = s[(n - i) + 1]
  OBVIOUS
<1> HIDE DEF S, t, n
<1>6. t \in Seq(S) /\ Len(t) = n
  BY <1>1, <1>4
<1>7. IsSeq(t)
  BY <1>6, SeqIsSeq
<1> QED BY <1>1, <1>3, <1>5, <1>6, <1>7 DEF n

-----------------------------------------------------------------------------
(* The name spaces in force *)

(* The default, the map from prefix to URL and the map from URL to prefix. *)
Spaces(p) == [d |-> p.defaultNS, n |-> p.attrNS, x |-> p.attrPrefix]

Standing(s, prefix) == IF prefix = "" THEN s.d ELSE Look(s.n, prefix)

(* What SetAttrPrefix does to them. *)
Redefined(s, prefix, url) ==
  IF prefix = "" THEN [d |-> url, n |-> s.n, x |-> s.x]
  ELSE IF url = ""
       THEN [d |-> s.d, n |-> Deleted(s.n, prefix), x |-> Deleted(s.x, Standing(s, prefix))]
       ELSE [d |-> s.d, n |-> With(s.n, prefix, url),
             x |-> With(Deleted(s.x, Standing(s, prefix)), url, prefix)]

IsMap(f) == f = [k \in DOMAIN f |-> f[k]]
Into(f, g) == \A k \in DOMAIN f : f[k] \in DOMAIN g /\ g[f[k]] = k

(* The two maps are the inverse of each other, the empty name in neither. *)
Good(s) ==
  /\ s = [d |-> s.d, n |-> s.n, x |-> s.x]
  /\ IsMap(s.n) /\ IsMap(s.x) /\ Into(s.n, s.x) /\ Into(s.x, s.n)
  /\ "" \notin DOMAIN s.x /\ "" \notin DOMAIN s.n

(* A definition that the encoder makes: of the default, or of a URL that   *)
(* has no prefix.                                                          *)
Fresh(s, prefix, url) == prefix # "" => url # "" /\ url \notin DOMAIN s.x

\* Maps with the same elements.
LEMMA SameMaps ==
  ASSUME NEW f, NEW g, IsMap(f), IsMap(g), DOMAIN f = DOMAIN g, \A k \in DOMAIN f : f[k] = g[k]
  PROVE  f = g
BY DEF IsMap

\* A definition with a prefix keeps the maps the inverse of each other.
LEMMA PrefixKeepsGood ==
  ASSUME NEW n, NEW x, NEW prefix, NEW url, IsMap(n), IsMap(x), Into(n, x), Into(x, n),
         url \notin DOMAIN x, "" \notin DOMAIN x
  PROVE  LET m == With(n, prefix, url)
             y == With(Deleted(x, Look(n, prefix)), url, prefix)
         IN  Into(m, y) /\ Into(y, m)
<1> DEFINE old == Look(n, prefix)
           m == With(n, prefix, url)
           c == Deleted(x, old)
           y == With(c, url, prefix)
<1>1. /\ DOMAIN m = DOMAIN n \cup {prefix} /\ m[prefix] = url
      /\ \A k \in DOMAIN n : k # prefix => m[k] = n[k]
  BY DEF With, IsMap
<1>2. /\ DOMAIN c = DOMAIN x \ {old} /\ \A u \in DOMAIN x : u # old => c[u] = x[u]
  BY DEF Deleted, IsMap
<1>3. /\ DOMAIN y = DOMAIN c \cup {url} /\ y[url] = prefix
      /\ \A u \in DOMAIN c : u # url => y[u] = c[u]
  BY DEF With, IsMap
<1>4. old = IF prefix \in DOMAIN n THEN n[prefix] ELSE ""
  BY DEF Look
<1> HIDE DEF m, c, y, old
<1>5. ASSUME NEW k \in DOMAIN m
      PROVE  m[k] \in DOMAIN y /\ y[m[k]] = k
  <2>1. CASE k = prefix
    BY <1>1, <1>3, <2>1
  <2>2. CASE k # prefix
    <3>1. k \in DOMAIN n /\ m[k] = n[k] /\ n[k] \in DOMAIN x /\ x[n[k]] = k
      BY <1>1, <2>2 DEF Into
    <3>2. n[k] # old
      BY <1>4, <2>2, <3>1 DEF Into
    <3> QED BY <1>2, <1>3, <3>1, <3>2
  <2> QED BY <2>1, <2>2
<1>6. ASSUME NEW u \in DOMAIN y
      PROVE  y[u] \in DOMAIN m /\ m[y[u]] = u
  <2>1. CASE u = url
    BY <1>1, <1>3, <2>1
  <2>2. CASE u # url
    <3>1. u \in DOMAIN x /\ u # old /\ y[u] = x[u] /\ x[u] \in DOMAIN n /\ n[x[u]] = u
      BY <1>2, <1>3, <2>2 DEF Into
    <3>2. x[u] # prefix
      BY <1>4, <3>1
    <3> QED BY <1>1, <3>1, <3>2
  <2> QED BY <2>1, <2>2
<1> QED BY <1>5, <1>6 DEF Into, m, c, y, old

\* A definition that the encoder makes keeps the maps as they must be.
LEMMA FreshKeepsGood ==
  ASSUME NEW s, Good(s), NEW prefix, NEW url, Fresh(s, prefix, url)
  PROVE  Good(Redefined(s, prefix, url))
<1>1. CASE prefix = ""
  BY <1>1 DEF Good, Redefined
<1>2. CASE prefix # ""
  <2> DEFINE c == Deleted(s.x, Standing(s, prefix))
             m == With(s.n, prefix, url)
             y == With(c, url, prefix)
             r == [d |-> s.d, n |-> m, x |-> y]
  <2>1. url # "" /\ url \notin DOMAIN s.x /\ Standing(s, prefix) = Look(s.n, prefix)
    BY <1>2 DEF Fresh, Standing
  <2>2. Redefined(s, prefix, url) = r
    BY <1>2, <2>1 DEF Redefined
  <2>3. Into(m, y) /\ Into(y, m)
    BY <2>1, PrefixKeepsGood DEF Good
  <2>4. IsMap(m) /\ "" \notin DOMAIN m
    BY <1>2 DEF Good, With, IsMap
  <2>5. IsMap(y) /\ "" \notin DOMAIN y
    BY <2>1 DEF Good, With, Deleted, IsMap
  <2>6. r.d = s.d /\ r.n = m /\ r.x = y
    OBVIOUS
  <2> HIDE DEF m, c, y
  <2>7. r = [d |-> r.d, n |-> r.n, x |-> r.x]
    OBVIOUS
  <2> HIDE DEF r
  <2> QED BY <2>2, <2>3, <2>4, <2>5, <2>6, <2>7 DEF Good
<1> QED BY <1>1, <1>2

\* Setting back what a definition replaced gives the name spaces as they were.
LEMMA FreshIsUndone ==
  ASSUME NEW s, Good(s), NEW prefix, NEW url, Fresh(s, prefix, url)
  PROVE  Redefined(Redefined(s, prefix, url), prefix, Standing(s, prefix)) = s
<1> DEFINE old == Standing(s, prefix)
           t == Redefined(s, prefix, url)
<1>1. CASE prefix = ""
  BY <1>1 DEF Good, Redefined, Standing
<1>2. CASE prefix # ""
  <2> DEFINE c == Deleted(s.x, old)
             m == With(s.n, prefix, url)
             y == With(c, url, prefix)
             z == Deleted(y, url)
  <2>1. url # "" /\ url \notin DOMAIN s.x /\ old = Look(s.n, prefix)
    BY <1>2 DEF Fresh, Standing
  <2>2. t = [d |-> s.d, n |-> m, x |-> y]
    BY <1>2, <2>1 DEF Redefined
  <2>3. /\ IsMap(m) /\ DOMAIN m = DOMAIN s.n \cup {prefix} /\ m[prefix] = url
        /\ \A k \in DOMAIN s.n : k # prefix => m[k] = s.n[k]
    BY DEF With, IsMap
  <2>4. /\ IsMap(c) /\ DOMAIN c = DOMAIN s.x \ {old} /\ \A u \in DOMAIN s.x : u # old => c[u] = s.x[u]
    BY DEF Deleted, IsMap
  <2>5. /\ IsMap(y) /\ DOMAIN y = DOMAIN c \cup {url} /\ y[url] = prefix
        /\ \A u \in DOMAIN c : u # url => y[u] = c[u]
    BY DEF With, IsMap
  <2>6. /\ IsMap(z) /\ DOMAIN z = DOMAIN y \ {url} /\ \A u \in DOMAIN y : u # url => z[u] = y[u]
    BY DEF Deleted, IsMap
  <2>7. t.d = s.d /\ t.n = m /\ t.x = y
    BY <2>2
  <2> HIDE DEF m, c, y, z, t
  <2>8. Standing(t, prefix) = url
    BY <1>2, <2>3, <2>7 DEF Standing, Look
  <2>9. /\ IsMap(s.n) /\ IsMap(s.x) /\ s = [d |-> s.d, n |-> s.n, x |-> s.x]
        /\ Into(s.n, s.x) /\ "" \notin DOMAIN s.x
    BY DEF Good
  <2>10. CASE old = ""
    <3>1. Redefined(t, prefix, old) = [d |-> s.d, n |-> Deleted(m, prefix), x |-> z]
      BY <1>2, <2>7, <2>8, <2>10 DEF Redefined, z
    <3>2. prefix \notin DOMAIN s.n
      BY <2>1, <2>9, <2>10 DEF Look, Into
    <3>3. Deleted(m, prefix) = s.n
      <4>1. /\ IsMap(Deleted(m, prefix)) /\ DOMAIN Deleted(m, prefix) = DOMAIN m \ {prefix}
            /\ \A k \in DOMAIN m : k # prefix => Deleted(m, prefix)[k] = m[k]
        BY DEF Deleted, IsMap
      <4> QED BY <2>3, <2>9, <3>2, <4>1, SameMaps
    <3>4. z = s.x
      <4>1. DOMAIN z = DOMAIN s.x
        BY <2>1, <2>4, <2>5, <2>6, <2>10 DEF Good
      <4>2. \A u \in DOMAIN z : z[u] = s.x[u]
        BY <2>1, <2>4, <2>5, <2>6
      <4> QED BY <2>6, <2>9, <4>1, <4>2, SameMaps
    <3> QED BY <2>9, <3>1, <3>3, <3>4 DEF t
  <2>11. CASE old # ""
    <3>1. Redefined(t, prefix, old)
             = [d |-> s.d, n |-> With(m, prefix, old), x |-> With(z, old, prefix)]
      BY <1>2, <2>7, <2>8, <2>11 DEF Redefined, z
    <3>2. prefix \in DOMAIN s.n /\ s.n[prefix] = old /\ old \in DOMAIN s.x /\ s.x[old] = prefix
      BY <2>1, <2>9, <2>11 DEF Look, Into
    <3>3. With(m, prefix, old) = s.n
      <4>1. /\ IsMap(With(m, prefix, old)) /\ DOMAIN With(m, prefix, old) = DOMAIN m \cup {prefix}
            /\ With(m, prefix, old)[prefix] = old
            /\ \A k \in DOMAIN m : k # prefix => With(m, prefix, old)[k] = m[k]
        BY DEF With, IsMap
      <4>2. DOMAIN With(m, prefix, old) = DOMAIN s.n
        BY <2>3, <3>2, <4>1
      <4>3. \A k \in DOMAIN s.n : With(m, prefix, old)[k] = s.n[k]
        BY <2>3, <3>2, <4>1
      <4> QED BY <2>9, <4>1, <4>2, <4>3, SameMaps
    <3>4. With(z, old, prefix) = s.x
      <4> DEFINE w == With(z, old, prefix)
      <4>1. /\ IsMap(w) /\ DOMAIN w = DOMAIN z \cup {old} /\ w[old] = prefix
            /\ \A k \in DOMAIN z : k # old => w[k] = z[k]
        BY DEF With, IsMap
      <4> HIDE DEF w
      <4>2. DOMAIN w = DOMAIN s.x
        BY <2>1, <2>4, <2>5, <2>6, <3>2, <4>1
      <4>3. \A u \in DOMAIN s.x : w[u] = s.x[u]
        BY <2>1, <2>4, <2>5, <2>6, <3>2, <4>1
      <4>4. w = s.x
        BY <2>9, <4>1, <4>2, <4>3, SameMaps
      <4> QED BY <4>4 DEF w
    <3> QED BY <2>9, <3>1, <3>3, <3>4 DEF t
  <2> QED BY <2>10, <2>11 DEF t
<1> QED BY <1>1, <1>2

-----------------------------------------------------------------------------
(* The stack of definitions *)

(* The name spaces before an entry of the stack was pushed. *)
Before(s, r) == IF r.mark THEN s ELSE Redefined(s, r.prefix, r.url)

(* h[i] are the name spaces that were in force when i entries of the stack *)
(* q were there, and s are those in force now.                             *)
History(s, q, h) ==
  /\ h[Len(q)] = s
  /\ \A i \in 0..Len(q) : Good(h[i])
  /\ \A i \in 1..Len(q) : h[i - 1] = Before(h[i], q[i])

Traced(s, q) == IsSeq(q) /\ \E h : History(s, q, h)

IsPrinter(p) ==
  DOMAIN p = {"defaultNS", "attrNS", "attrPrefix", "prefixes", "tags", "seq"}

EncInv(p) == IsPrinter(p) /\ Traced(Spaces(p), p.prefixes)

\* The name spaces in force are good.
LEMMA TracedIsGood ==
  ASSUME NEW s, NEW q, Traced(s, q)
  PROVE  Good(s)
<1>1. PICK h : History(s, q, h)
  BY DEF Traced
<1>2. Len(q) \in 0..Len(q)
  BY DEF Traced, IsSeq
<1> QED BY <1>1, <1>2 DEF History

\* An entry more.
LEMMA HistoryPush ==
  ASSUME NEW s, NEW q, NEW h, IsSeq(q), History(s, q, h), NEW t, Good(t),
         NEW r, Before(t, r) = s
  PROVE  \E g : History(t, Append(q, r), g) /\ \A i \in 0..Len(q) : g[i] = h[i]
<1> DEFINE n == Len(q)
           e == Append(q, r)
           g == [i \in 0..(n + 1) |-> IF i = n + 1 THEN t ELSE h[i]]
<1>1. n \in Nat
  BY DEF IsSeq
<1>2. Len(e) = n + 1 /\ e[n + 1] = r /\ \A i \in 1..n : e[i] = q[i]
  BY AppendIsSeq
<1>3. g[n + 1] = t /\ \A i \in 0..n : g[i] = h[i]
  BY <1>1
<1> HIDE DEF e, g
<1>4. h[n] = s /\ (\A i \in 0..n : Good(h[i])) /\ \A i \in 1..n : h[i - 1] = Before(h[i], q[i])
  BY DEF History
<1> HIDE DEF n
<1>5. \A i \in 0..(n + 1) : Good(g[i])
  BY <1>1, <1>3, <1>4
<1>6. ASSUME NEW i \in 1..(n + 1)
      PROVE  g[i - 1] = Before(g[i], e[i])
  <2>1. CASE i = n + 1
    BY <1>1, <1>2, <1>3, <1>4, <2>1
  <2>2. CASE i # n + 1
    <3>1. i \in 1..n /\ i \in 0..n /\ i - 1 \in 0..n
      BY <1>1, <2>2
    <3> QED BY <1>2, <1>3, <1>4, <3>1
  <2> QED BY <2>1, <2>2
<1>7. History(t, e, g)
  BY <1>2, <1>3, <1>5, <1>6 DEF History
<1> QED BY <1>3, <1>7 DEF e, n

\* The entries at the bottom.
LEMMA TracedBottom ==
  ASSUME NEW s, NEW q, NEW h, IsSeq(q), History(s, q, h), NEW k \in 0..Len(q)
  PROVE  Traced(h[k], SubSeq(q, 1, k))
<1> DEFINE b == SubSeq(q, 1, k)
<1>1. Len(q) \in Nat /\ k \in Nat /\ k <= Len(q) /\ 1 <= k + 1 /\ 1 \in Nat \ {0}
  BY DEF IsSeq
<1>2. IsSeq(b) /\ Len(b) = k - 1 + 1 /\ \A i \in 1..(k - 1 + 1) : b[i] = q[1 + i - 1]
  BY <1>1, SubSeqIsSeq
<1> HIDE DEF b
<1>3. Len(b) = k /\ \A i \in 1..k : b[i] = q[i]
  BY <1>1, <1>2
<1>4. \A i \in 0..k : Good(h[i])
  BY <1>1 DEF History
<1>5. \A i \in 1..k : h[i - 1] = Before(h[i], b[i])
  BY <1>1, <1>3 DEF History
<1>6. History(h[k], b, h)
  BY <1>3, <1>4, <1>5 DEF History
<1> QED BY <1>2, <1>6 DEF Traced, b

\* setAttrPrefix redefines, and leaves the stacks alone.
LEMMA SetRedefines ==
  ASSUME NEW p, IsPrinter(p), NEW prefix, NEW url
  PROVE  LET q == SetAttrPrefix(p, prefix, url)
         IN  /\ IsPrinter(q) /\ Spaces(q) = Redefined(Spaces(p), prefix, url)
             /\ q.prefixes = p.prefixes /\ q.tags = p.tags /\ q.seq = p.seq
<1>1. NsForPrefix(p, prefix) = Standing(Spaces(p), prefix)
  BY DEF NsForPrefix, Standing, Spaces
<1>2. CASE prefix = ""
  BY <1>2 DEF SetAttrPrefix, IsPrinter, Spaces, Redefined
<1>3. CASE prefix # "" /\ url = ""
  BY <1>1, <1>3 DEF SetAttrPrefix, IsPrinter, Spaces, Redefined
<1>4. CASE prefix # "" /\ url # ""
  BY <1>1, <1>4 DEF SetAttrPrefix, IsPrinter, Spaces, Redefined
<1> QED BY <1>2, <1>3, <1>4

(* The entries above the last mark of q were pushed since the name spaces   *)
(* were t and the stack of definitions was u.                              *)
Atop(s, q, t, u) ==
  \E h, m : /\ History(s, q, h) /\ m \in 1..Len(q) /\ q[m].mark
            /\ \A i \in (m + 1)..Len(q) : ~q[i].mark
            /\ t = h[m] /\ u = SubSeq(q, 1, m - 1)

(* p is the printer in the start tag that makes b's tags the tags, or after *)
(* it: what it has defined in it can be undone, to give what b has.        *)
Inner(p, b, tags) ==
  /\ IsPrinter(p) /\ IsSeq(p.prefixes) /\ p.tags = tags
  /\ Atop(Spaces(p), p.prefixes, Spaces(b), b.prefixes)

\* Such a printer can undo all it has defined.
LEMMA InnerIsInv ==
  ASSUME NEW p, NEW b, NEW tags, Inner(p, b, tags)
  PROVE  EncInv(p)
BY DEF Inner, Atop, EncInv, Traced

\* A definition that the encoder makes can be undone.
LEMMA PushKeeps ==
  ASSUME NEW p, NEW b, NEW tags, Inner(p, b, tags),
         NEW prefix, NEW url, Fresh(Spaces(p), prefix, url)
  PROVE  /\ Inner(PushPrefix(p, prefix, url), b, tags)
         /\ Spaces(PushPrefix(p, prefix, url)) = Redefined(Spaces(p), prefix, url)
<1> DEFINE r == [prefix |-> prefix, url |-> NsForPrefix(p, prefix), mark |-> FALSE]
           e == Append(p.prefixes, r)
           a == [p EXCEPT !.prefixes = e]
           q == SetAttrPrefix(a, prefix, url)
           t == Redefined(Spaces(p), prefix, url)
           n == Len(p.prefixes)
<1>1. Good(Spaces(p))
  BY InnerIsInv, TracedIsGood DEF EncInv
<1>2. IsPrinter(a) /\ Spaces(a) = Spaces(p) /\ a.prefixes = e /\ a.tags = tags
  BY DEF Inner, IsPrinter, Spaces
<1>3. Good(t)
  BY <1>1, FreshKeepsGood
<1>4. Before(t, r) = Redefined(t, prefix, Standing(Spaces(p), prefix))
  BY DEF Before, NsForPrefix, Standing, Spaces
<1>5. PushPrefix(p, prefix, url) = q
  BY DEF PushPrefix
<1>6. r.mark = FALSE
  OBVIOUS
<1>7. IsSeq(p.prefixes) /\ n \in Nat
  BY DEF Inner, IsSeq
<1> HIDE DEF r
<1>8. IsSeq(e) /\ Len(e) = n + 1 /\ e[n + 1] = r /\ \A i \in 1..n : e[i] = p.prefixes[i]
  BY <1>7, AppendIsSeq
<1> HIDE DEF a
<1>9. IsPrinter(q) /\ Spaces(q) = t /\ q.prefixes = e /\ q.tags = tags
  BY <1>2, SetRedefines
<1> HIDE DEF q
<1>10. Before(t, r) = Spaces(p)
  BY <1>1, <1>4, FreshIsUndone
<1> HIDE DEF t
<1>11. PICK h, m : /\ History(Spaces(p), p.prefixes, h) /\ m \in 1..n /\ p.prefixes[m].mark
                   /\ \A i \in (m + 1)..n : ~p.prefixes[i].mark
                   /\ Spaces(b) = h[m] /\ b.prefixes = SubSeq(p.prefixes, 1, m - 1)
  BY DEF Inner, Atop
<1>12. PICK g : History(t, e, g) /\ \A i \in 0..n : g[i] = h[i]
  BY <1>3, <1>7, <1>10, <1>11, HistoryPush
<1>13. m \in 1..(n + 1) /\ e[m].mark /\ Spaces(b) = g[m]
  BY <1>7, <1>8, <1>11, <1>12
<1>14. ASSUME NEW i \in (m + 1)..(n + 1)
       PROVE  ~e[i].mark
  <2>1. CASE i = n + 1
    BY <1>6, <1>8, <2>1
  <2>2. CASE i # n + 1
    <3>1. i \in (m + 1)..n /\ i \in 1..n
      BY <1>7, <1>11, <2>2
    <3> QED BY <1>8, <1>11, <3>1
  <2> QED BY <2>1, <2>2
<1>15. b.prefixes = SubSeq(e, 1, m - 1)
  <2> DEFINE l == m - 1
             x == SubSeq(e, 1, l)
             y == SubSeq(p.prefixes, 1, l)
  <2>1. l \in Nat /\ l <= n /\ l <= n + 1 /\ 1 <= l + 1 /\ 1 \in Nat \ {0} /\ l - 1 + 1 = l
    BY <1>7, <1>11
  <2>2. IsSeq(x) /\ Len(x) = l - 1 + 1 /\ \A i \in 1..(l - 1 + 1) : x[i] = e[1 + i - 1]
    <3> HIDE DEF e, l
    <3> QED BY <1>8, <2>1, SubSeqIsSeq
  <2>3. IsSeq(y) /\ Len(y) = l - 1 + 1 /\ \A i \in 1..(l - 1 + 1) : y[i] = p.prefixes[1 + i - 1]
    <3> HIDE DEF l
    <3> QED BY <1>7, <2>1, SubSeqIsSeq
  <2> HIDE DEF e, x, y, l
  <2>4. Len(x) = l /\ Len(y) = l /\ \A i \in 1..l : x[i] = y[i]
    <3>1. ASSUME NEW i \in 1..l
          PROVE  x[i] = y[i]
      <4>1. i \in 1..(l - 1 + 1) /\ 1 + i - 1 = i /\ i \in 1..n
        BY <1>7, <2>1
      <4> QED BY <1>8, <2>2, <2>3, <4>1
    <3> QED BY <2>1, <2>2, <2>3, <3>1
  <2>5. x = y
    BY <2>2, <2>3, <2>4 DEF IsSeq
  <2> QED BY <1>11, <2>5 DEF x, y, l
<1> HIDE DEF e, n
<1>16. Atop(t, e, Spaces(b), b.prefixes)
  BY <1>8, <1>12, <1>13, <1>14, <1>15 DEF Atop
<1> QED BY <1>5, <1>8, <1>9, <1>16 DEF Inner, t

\* Marking the start of an element.
LEMMA MarkKeeps ==
  ASSUME NEW p, EncInv(p), NEW tags
  PROVE  LET q == [p EXCEPT !.tags = tags, !.prefixes = Append(@, Mark)]
         IN  Inner(q, p, tags) /\ Spaces(q) = Spaces(p)
<1> DEFINE e == Append(p.prefixes, Mark)
           q == [p EXCEPT !.tags = tags, !.prefixes = Append(@, Mark)]
           n == Len(p.prefixes)
<1>1. IsPrinter(q) /\ Spaces(q) = Spaces(p) /\ q.prefixes = e /\ q.tags = tags
  BY DEF EncInv, IsPrinter, Spaces
<1>2. Good(Spaces(p)) /\ Before(Spaces(p), Mark) = Spaces(p) /\ Mark.mark
  BY TracedIsGood DEF EncInv, Before, Mark
<1>3. IsSeq(p.prefixes) /\ n \in Nat
  BY DEF EncInv, Traced, IsSeq
<1>4. IsSeq(e) /\ Len(e) = n + 1 /\ e[n + 1] = Mark /\ \A i \in 1..n : e[i] = p.prefixes[i]
  BY <1>3, AppendIsSeq
<1>5. PICK h : History(Spaces(p), p.prefixes, h)
  BY DEF EncInv, Traced
<1>6. PICK g : History(Spaces(p), e, g) /\ \A i \in 0..n : g[i] = h[i]
  BY <1>2, <1>3, <1>5, HistoryPush
<1>7. p.prefixes = SubSeq(e, 1, n)
  <2> DEFINE x == SubSeq(e, 1, n)
  <2>1. n <= n + 1 /\ 1 <= n + 1 /\ 1 \in Nat \ {0} /\ n - 1 + 1 = n
    BY <1>3
  <2>2. IsSeq(x) /\ Len(x) = n - 1 + 1 /\ \A i \in 1..(n - 1 + 1) : x[i] = e[1 + i - 1]
    <3> HIDE DEF e, n
    <3> QED BY <1>3, <1>4, <2>1, SubSeqIsSeq
  <2> HIDE DEF e, x
  <2>3. Len(x) = n /\ \A i \in 1..n : x[i] = p.prefixes[i]
    <3>1. ASSUME NEW i \in 1..n
          PROVE  x[i] = p.prefixes[i]
      <4>1. i \in 1..(n - 1 + 1) /\ 1 + i - 1 = i
        BY <1>3, <2>1
      <4> QED BY <1>4, <2>2, <4>1
    <3> QED BY <2>1, <2>2, <3>1
  <2> QED BY <1>3, <2>2, <2>3 DEF IsSeq, x
<1>8. g[n + 1] = Spaces(p)
  BY <1>4, <1>6 DEF History
<1> HIDE DEF e, n
<1>9. Atop(Spaces(p), e, Spaces(p), p.prefixes)
  <2>1. n + 1 \in 1..Len(e) /\ e[n + 1].mark /\ (n + 1) - 1 = n
    BY <1>2, <1>3, <1>4
  <2>2. \A i \in (n + 1 + 1)..Len(e) : ~e[i].mark
    BY <1>3, <1>4
  <2> DEFINE m == n + 1
  <2>3. /\ History(Spaces(p), e, g) /\ m \in 1..Len(e) /\ e[m].mark
        /\ \A i \in (m + 1)..Len(e) : ~e[i].mark
        /\ Spaces(p) = g[m] /\ p.prefixes = SubSeq(e, 1, m - 1)
    BY <1>6, <1>7, <1>8, <2>1, <2>2
  <2> HIDE DEF m
  <2> QED BY <2>3 DEF Atop
<1> HIDE DEF q
<1>10. Inner(q, p, tags)
  BY <1>1, <1>4, <1>9 DEF Inner
<1> QED BY <1>1, <1>10 DEF q

\* The other fields do not matter.
LEMMA SeqKeeps ==
  ASSUME NEW p, NEW b, NEW tags, Inner(p, b, tags), NEW n
  PROVE  Inner([p EXCEPT !.seq = n], b, tags) /\ Spaces([p EXCEPT !.seq = n]) = Spaces(p)
<1> DEFINE q == [p EXCEPT !.seq = n]
<1>1. IsPrinter(q) /\ Spaces(q) = Spaces(p) /\ q.prefixes = p.prefixes /\ q.tags = tags
  BY DEF Inner, IsPrinter, Spaces
<1> HIDE DEF q
<1>2. Inner(q, b, tags)
  BY <1>1 DEF Inner
<1> QED BY <1>1, <1>2 DEF q

\* The stack of tags has no part in it.
LEMMA TagsKeep ==
  ASSUME NEW p, EncInv(p), NEW tags
  PROVE  EncInv([p EXCEPT !.tags = tags])
<1> DEFINE q == [p EXCEPT !.tags = tags]
<1>1. IsPrinter(q) /\ Spaces(q) = Spaces(p) /\ q.prefixes = p.prefixes
  BY DEF EncInv, IsPrinter, Spaces
<1> HIDE DEF q
<1>2. EncInv(q)
  BY <1>1 DEF EncInv
<1> QED BY <1>2 DEF q

\* defineNS for an xmlns attribute.
LEMMA DefineKeeps ==
  ASSUME NEW p, NEW b, NEW tags, Inner(p, b, tags), NEW decl, NEW bare
  PROVE  Inner(DefineNS(p, decl, bare), b, tags)
<1>1. CASE \/ decl.prefix = "" /\ decl.url = p.defaultNS
           \/ decl.prefix = "" /\ decl.url # "" /\ bare
           \/ decl.prefix # "" /\ decl.url = ""
           \/ decl.prefix # "" /\ decl.url \in DOMAIN p.attrPrefix
  BY <1>1 DEF DefineNS
<1>2. CASE ~(\/ decl.prefix = "" /\ decl.url = p.defaultNS
             \/ decl.prefix = "" /\ decl.url # "" /\ bare
             \/ decl.prefix # "" /\ decl.url = ""
             \/ decl.prefix # "" /\ decl.url \in DOMAIN p.attrPrefix)
  <2>1. Fresh(Spaces(p), decl.prefix, decl.url)
    BY <1>2 DEF Fresh, Spaces
  <2>2. DefineNS(p, decl, bare) = PushPrefix(p, decl.prefix, decl.url)
    BY <1>2 DEF DefineNS
  <2> QED BY <2>1, <2>2, PushKeeps
<1> QED BY <1>1, <1>2

\* createNSPrefix for the name of an element or of an attribute.
LEMMA CreateKeeps ==
  ASSUME NEW p, NEW b, NEW tags, Inner(p, b, tags), NEW url, NEW isAttr \in BOOLEAN
  PROVE  Inner(CreateNSPrefix(p, url, isAttr), b, tags)
<1>1. ASSUME url \notin DOMAIN p.attrPrefix, url # ""
      PROVE  Inner(CreatePrefix(p, url), b, tags)
  <2> DEFINE base == BasePrefix[url]
             free == {n \in (p.seq + 1)..(p.seq + 1 + Cardinality(DOMAIN p.attrNS)) :
                        Numbered(base, n) \notin DOMAIN p.attrNS}
             n == CHOOSE i \in free : \A j \in free : i <= j
             q == [p EXCEPT !.seq = n]
  <2>1. CreatePrefix(p, url) = IF base \notin DOMAIN p.attrNS THEN PushPrefix(p, base, url)
                               ELSE PushPrefix(q, Numbered(base, n), url)
    BY DEF CreatePrefix
  <2>2. Inner(q, b, tags) /\ Spaces(q) = Spaces(p)
    BY SeqKeeps
  <2> HIDE DEF q
  <2>3. \A k : Fresh(Spaces(p), k, url)
    BY <1>1 DEF Fresh, Spaces
  <2>4. Inner(PushPrefix(p, base, url), b, tags) /\ Inner(PushPrefix(q, Numbered(base, n), url), b, tags)
    <3> HIDE DEF base, n
    <3> QED BY <2>2, <2>3, PushKeeps
  <2> QED BY <2>1, <2>4
<1>2. Inner(PushPrefix(p, "", ""), b, tags)
  BY PushKeeps DEF Fresh
<1>3. \/ CreateNSPrefix(p, url, isAttr) = p
      \/ CreateNSPrefix(p, url, isAttr) = PushPrefix(p, "", "")
      \/ /\ CreateNSPrefix(p, url, isAttr) = CreatePrefix(p, url)
         /\ url \notin DOMAIN p.attrPrefix /\ url # ""
  BY DEF CreateNSPrefix
<1> QED BY <1>1, <1>2, <1>3

-----------------------------------------------------------------------------
(* Loops over the printer and over the decoder *)

(* The loops of writeStart and of popPrefix, then those of Token and of    *)
(* popElement.                                                             *)
Declarations(p, seq, bare) ==
  LET Declare(q, decl) == DefineNS(q, decl, bare)
  IN  Through(Declare, p, seq)

ImplyAttr(q, attr) == IF attr.space = "" THEN q ELSE CreateNSPrefix(q, attr.space, TRUE)

Implied(p, seq) ==
  LET Imply(q, attr) == IF attr.space = "" THEN q ELSE CreateNSPrefix(q, attr.space, TRUE)
  IN  Through(Imply, p, seq)

Undone(p, seq) == Through(UndoPrefix, p, seq)
Inside(d, seq) == Through(DeclareNs, d, seq)
Restored(ns, seq) == Through(UndoNs, ns, seq)

(* One turn of any of them. *)
Turn(q, e) ==
  IF e.do = "define" THEN DefineNS(q, e.of, e.bare)
  ELSE IF e.do = "imply" THEN ImplyAttr(q, e.of)
  ELSE IF e.do = "undo" THEN UndoPrefix(q, e.of)
  ELSE IF e.do = "declare" THEN DeclareNs(q, e.of)
  ELSE UndoNs(q, e.of)

Turns(p, n, es, f) == f = [i \in 0..n |-> IF i = 0 THEN p ELSE Turn(f[i - 1], es[i])]

\* A loop has its states, from the first to the last.
LEMMA TurnsExist ==
  ASSUME NEW p, NEW n \in Nat, NEW es
  PROVE  \E f : Turns(p, n, es, f)
<1> DEFINE Runs(k) == \E f : Turns(p, k, es, f)
           T == {k \in 0..n : Runs(k)}
<1>1. Runs(0)
  <2> DEFINE f == [i \in 0..0 |-> p]
  <2>1. f = [i \in 0..0 |-> IF i = 0 THEN p ELSE Turn(f[i - 1], es[i])]
    OBVIOUS
  <2> QED BY <2>1 DEF Turns
<1>2. ASSUME NEW k \in 1..n, Runs(k - 1)
      PROVE  Runs(k)
  <2>1. PICK f : f = [i \in 0..(k - 1) |-> IF i = 0 THEN p ELSE Turn(f[i - 1], es[i])]
    BY <1>2 DEF Turns
  <2> DEFINE v == Turn(f[k - 1], es[k])
             g == [i \in 0..k |-> IF i = k THEN v ELSE f[i]]
  <2>2. ASSUME NEW i \in 0..k
        PROVE  g[i] = IF i = 0 THEN p ELSE Turn(g[i - 1], es[i])
    <3>1. CASE i = k
      <4>1. k - 1 \in 0..k /\ k - 1 # k /\ k # 0
        OBVIOUS
      <4>2. g[k - 1] = f[k - 1]
        BY <4>1
      <4> QED BY <3>1, <4>1, <4>2
    <3>2. CASE i # k
      <4>1. i \in 0..(k - 1) /\ (i # 0 => i - 1 \in 0..k /\ i - 1 # k)
        BY <3>2
      <4>2. f[i] = IF i = 0 THEN p ELSE Turn(f[i - 1], es[i])
        BY <2>1, <4>1
      <4>3. g[i] = f[i] /\ (i # 0 => g[i - 1] = f[i - 1])
        BY <3>2, <4>1
      <4> QED BY <4>2, <4>3
    <3> QED BY <3>1, <3>2
  <2>3. DOMAIN g = 0..k /\ g = [i \in DOMAIN g |-> g[i]]
    OBVIOUS
  <2> HIDE DEF g
  <2>4. g = [i \in 0..k |-> IF i = 0 THEN p ELSE Turn(g[i - 1], es[i])]
    BY <2>2, <2>3
  <2> QED BY <2>4 DEF Turns
<1> HIDE DEF Runs
<1>3. 0 \in T /\ \A k \in 1..n : k - 1 \in T => k \in T
  BY <1>1, <1>2
<1>4. \A k \in 0..n : k \in T
  <2> HIDE DEF T
  <2> QED BY <1>3, UpTo
<1> QED BY <1>4 DEF Runs

DeclarationsStates(p, seq, bare, at) ==
  /\ at[0] = p /\ at[Len(seq)] = Declarations(p, seq, bare)
  /\ \A i \in 1..Len(seq) : at[i] = DefineNS(at[i - 1], seq[i], bare)

\* The states of the loop over the xmlns attributes.
LEMMA DeclarationsRun ==
  ASSUME NEW p, NEW seq, Len(seq) \in Nat, NEW bare
  PROVE  \E at : DeclarationsStates(p, seq, bare, at)
<1> DEFINE n == Len(seq)
           es == [i \in 1..n |-> [do |-> "define", of |-> seq[i], bare |-> bare]]
           at == CHOOSE f : f = [i \in 0..n |-> IF i = 0 THEN p ELSE DefineNS(f[i - 1], seq[i], bare)]
<1>1. ASSUME NEW i \in 1..n, NEW q
      PROVE  Turn(q, es[i]) = DefineNS(q, seq[i], bare)
  BY DEF Turn
<1>2. PICK f : f = [i \in 0..n |-> IF i = 0 THEN p ELSE Turn(f[i - 1], es[i])]
  <2>1. n \in Nat
    OBVIOUS
  <2> HIDE DEF es, n
  <2>2. \E f : Turns(p, n, es, f)
    BY <2>1, TurnsExist
  <2> QED BY <2>2 DEF Turns
<1>3. \E g : g = [i \in 0..n |-> IF i = 0 THEN p ELSE DefineNS(g[i - 1], seq[i], bare)]
  <2>1. ASSUME NEW i \in 0..n
        PROVE  f[i] = IF i = 0 THEN p ELSE DefineNS(f[i - 1], seq[i], bare)
    <3>1. i # 0 => i \in 1..n
      OBVIOUS
    <3>2. f[i] = IF i = 0 THEN p ELSE Turn(f[i - 1], es[i])
      BY <1>2
    <3> HIDE DEF es, n
    <3> QED BY <1>1, <3>1, <3>2
  <2>2. DOMAIN f = 0..n /\ f = [i \in DOMAIN f |-> f[i]]
    BY <1>2
  <2> HIDE DEF n
  <2>3. f = [i \in 0..n |-> IF i = 0 THEN p ELSE DefineNS(f[i - 1], seq[i], bare)]
    BY <2>1, <2>2
  <2> QED BY <2>3
<1>4. at = [i \in 0..n |-> IF i = 0 THEN p ELSE DefineNS(at[i - 1], seq[i], bare)]
  BY <1>3
<1>5. Declarations(p, seq, bare) = at[n]
  BY DEF Declarations, Through
<1> HIDE DEF at
<1>6. at[0] = p
  BY <1>4
<1>7. ASSUME NEW i \in 1..n
      PROVE  at[i] = DefineNS(at[i - 1], seq[i], bare)
  <2>1. i \in 0..n /\ i # 0
    OBVIOUS
  <2> QED BY <1>4, <2>1
<1> QED BY <1>5, <1>6, <1>7 DEF DeclarationsStates

ImpliedStates(p, seq, at) ==
  /\ at[0] = p /\ at[Len(seq)] = Implied(p, seq)
  /\ \A i \in 1..Len(seq) : at[i] = ImplyAttr(at[i - 1], seq[i])

\* The states of the loop over the other attributes.
LEMMA ImpliedRun ==
  ASSUME NEW p, NEW seq, Len(seq) \in Nat
  PROVE  \E at : ImpliedStates(p, seq, at)
<1> DEFINE n == Len(seq)
           es == [i \in 1..n |-> [do |-> "imply", of |-> seq[i]]]
           at == CHOOSE f : f = [i \in 0..n |-> IF i = 0 THEN p ELSE ImplyAttr(f[i - 1], seq[i])]
<1>1. ASSUME NEW i \in 1..n, NEW q
      PROVE  Turn(q, es[i]) = ImplyAttr(q, seq[i])
  BY DEF Turn
<1>2. PICK f : f = [i \in 0..n |-> IF i = 0 THEN p ELSE Turn(f[i - 1], es[i])]
  <2>1. n \in Nat
    OBVIOUS
  <2> HIDE DEF es, n
  <2>2. \E f : Turns(p, n, es, f)
    BY <2>1, TurnsExist
  <2> QED BY <2>2 DEF Turns
<1>3. \E g : g = [i \in 0..n |-> IF i = 0 THEN p ELSE ImplyAttr(g[i - 1], seq[i])]
  <2>1. ASSUME NEW i \in 0..n
        PROVE  f[i] = IF i = 0 THEN p ELSE ImplyAttr(f[i - 1], seq[i])
    <3>1. i # 0 => i \in 1..n
      OBVIOUS
    <3>2. f[i] = IF i = 0 THEN p ELSE Turn(f[i - 1], es[i])
      BY <1>2
    <3> HIDE DEF es, n
    <3> QED BY <1>1, <3>1, <3>2
  <2>2. DOMAIN f = 0..n /\ f = [i \in DOMAIN f |-> f[i]]
    BY <1>2
  <2> HIDE DEF n
  <2>3. f = [i \in 0..n |-> IF i = 0 THEN p ELSE ImplyAttr(f[i - 1], seq[i])]
    BY <2>1, <2>2
  <2> QED BY <2>3
<1>4. at = [i \in 0..n |-> IF i = 0 THEN p ELSE ImplyAttr(at[i - 1], seq[i])]
  BY <1>3
<1>5. Implied(p, seq) = at[n]
  BY DEF Implied, Through, ImplyAttr
<1> HIDE DEF at
<1>6. at[0] = p
  BY <1>4
<1>7. ASSUME NEW i \in 1..n
      PROVE  at[i] = ImplyAttr(at[i - 1], seq[i])
  <2>1. i \in 0..n /\ i # 0
    OBVIOUS
  <2> QED BY <1>4, <2>1
<1> QED BY <1>5, <1>6, <1>7 DEF ImpliedStates

UndoneStates(p, seq, at) ==
  /\ at[0] = p /\ at[Len(seq)] = Undone(p, seq)
  /\ \A i \in 1..Len(seq) : at[i] = UndoPrefix(at[i - 1], seq[i])

\* The states of the loop over the definitions to undo.
LEMMA UndoneRun ==
  ASSUME NEW p, NEW seq, Len(seq) \in Nat
  PROVE  \E at : UndoneStates(p, seq, at)
<1> DEFINE n == Len(seq)
           es == [i \in 1..n |-> [do |-> "undo", of |-> seq[i]]]
           at == CHOOSE f : f = [i \in 0..n |-> IF i = 0 THEN p ELSE UndoPrefix(f[i - 1], seq[i])]
<1>1. ASSUME NEW i \in 1..n, NEW q
      PROVE  Turn(q, es[i]) = UndoPrefix(q, seq[i])
  BY DEF Turn
<1>2. PICK f : f = [i \in 0..n |-> IF i = 0 THEN p ELSE Turn(f[i - 1], es[i])]
  <2>1. n \in Nat
    OBVIOUS
  <2> HIDE DEF es, n
  <2>2. \E f : Turns(p, n, es, f)
    BY <2>1, TurnsExist
  <2> QED BY <2>2 DEF Turns
<1>3. \E g : g = [i \in 0..n |-> IF i = 0 THEN p ELSE UndoPrefix(g[i - 1], seq[i])]
  <2>1. ASSUME NEW i \in 0..n
        PROVE  f[i] = IF i = 0 THEN p ELSE UndoPrefix(f[i - 1], seq[i])
    <3>1. i # 0 => i \in 1..n
      OBVIOUS
    <3>2. f[i] = IF i = 0 THEN p ELSE Turn(f[i - 1], es[i])
      BY <1>2
    <3> HIDE DEF es, n
    <3> QED BY <1>1, <3>1, <3>2
  <2>2. DOMAIN f = 0..n /\ f = [i \in DOMAIN f |-> f[i]]
    BY <1>2
  <2> HIDE DEF n
  <2>3. f = [i \in 0..n |-> IF i = 0 THEN p ELSE UndoPrefix(f[i - 1], seq[i])]
    BY <2>1, <2>2
  <2> QED BY <2>3
<1>4. at = [i \in 0..n |-> IF i = 0 THEN p ELSE UndoPrefix(at[i - 1], seq[i])]
  BY <1>3
<1>5. Undone(p, seq) = at[n]
  BY DEF Undone, Through
<1> HIDE DEF at
<1>6. at[0] = p
  BY <1>4
<1>7. ASSUME NEW i \in 1..n
      PROVE  at[i] = UndoPrefix(at[i - 1], seq[i])
  <2>1. i \in 0..n /\ i # 0
    OBVIOUS
  <2> QED BY <1>4, <2>1
<1> QED BY <1>5, <1>6, <1>7 DEF UndoneStates

\* Declaring what the tag declares.
LEMMA DeclarationsKeep ==
  ASSUME NEW p, NEW b, NEW tags, Inner(p, b, tags), NEW seq, Len(seq) \in Nat, NEW bare
  PROVE  Inner(Declarations(p, seq, bare), b, tags)
<1> DEFINE n == Len(seq)
<1>0. PICK at : DeclarationsStates(p, seq, bare, at)
  BY DeclarationsRun
<1>1. /\ at[0] = p /\ at[n] = Declarations(p, seq, bare)
      /\ \A i \in 1..n : at[i] = DefineNS(at[i - 1], seq[i], bare)
  BY <1>0 DEF DeclarationsStates
<1> DEFINE T == {i \in 0..n : Inner(at[i], b, tags)}
<1>2. n \in Nat /\ 0 \in T
  BY <1>1
<1> HIDE DEF n
<1>3. ASSUME NEW i \in 1..n, i - 1 \in T
      PROVE  i \in T
  <2>1. Inner(at[i - 1], b, tags) /\ i \in 0..n
    BY <1>3
  <2>2. Inner(at[i], b, tags)
    BY <1>1, <2>1, DefineKeeps
  <2> QED BY <2>1, <2>2
<1>4. \A i \in 0..n : i \in T
  <2> HIDE DEF T
  <2> QED BY <1>2, <1>3, UpTo
<1>5. n \in T
  <2> HIDE DEF T
  <2> QED BY <1>2, <1>4
<1> QED BY <1>1, <1>5

\* Declaring what the names of the attributes need.
LEMMA ImpliedKeep ==
  ASSUME NEW p, NEW b, NEW tags, Inner(p, b, tags), NEW seq, Len(seq) \in Nat
  PROVE  Inner(Implied(p, seq), b, tags)
<1> DEFINE n == Len(seq)
<1>0. PICK at : ImpliedStates(p, seq, at)
  BY ImpliedRun
<1>1. /\ at[0] = p /\ at[n] = Implied(p, seq)
      /\ \A i \in 1..n : at[i] = ImplyAttr(at[i - 1], seq[i])
  BY <1>0 DEF ImpliedStates
<1> DEFINE T == {i \in 0..n : Inner(at[i], b, tags)}
<1>2. n \in Nat /\ 0 \in T
  BY <1>1
<1> HIDE DEF n
<1>3. ASSUME NEW i \in 1..n, i - 1 \in T
      PROVE  i \in T
  <2>1. Inner(at[i - 1], b, tags) /\ i \in 0..n
    BY <1>3
  <2>2. Inner(at[i], b, tags)
    BY <1>1, <2>1, CreateKeeps DEF ImplyAttr
  <2> QED BY <2>1, <2>2
<1>4. \A i \in 0..n : i \in T
  <2> HIDE DEF T
  <2> QED BY <1>2, <1>3, UpTo
<1>5. n \in T
  <2> HIDE DEF T
  <2> QED BY <1>2, <1>4
<1> QED BY <1>1, <1>5

\* What SelectLastInSeq looks for.
LEMMA GreatestNumber ==
  ASSUME NEW n \in Nat, NEW I \in SUBSET (1..n)
  PROVE  LET m == IF I # {} THEN Max(I) ELSE 0
         IN  m \in 0..n /\ (m # 0 => m \in I) /\ \A i \in (m + 1)..n : i \notin I
<1> DEFINE m == IF I # {} THEN Max(I) ELSE 0
<1>1. CASE I = {}
  BY <1>1
<1>2. CASE I # {}
  <2> DEFINE J == {n - i : i \in I}
  <2>1. J \in SUBSET Nat /\ J # {}
    <3>1. \A i \in I : i \in 1..n
      OBVIOUS
    <3>2. \A i \in 1..n : n - i \in Nat
      OBVIOUS
    <3> QED BY <1>2, <3>1, <3>2
  <2>2. PICK y \in J : \A x \in J : y <= x
    <3> HIDE DEF J
    <3> QED BY <2>1, LeastNumber
  <2>3. PICK k \in I : y = n - k
    BY <2>2
  <2>4. \A i \in I : k >= i
    <3> SUFFICES ASSUME NEW i \in I
                 PROVE  k >= i
      OBVIOUS
    <3>1. n - i \in J
      OBVIOUS
    <3>2. y <= n - i
      BY <2>2, <3>1
    <3> QED BY <2>3, <3>2
  <2>5. Max(I) \in I /\ \A i \in I : Max(I) >= i
    BY <2>3, <2>4 DEF Max
  <2>6. m \in I /\ \A i \in I : m >= i
    BY <1>2, <2>5
  <2> HIDE DEF m
  <2>7. \A i \in (m + 1)..n : i \notin I
    BY <2>6
  <2>8. m \in 0..n
    BY <2>6
  <2> QED BY <2>6, <2>7, <2>8 DEF m
<1> QED BY <1>1, <1>2

\* The last entry of a stack that is a mark.
LEMMA LastMark ==
  ASSUME NEW q, IsSeq(q)
  PROVE  LET m == SelectLastInSeq(q, LAMBDA r : r.mark)
         IN  /\ m \in 0..Len(q) /\ (m # 0 => q[m].mark)
             /\ \A i \in (m + 1)..Len(q) : ~q[i].mark
<1> DEFINE n == Len(q)
           I == {i \in 1..n : q[i].mark}
           m == SelectLastInSeq(q, LAMBDA r : r.mark)
<1>1. n \in Nat /\ I \in SUBSET (1..n)
  BY DEF IsSeq
<1>2. m = IF I # {} THEN Max(I) ELSE 0
  BY DEF SelectLastInSeq
<1> HIDE DEF m
<1>3. m \in 0..n /\ (m # 0 => m \in I) /\ \A i \in (m + 1)..n : i \notin I
  <2> HIDE DEF I, n
  <2> QED BY <1>1, <1>2, GreatestNumber
<1>4. \A i \in (m + 1)..n : i \in 1..n
  BY <1>1, <1>3
<1> QED BY <1>3, <1>4 DEF m

\* The last frame that is no translation.
LEMMA LastNoNs ==
  ASSUME NEW q, NEW l \in Nat
  PROVE  LET m == SelectLastInSubSeq(q, 1, l, LAMBDA f : f.kind # "ns")
         IN  /\ m \in 0..l /\ (m # 0 => q[m].kind # "ns")
             /\ \A i \in (m + 1)..l : q[i].kind = "ns"
<1> DEFINE I == {i \in 1..l : q[i].kind # "ns"}
           m == SelectLastInSubSeq(q, 1, l, LAMBDA f : f.kind # "ns")
<1>1. I \in SUBSET (1..l)
  OBVIOUS
<1>2. m = IF I # {} THEN Max(I) ELSE 0
  BY DEF SelectLastInSubSeq
<1> HIDE DEF m
<1>3. m \in 0..l /\ (m # 0 => m \in I) /\ \A i \in (m + 1)..l : i \notin I
  <2> HIDE DEF I
  <2> QED BY <1>1, <1>2, GreatestNumber
<1>4. \A i \in (m + 1)..l : i \in 1..l
  BY <1>3
<1> QED BY <1>3, <1>4 DEF m

\* The definitions of the innermost element, the latest first.
LEMMA OwnAre ==
  ASSUME NEW p, IsSeq(p.prefixes)
  PROVE  \E m \in 0..Len(p.prefixes) :
           LET q == p.prefixes
               own == OwnPrefixes(p)
               n == Len(q) - m
           IN  /\ Len(own) = n /\ (m # 0 => q[m].mark)
               /\ \A i \in 1..n : /\ own[i] = q[(Len(q) - i) + 1]
                                  /\ ~q[(Len(q) - i) + 1].mark
<1> DEFINE q == p.prefixes
           m == SelectLastInSeq(q, LAMBDA r : r.mark)
           sub == SubSeq(q, m + 1, Len(q))
<1>1. /\ m \in 0..Len(q) /\ (m # 0 => q[m].mark)
      /\ \A i \in (m + 1)..Len(q) : ~q[i].mark
  BY LastMark
<1>2. OwnPrefixes(p) = Reverse(sub)
  BY DEF OwnPrefixes
<1>3. Len(q) \in Nat
  BY DEF IsSeq
<1> HIDE DEF m
<1>4. IsSeq(sub) /\ Len(sub) = Len(q) - (m + 1) + 1
      /\ \A i \in 1..(Len(q) - (m + 1) + 1) : sub[i] = q[(m + 1) + i - 1]
  <2>1. m + 1 \in Nat \ {0} /\ m + 1 <= Len(q) + 1 /\ Len(q) <= Len(q)
    BY <1>1, <1>3
  <2> QED BY <1>3, <2>1, SubSeqIsSeq
<1> HIDE DEF sub
<1>5. /\ Len(OwnPrefixes(p)) = Len(sub)
      /\ \A i \in 1..Len(sub) : OwnPrefixes(p)[i] = sub[Len(sub) - i + 1]
  BY <1>2, <1>4, ReverseIsSeq
<1> DEFINE n == Len(q) - m
<1>6. Len(sub) = n /\ n \in Nat
  BY <1>1, <1>3, <1>4
<1>7. ASSUME NEW i \in 1..n
      PROVE  OwnPrefixes(p)[i] = q[(Len(q) - i) + 1] /\ ~q[(Len(q) - i) + 1].mark
  <2>1. n - i + 1 \in 1..n /\ (m + 1) + (n - i + 1) - 1 = (Len(q) - i) + 1
        /\ (Len(q) - i) + 1 \in (m + 1)..Len(q)
    <3> DEFINE l == Len(q)
    <3>1. l \in Nat /\ m \in Nat /\ m <= l /\ i \in Nat /\ 1 <= i /\ i <= l - m
      BY <1>1, <1>3
    <3> HIDE DEF l
    <3>2. l - m - i + 1 \in 1..(l - m)
      BY <3>1
    <3>3. (m + 1) + (l - m - i + 1) - 1 = (l - i) + 1
      BY <3>1
    <3>4. (l - i) + 1 \in (m + 1)..l
      BY <3>1
    <3> QED BY <3>2, <3>3, <3>4 DEF l
  <2>2. n = Len(q) - (m + 1) + 1
    BY <1>1, <1>3
  <2>3. OwnPrefixes(p)[i] = sub[n - i + 1]
    BY <1>5, <1>6
  <2>4. sub[n - i + 1] = q[(m + 1) + (n - i + 1) - 1]
    BY <1>4, <2>1, <2>2
  <2> QED BY <1>1, <2>1, <2>3, <2>4
<1> QED BY <1>1, <1>5, <1>6, <1>7

\* An entry that is no mark is undone.
LEMMA UndoSteps ==
  ASSUME NEW p, IsPrinter(p), NEW r, ~r.mark
  PROVE  LET q == UndoPrefix(p, r)
         IN  /\ IsPrinter(q) /\ Spaces(q) = Before(Spaces(p), r)
             /\ q.prefixes = p.prefixes /\ q.tags = p.tags /\ q.seq = p.seq
BY SetRedefines DEF UndoPrefix, Before

\* The end of an element goes back to where its mark is.
LEMMA PopGoesBack ==
  ASSUME NEW p, IsPrinter(p), IsSeq(p.prefixes), NEW h, History(Spaces(p), p.prefixes, h)
  PROVE  \E m \in 0..Len(p.prefixes) :
           /\ (m # 0 => p.prefixes[m].mark) /\ \A i \in (m + 1)..Len(p.prefixes) : ~p.prefixes[i].mark
           /\ IsPrinter(PopPrefix(p)) /\ Spaces(PopPrefix(p)) = h[m]
           /\ PopPrefix(p).prefixes = SubSeq(p.prefixes, 1, m - 1) /\ PopPrefix(p).tags = p.tags
           /\ PopPrefix(p).seq = p.seq
<1> DEFINE q == p.prefixes
           l == Len(q)
           own == OwnPrefixes(p)
           n == Len(own)
           rest == SubSeq(q, 1, (l - n) - 1)
           a == [p EXCEPT !.prefixes = rest]
<1>1. IsSeq(q) /\ l \in Nat
  BY DEF IsSeq
<1>3. PICK m \in 0..l : /\ n = l - m /\ (m # 0 => q[m].mark)
                        /\ \A i \in 1..(l - m) : own[i] = q[(l - i) + 1] /\ ~q[(l - i) + 1].mark
  BY <1>1, OwnAre
<1>4. m \in Nat /\ m <= l /\ n \in Nat /\ l - n = m
  BY <1>1, <1>3
<1>5. PopPrefix(p) = Undone(a, own)
  BY DEF PopPrefix, Undone
<1>6. IsPrinter(a) /\ Spaces(a) = Spaces(p) /\ a.prefixes = rest /\ a.tags = p.tags /\ a.seq = p.seq
  BY DEF IsPrinter, Spaces
<1>7. h[l] = Spaces(p) /\ \A i \in 1..l : h[i - 1] = Before(h[i], q[i])
  BY DEF History
<1> HIDE DEF a, own
<1>8. PICK at : UndoneStates(a, own, at)
  BY <1>4, UndoneRun
<1>9. /\ at[0] = a /\ at[n] = PopPrefix(p)
      /\ \A i \in 1..n : at[i] = UndoPrefix(at[i - 1], own[i])
  BY <1>5, <1>8 DEF UndoneStates
<1> DEFINE Back(i) == /\ IsPrinter(at[i]) /\ Spaces(at[i]) = h[l - i]
                     /\ at[i].prefixes = rest /\ at[i].tags = p.tags /\ at[i].seq = p.seq
           T == {i \in 0..n : Back(i)}
<1> HIDE DEF n, l, rest, q
<1>10. Back(0)
  BY <1>1, <1>6, <1>7, <1>9
<1>11. ASSUME NEW i \in 1..n, Back(i - 1)
       PROVE  Back(i)
  <2>1. l - (i - 1) = (l - i) + 1 /\ (l - i) + 1 \in 1..l /\ ((l - i) + 1) - 1 = l - i /\ i \in 1..(l - m)
    BY <1>1, <1>4
  <2>2. own[i] = q[(l - i) + 1] /\ ~own[i].mark
    BY <1>3, <2>1
  <2>3. at[i] = UndoPrefix(at[i - 1], own[i])
    BY <1>9
  <2>4. /\ IsPrinter(at[i - 1]) /\ Spaces(at[i - 1]) = h[(l - i) + 1] /\ at[i - 1].prefixes = rest
        /\ at[i - 1].tags = p.tags /\ at[i - 1].seq = p.seq
    BY <1>11, <2>1
  <2>5. /\ IsPrinter(at[i]) /\ Spaces(at[i]) = Before(h[(l - i) + 1], own[i])
        /\ at[i].prefixes = rest /\ at[i].tags = p.tags /\ at[i].seq = p.seq
    BY <2>2, <2>3, <2>4, UndoSteps
  <2>6. h[l - i] = Before(h[(l - i) + 1], q[(l - i) + 1])
    BY <1>7, <2>1
  <2> QED BY <2>2, <2>5, <2>6
<1> HIDE DEF Back
<1>12. n \in T
  <2>1. 0 \in T /\ \A i \in 1..n : i - 1 \in T => i \in T
    BY <1>4, <1>10, <1>11
  <2> HIDE DEF T
  <2>2. \A i \in 0..n : i \in T
    BY <1>4, <2>1, UpTo
  <2> QED BY <1>4, <2>2
<1>13. /\ IsPrinter(PopPrefix(p)) /\ Spaces(PopPrefix(p)) = h[m]
       /\ PopPrefix(p).prefixes = rest /\ PopPrefix(p).tags = p.tags /\ PopPrefix(p).seq = p.seq
  <2>1. l - n = m
    BY <1>4
  <2> QED BY <1>9, <1>12, <2>1 DEF Back
<1>14. \A i \in (m + 1)..l : ~q[i].mark
  <2> SUFFICES ASSUME NEW i \in (m + 1)..l
               PROVE  ~q[i].mark
    OBVIOUS
  <2>1. (l - i) + 1 \in 1..(l - m) /\ (l - ((l - i) + 1)) + 1 = i
    BY <1>1, <1>4
  <2> QED BY <1>3, <2>1
<1>15. rest = SubSeq(q, 1, m - 1)
  BY <1>4 DEF rest
<1> QED BY <1>3, <1>13, <1>14, <1>15 DEF l, q

\* It takes back what its start tag declared.
LEMMA PopTakesBack ==
  ASSUME NEW p, NEW b, NEW tags, Inner(p, b, tags)
  PROVE  LET q == PopPrefix(p)
         IN  /\ IsPrinter(q) /\ Spaces(q) = Spaces(b) /\ q.prefixes = b.prefixes
             /\ q.tags = tags /\ q.seq = p.seq
<1> DEFINE l == Len(p.prefixes)
<1>1. PICK h, m : /\ History(Spaces(p), p.prefixes, h) /\ m \in 1..l /\ p.prefixes[m].mark
                  /\ \A i \in (m + 1)..l : ~p.prefixes[i].mark
                  /\ Spaces(b) = h[m] /\ b.prefixes = SubSeq(p.prefixes, 1, m - 1)
  BY DEF Inner, Atop
<1>2. IsPrinter(p) /\ IsSeq(p.prefixes) /\ l \in Nat /\ p.tags = tags
  BY DEF Inner, IsSeq
<1>3. PICK k \in 0..l :
        /\ (k # 0 => p.prefixes[k].mark) /\ \A i \in (k + 1)..l : ~p.prefixes[i].mark
        /\ IsPrinter(PopPrefix(p)) /\ Spaces(PopPrefix(p)) = h[k]
        /\ PopPrefix(p).prefixes = SubSeq(p.prefixes, 1, k - 1) /\ PopPrefix(p).tags = p.tags
        /\ PopPrefix(p).seq = p.seq
  BY <1>1, <1>2, PopGoesBack
<1> HIDE DEF l
<1>4. k = m
  <2>1. ~(k < m)
    <3>1. k < m => m \in (k + 1)..l
      BY <1>1, <1>2, <1>3
    <3> QED BY <1>1, <1>3, <3>1
  <2>2. ~(m < k)
    <3>1. m < k => k \in (m + 1)..l /\ k # 0
      BY <1>1, <1>2, <1>3
    <3> QED BY <1>1, <1>3, <3>1
  <2> QED BY <1>1, <1>2, <1>3, <2>1, <2>2
<1> QED BY <1>1, <1>2, <1>3, <1>4

\* And it leaves what came before it as it was.
LEMMA PopKeeps ==
  ASSUME NEW p, EncInv(p)
  PROVE  EncInv(PopPrefix(p))
<1> DEFINE q == p.prefixes
           l == Len(q)
<1>1. IsSeq(q) /\ l \in Nat /\ IsPrinter(p)
  BY DEF EncInv, Traced, IsSeq
<1>2. PICK h : History(Spaces(p), q, h)
  BY DEF EncInv, Traced
<1>3. PICK m \in 0..l :
        /\ (m # 0 => q[m].mark) /\ \A i \in (m + 1)..l : ~q[i].mark
        /\ IsPrinter(PopPrefix(p)) /\ Spaces(PopPrefix(p)) = h[m]
        /\ PopPrefix(p).prefixes = SubSeq(q, 1, m - 1) /\ PopPrefix(p).tags = p.tags
  BY <1>1, <1>2, PopGoesBack
<1>4. \A i \in 1..l : h[i - 1] = Before(h[i], q[i])
  BY <1>2 DEF History
<1> DEFINE rest == SubSeq(q, 1, m - 1)
<1> HIDE DEF l, q
<1>5. Traced(h[m], rest)
  <2>1. CASE m = 0
    <3>1. Traced(h[0], SubSeq(q, 1, 0))
      BY <1>1, <1>2, TracedBottom DEF l
    <3>2. SubSeq(q, 1, 0) = << >> /\ SubSeq(q, 1, 0 - 1) = << >>
      BY SubSeqEmpty
    <3> QED BY <2>1, <3>1, <3>2
  <2>2. CASE m # 0
    <3>1. m \in 1..l /\ m - 1 \in 0..l
      BY <1>1, <1>3, <2>2
    <3>2. h[m - 1] = h[m]
      BY <1>3, <1>4, <2>2, <3>1 DEF Before
    <3>3. Traced(h[m - 1], SubSeq(q, 1, m - 1))
      BY <1>1, <1>2, <3>1, TracedBottom DEF l
    <3> QED BY <3>2, <3>3
  <2> QED BY <2>1, <2>2
<1> QED BY <1>3, <1>5 DEF EncInv

-----------------------------------------------------------------------------
(* The tokens *)

IsStart(t) == Len(t.decls) \in Nat /\ Len(t.attrs) \in Nat

\* writeStart: what it defines can be undone.
LEMMA StartKeeps ==
  ASSUME NEW p, EncInv(p), NEW t, IsStart(t)
  PROVE  Inner(WriteStart(p, t).p, p, Append(p.tags, t.name))
<1> DEFINE tags == Append(p.tags, t.name)
           marked == [p EXCEPT !.tags = tags, !.prefixes = Append(@, Mark)]
           declared == Declarations(marked, t.decls, t.name.space = "")
           implied == Implied(declared, t.attrs)
           q == CreateNSPrefix(implied, t.name.space, FALSE)
<1>1. WriteStart(p, t).p = q
  BY DEF WriteStart, Declarations, Implied
<1> HIDE DEF tags
<1>2. Inner(marked, p, tags)
  BY MarkKeeps
<1> HIDE DEF marked
<1>3. Inner(declared, p, tags)
  BY <1>2, DeclarationsKeep DEF IsStart
<1> HIDE DEF declared
<1>4. Inner(implied, p, tags)
  BY <1>3, ImpliedKeep DEF IsStart
<1> HIDE DEF implied
<1>5. Inner(q, p, tags)
  BY <1>4, CreateKeeps
<1> QED BY <1>1, <1>5 DEF tags

\* Whatever token is written.
LEMMA EncodeKeeps ==
  ASSUME NEW p, EncInv(p), NEW t, t.kind = "start" => IsStart(t)
  PROVE  EncInv(EncodeToken(p, t).p)
<1>1. CASE t.kind = "start"
  <2>1. EncodeToken(p, t) = WriteStart(p, t)
    BY <1>1 DEF EncodeToken
  <2> QED BY <1>1, <2>1, StartKeeps, InnerIsInv
<1>2. CASE t.kind = "end"
  <2>1. EncodeToken(p, t) = WriteEnd(p, t.name)
    BY <1>2 DEF EncodeToken
  <2>2. CASE p.tags = << >> \/ t.name # Last(p.tags)
    BY <2>1, <2>2 DEF WriteEnd
  <2>3. CASE ~(p.tags = << >> \/ t.name # Last(p.tags))
    <3> DEFINE tags == Front(p.tags)
               q == [p EXCEPT !.tags = tags]
    <3>1. EncodeToken(p, t).p = PopPrefix(q)
      BY <2>1, <2>3 DEF WriteEnd
    <3>2. EncInv(q)
      <4> HIDE DEF tags
      <4> QED BY TagsKeep
    <3> HIDE DEF q
    <3> QED BY <3>1, <3>2, PopKeeps
  <2> QED BY <2>2, <2>3
<1>3. CASE t.kind # "start" /\ t.kind # "end"
  <2>1. EncodeToken(p, t) = [p |-> p, raw |-> t]
    BY <1>3 DEF EncodeToken
  <2> QED BY <2>1
<1> QED BY <1>1, <1>2, <1>3

\* What rawToken returns is the token it found, or it is no start tag.
LEMMA RawTokenIs ==
  ASSUME NEW d, NEW raw
  PROVE  LET r == RawToken(d, raw).raw
         IN  r = raw \/ (r.kind # "start" /\ r.kind \in {"end", "error"})
<1>1. CASE d.err # "none"
  <2>1. RawToken(d, raw) = [d |-> d, raw |-> Failed(d.err)]
    BY <1>1 DEF RawToken
  <2> QED BY <2>1 DEF Failed
<1>2. CASE d.err = "none" /\ d.toClose # << >>
  <2>1. RawToken(d, raw) = [d |-> [d EXCEPT !.toClose = << >>],
                            raw |-> RawEnd(d.toClose[1].prefix, d.toClose[1].local)]
    BY <1>2 DEF RawToken
  <2> QED BY <2>1 DEF RawEnd
<1>3. CASE d.err = "none" /\ d.toClose = << >>
  <2>1. CASE raw.kind = "eof"
    BY <1>3, <2>1 DEF RawToken, Failed
  <2>2. CASE raw.kind = "bad"
    BY <1>3, <2>2 DEF RawToken, Failed
  <2>3. CASE raw.kind = "start"
    BY <1>3, <2>3 DEF RawToken, RawStart
  <2>4. CASE raw.kind \notin {"eof", "bad", "start"}
    BY <1>3, <2>4 DEF RawToken
  <2> QED BY <2>1, <2>2, <2>3, <2>4
<1> QED BY <1>1, <1>2, <1>3

\* A start token has the attributes of a start tag.
LEMMA TokensStart ==
  ASSUME NEW d, NEW raw \in Raws, Token(d, raw).t.kind = "start"
  PROVE  IsStart(Token(d, raw).t)
<1> DEFINE r == RawToken(d, raw)
<1>1. r.raw = raw \/ (r.raw.kind # "start" /\ r.raw.kind \in {"end", "error"})
  BY RawTokenIs
<1> HIDE DEF r
<1>2. TopKind(d) # "eof"
  <2>1. TopKind(d) = "eof" => Token(d, raw) = [d |-> d, t |-> Failed("eof")]
    BY DEF Token
  <2> QED BY <2>1 DEF Failed
<1>3. r.raw.kind = "start"
  <2>1. CASE r.raw.kind = "end"
    <3>1. Token(d, raw) = EndToken(r.d, r.raw)
      BY <1>2, <2>1 DEF Token, r
    <3> QED BY <3>1 DEF EndToken, Failed
  <2>2. CASE r.raw.kind \notin {"start", "end"}
    <3>1. Token(d, raw) = [d |-> r.d, t |-> r.raw]
      BY <1>2, <2>2 DEF Token, r
    <3> QED BY <2>2, <3>1
  <2> QED BY <2>1, <2>2
<1>4. r.raw = raw /\ raw.kind = "start"
  BY <1>1, <1>3
<1>5. raw \in RawStarts
  BY <1>4, RawsAssumption DEF Raws, Text
<1>6. Len(raw.decls) \in Nat /\ raw.attrs \in Seq([prefix : STRING, local : STRING])
  BY <1>5, RawsAssumption
<1>7. Token(d, raw).t = StartToken(r.d, raw).t
  BY <1>2, <1>4 DEF Token, r
<1>8. Token(d, raw).t.decls = raw.decls
  BY <1>7 DEF StartToken
<1> DEFINE attrs == Token(d, raw).t.attrs
           ns == Inside(r.d, raw.decls).ns
<1>9. attrs = [i \in DOMAIN raw.attrs |-> [space |-> Translate(ns, raw.attrs[i].prefix, FALSE),
                                           local |-> raw.attrs[i].local]]
  <2>1. StartToken(r.d, raw).t =
          [kind |-> "start",
           name |-> [space |-> Translate(ns, raw.prefix, TRUE), local |-> raw.local],
           decls |-> raw.decls,
           attrs |-> [i \in DOMAIN raw.attrs |-> [space |-> Translate(ns, raw.attrs[i].prefix, FALSE),
                                                 local |-> raw.attrs[i].local]]]
    BY Zenon DEF StartToken, Inside
  <2> QED BY <1>7, <2>1
<1>10. DOMAIN raw.attrs = 1..Len(raw.attrs) /\ Len(raw.attrs) \in Nat
  BY <1>6
<1> HIDE DEF attrs
<1>11. Len(attrs) = Len(raw.attrs)
  BY <1>9, <1>10
<1> QED BY <1>6, <1>8, <1>10, <1>11 DEF IsStart, attrs

\* The encoder is a new one, or it takes the token, or nothing.
LEMMA EncoderSteps ==
  ASSUME NEW raw \in Raws, BetweenProps(raw) \/ InValue(raw)
  PROVE  enc' = enc \/ enc' = NewPrinter \/ enc' = EncodeToken(enc, Token(dec, raw).t).p
<1>1. CASE BetweenProps(raw)
  BY <1>1 DEF BetweenProps
<1>2. CASE InValue(raw)
  BY <1>2 DEF InValue
<1> QED BY <1>1, <1>2

\* A new encoder has no name spaces.
LEMMA NewKeeps == EncInv(NewPrinter)
<1> DEFINE s == Spaces(NewPrinter)
           q == NewPrinter.prefixes
           h == [i \in 0..0 |-> s]
<1>1. IsPrinter(NewPrinter) /\ q = << >> /\ s = [d |-> "", n |-> << >>, x |-> << >>]
  BY DEF IsPrinter, NewPrinter, Spaces
<1>2. DOMAIN << >> = {} /\ Len(<< >>) = 0 /\ 1..0 = {} /\ 0..0 = {0} /\ << >> \in Seq({})
  OBVIOUS
<1>3. IsSeq(<< >>)
  BY <1>2, SeqIsSeq
<1> HIDE DEF s, q
<1>4. Good(s)
  <2>1. IsMap(<< >>) /\ Into(<< >>, << >>)
    BY <1>2, <1>3 DEF IsSeq, IsMap, Into
  <2>2. s.d = "" /\ s.n = << >> /\ s.x = << >>
    BY <1>1
  <2> QED BY <1>1, <1>2, <2>1, <2>2 DEF Good
<1>5. h[0] = s
  OBVIOUS
<1> HIDE DEF h
<1>6. History(s, q, h)
  BY <1>1, <1>2, <1>4, <1>5 DEF History
<1> QED BY <1>1, <1>3, <1>6 DEF EncInv, Traced, s, q

-----------------------------------------------------------------------------
(* The encoder's stack of definitions takes it back to the name spaces     *)
(* that were in force before each of them.                                 *)
EncoderInvariant == EncInv(enc)

\* The encoder can always undo what it defined, whatever the document
\* declares and in whatever order its elements end.
THEOREM DefinitionsAreUndone == Spec => []EncoderInvariant
<1>1. Init => EncoderInvariant
  BY NewKeeps DEF Init, EncoderInvariant
<1>2. EncoderInvariant /\ [Next]_vars => EncoderInvariant'
  <2> SUFFICES ASSUME EncInv(enc), [Next]_vars
               PROVE  EncInv(enc')
    BY DEF EncoderInvariant
  <2>1. ASSUME NEW raw \in Raws, BetweenProps(raw) \/ InValue(raw)
        PROVE  EncInv(enc')
    <3> DEFINE t == Token(dec, raw).t
    <3>1. enc' = enc \/ enc' = NewPrinter \/ enc' = EncodeToken(enc, t).p
      BY <2>1, EncoderSteps
    <3>2. t.kind = "start" => IsStart(t)
      BY <2>1, TokensStart
    <3> HIDE DEF t
    <3>3. EncInv(EncodeToken(enc, t).p)
      BY <3>2, EncodeKeeps
    <3> QED BY <3>1, <3>3, NewKeeps
  <2>2. CASE UNCHANGED enc
    BY <2>2
  <2>3. (\E raw \in Raws : BetweenProps(raw) \/ InValue(raw)) \/ UNCHANGED enc
    BY DEF Next, Stopped, vars
  <2> QED BY <2>1, <2>2, <2>3
<1> QED BY <1>1, <1>2, PTL DEF Spec

\* The encoder's maps from prefix to URL and from URL to prefix are the
\* inverse of each other, for every document and however many prefixes the
\* encoder has to make up.
THEOREM MapsAreInverse == Spec => []PrefixesOneToOne
<1>1. EncoderInvariant => PrefixesOneToOne
  <2> SUFFICES ASSUME EncInv(enc)
               PROVE  PrefixesOneToOne
    BY DEF EncoderInvariant
  <2>1. Good(Spaces(enc)) /\ Spaces(enc).n = enc.attrNS /\ Spaces(enc).x = enc.attrPrefix
    BY TracedIsGood DEF EncInv, Spaces
  <2>2. Into(enc.attrNS, enc.attrPrefix) /\ Into(enc.attrPrefix, enc.attrNS)
    BY <2>1 DEF Good
  <2> QED BY <2>2 DEF PrefixesOneToOne, Into, Look
<1> QED BY <1>1, DefinitionsAreUndone, PTL

-----------------------------------------------------------------------------
(* The stack of the decoder *)

(* The xmlns attributes of the first k tags of sc. *)
Among(sc, k) == UNION {{<<i, j>> : j \in DOMAIN sc[i].decls} : i \in 1..k}
DeclIn(sc, a) == sc[a[1]].decls[a[2]]

(* ns has for each prefix what the last of the declarations A says. *)
Exact(ns, sc, A) ==
  /\ IsMap(ns)
  /\ DOMAIN ns = {DeclIn(sc, a).prefix : a \in A}
  /\ \A a \in A : (\A b \in A : LaterIn(b, a) => DeclIn(sc, b).prefix # DeclIn(sc, a).prefix) =>
                    ns[DeclIn(sc, a).prefix] = DeclIn(sc, a).url

(* The translations under a frame of the stack. *)
Under(ns, f) == IF f.kind = "ns" THEN UndoNs(ns, f) ELSE ns

(* c[i] is the number of elements among the lowest i frames of the stack,   *)
(* and g[i] are the translations in force at them.  Where no translation   *)
(* is on top they are those of the first c[i] tags of sc.                  *)
Layers(stk, ns, sc, k, c, g) ==
  /\ c[0] = 0 /\ c[Len(stk)] = k /\ g[Len(stk)] = ns
  /\ \A i \in 0..Len(stk) : c[i] \in Nat
  /\ \A i, j \in 0..Len(stk) : i <= j => c[i] <= c[j]
  /\ \A i \in 1..Len(stk) : c[i] = IF stk[i].kind = "start" THEN c[i - 1] + 1 ELSE c[i - 1]
  /\ \A i \in 1..Len(stk) : g[i - 1] = Under(g[i], stk[i])
  /\ \A i \in 0..Len(stk) :
       (i = 0 \/ stk[i].kind # "ns") => Exact(g[i], sc, Among(sc, c[i]))

Layered(stk, ns, sc, k) == IsSeq(stk) /\ \E c, g : Layers(stk, ns, sc, k, c, g)

\* A frame more.
LEMMA FramePush ==
  ASSUME NEW stk, NEW ns, NEW sc, NEW k, Layered(stk, ns, sc, k),
         NEW f, NEW new, Under(new, f) = ns,
         NEW n, n = IF f.kind = "start" THEN k + 1 ELSE k,
         f.kind # "ns" => Exact(new, sc, Among(sc, n))
  PROVE  Layered(Append(stk, f), new, sc, n)
<1>1. PICK c, g : Layers(stk, ns, sc, k, c, g)
  BY DEF Layered
<1> DEFINE l == Len(stk)
           t == Append(stk, f)
           e == [i \in 0..(l + 1) |-> IF i = l + 1 THEN n ELSE c[i]]
           h == [i \in 0..(l + 1) |-> IF i = l + 1 THEN new ELSE g[i]]
<1>2. IsSeq(stk) /\ l \in Nat
  BY DEF Layered, IsSeq
<1>3. IsSeq(t) /\ Len(t) = l + 1 /\ t[l + 1] = f /\ \A i \in 1..l : t[i] = stk[i]
  BY <1>2, AppendIsSeq
<1>4. /\ e[l + 1] = n /\ h[l + 1] = new
      /\ \A i \in 0..l : e[i] = c[i] /\ h[i] = g[i]
  BY <1>2
<1>5. /\ c[0] = 0 /\ c[l] = k /\ g[l] = ns
      /\ \A i \in 0..l : c[i] \in Nat
      /\ \A i, j \in 0..l : i <= j => c[i] <= c[j]
  BY <1>1 DEF Layers
<1>6. /\ \A i \in 1..l : c[i] = IF stk[i].kind = "start" THEN c[i - 1] + 1 ELSE c[i - 1]
      /\ \A i \in 1..l : g[i - 1] = Under(g[i], stk[i])
      /\ \A i \in 0..l : (i = 0 \/ stk[i].kind # "ns") => Exact(g[i], sc, Among(sc, c[i]))
  BY <1>1 DEF Layers
<1> HIDE DEF l, t, e, h
<1>7. k \in Nat /\ n \in Nat /\ k <= n /\ l \in 0..l /\ (l + 1) - 1 = l
  BY <1>2, <1>5
<1>8. ASSUME NEW i \in 0..(l + 1)
      PROVE  /\ e[i] \in Nat
             /\ (i = 0 \/ t[i].kind # "ns") => Exact(h[i], sc, Among(sc, e[i]))
  <2>1. CASE i = l + 1
    <3>1. i # 0
      BY <1>2, <2>1
    <3> QED BY <1>3, <1>4, <1>7, <2>1, <3>1
  <2>2. CASE i # l + 1
    <3>1. i \in 0..l /\ (i # 0 => i \in 1..l)
      BY <1>2, <2>2
    <3> QED BY <1>3, <1>4, <1>5, <1>6, <3>1
  <2> QED BY <2>1, <2>2
<1>9. ASSUME NEW i \in 1..(l + 1)
      PROVE  /\ e[i] = IF t[i].kind = "start" THEN e[i - 1] + 1 ELSE e[i - 1]
             /\ h[i - 1] = Under(h[i], t[i])
  <2>1. CASE i = l + 1
    BY <1>3, <1>4, <1>5, <1>7, <2>1
  <2>2. CASE i # l + 1
    <3>1. i \in 1..l /\ i \in 0..l /\ i - 1 \in 0..l
      BY <1>2, <2>2
    <3> QED BY <1>3, <1>4, <1>6, <3>1
  <2> QED BY <2>1, <2>2
<1>10. ASSUME NEW i \in 0..(l + 1), NEW j \in 0..(l + 1), i <= j
       PROVE  e[i] <= e[j]
  <2>1. CASE i = l + 1
    <3>1. j = l + 1
      BY <1>2, <1>10, <2>1
    <3> QED BY <1>4, <1>7, <2>1, <3>1
  <2>2. CASE i # l + 1
    <3>1. i \in 0..l /\ i <= l
      BY <1>2, <2>2
    <3>2. e[i] = c[i] /\ c[i] <= k /\ c[i] \in Nat
      BY <1>4, <1>5, <1>7, <3>1
    <3>3. CASE j = l + 1
      BY <1>4, <1>7, <3>2, <3>3
    <3>4. CASE j # l + 1
      <4>1. j \in 0..l
        BY <1>2, <3>4
      <4> QED BY <1>4, <1>5, <1>10, <3>1, <4>1
    <3> QED BY <3>3, <3>4
  <2> QED BY <2>1, <2>2
<1>11. 0 \in 0..l
  BY <1>2
<1>12. Layers(t, new, sc, n, e, h)
  BY <1>3, <1>4, <1>5, <1>8, <1>9, <1>10, <1>11 DEF Layers
<1> QED BY <1>3, <1>12 DEF Layered, t

\* The lowest frames.
LEMMA FrameCut ==
  ASSUME NEW stk, NEW ns, NEW sc, NEW k, NEW c, NEW g, IsSeq(stk),
         Layers(stk, ns, sc, k, c, g), NEW m \in 0..Len(stk)
  PROVE  Layered(SubSeq(stk, 1, m), g[m], sc, c[m])
<1> DEFINE l == Len(stk)
           t == SubSeq(stk, 1, m)
<1>1. l \in Nat /\ m \in Nat /\ m <= l /\ 1 <= m + 1 /\ 1 \in Nat \ {0}
  BY DEF IsSeq
<1>2. IsSeq(t) /\ Len(t) = m - 1 + 1 /\ \A i \in 1..(m - 1 + 1) : t[i] = stk[1 + i - 1]
  BY <1>1, SubSeqIsSeq
<1> HIDE DEF t
<1>3. Len(t) = m /\ \A i \in 1..m : t[i] = stk[i]
  BY <1>1, <1>2
<1>4. /\ c[0] = 0
      /\ \A i \in 0..l : c[i] \in Nat
      /\ \A i, j \in 0..l : i <= j => c[i] <= c[j]
  BY DEF Layers
<1>5. /\ \A i \in 1..l : c[i] = IF stk[i].kind = "start" THEN c[i - 1] + 1 ELSE c[i - 1]
      /\ \A i \in 1..l : g[i - 1] = Under(g[i], stk[i])
      /\ \A i \in 0..l : (i = 0 \/ stk[i].kind # "ns") => Exact(g[i], sc, Among(sc, c[i]))
  BY DEF Layers
<1> HIDE DEF l
<1>6. (\A i \in 0..m : i \in 0..l) /\ (\A i \in 1..m : i \in 1..l)
  BY <1>1
<1>7. \A i \in 1..m : c[i] = IF t[i].kind = "start" THEN c[i - 1] + 1 ELSE c[i - 1]
  BY <1>3, <1>5, <1>6
<1>8. \A i \in 1..m : g[i - 1] = Under(g[i], t[i])
  BY <1>3, <1>5, <1>6
<1>9. ASSUME NEW i \in 0..m, i = 0 \/ t[i].kind # "ns"
      PROVE  Exact(g[i], sc, Among(sc, c[i]))
  <2>1. i = 0 \/ (i \in 1..m /\ stk[i].kind # "ns")
    BY <1>1, <1>3, <1>9
  <2> QED BY <1>5, <1>6, <2>1
<1>10. Layers(t, g[m], sc, c[m], c, g)
  BY <1>3, <1>4, <1>6, <1>7, <1>8, <1>9 DEF Layers
<1> QED BY <1>2, <1>10 DEF Layered, t

\* A frame that is neither an element nor a translation, under the translations
\* of an element.
LEMMA FrameInsert ==
  ASSUME NEW stk, NEW ns, NEW sc, NEW k, Layered(stk, ns, sc, k),
         NEW b \in 0..Len(stk), b = 0 \/ stk[b].kind # "ns"
  PROVE  LET t == InsertAt(stk, b + 1, EOFFrame)
         IN  /\ Layered(t, ns, sc, k) /\ Len(t) = Len(stk) + 1
             /\ \A i \in 1..(Len(stk) + 1) :
                  t[i] = IF i <= b THEN stk[i] ELSE IF i = b + 1 THEN EOFFrame ELSE stk[i - 1]
<1>1. PICK c, g : Layers(stk, ns, sc, k, c, g)
  BY DEF Layered
<1> DEFINE l == Len(stk)
           t == InsertAt(stk, b + 1, EOFFrame)
           e == [i \in 0..(l + 1) |-> IF i <= b THEN c[i] ELSE c[i - 1]]
           h == [i \in 0..(l + 1) |-> IF i <= b THEN g[i] ELSE g[i - 1]]
<1>2. IsSeq(stk) /\ l \in Nat /\ b \in Nat /\ b <= l
  BY DEF Layered, IsSeq
<1>3. /\ IsSeq(t) /\ Len(t) = l + 1
      /\ \A i \in 1..(l + 1) :
           t[i] = IF i <= b THEN stk[i] ELSE IF i = b + 1 THEN EOFFrame ELSE stk[i - 1]
  <2> DEFINE S == {stk[i] : i \in 1..l} \cup {EOFFrame}
             low == SubSeq(stk, 1, (b + 1) - 1)
             high == SubSeq(stk, b + 1, l)
  <2>1. stk \in Seq(S) /\ EOFFrame \in S
    BY <1>2, IsSeqOverItself
  <2> HIDE DEF S
  <2>2. low \in Seq(S) /\ Len(low) = b /\ \A i \in 1..b : low[i] = stk[i]
    <3>1. (b + 1) - 1 = b /\ 1 <= b + 1 /\ 1 \in Nat \ {0}
      BY <1>2
    <3>2. IsSeq(low) /\ Len(low) = b - 1 + 1 /\ \A i \in 1..(b - 1 + 1) : low[i] = stk[1 + i - 1]
      BY <1>2, <3>1, SubSeqIsSeq
    <3> HIDE DEF low
    <3>3. Len(low) = b /\ \A i \in 1..b : low[i] = stk[i]
      BY <1>2, <3>2
    <3>4. \A i \in 1..b : stk[i] \in S
      BY <1>2, <2>1
    <3> QED BY <3>2, <3>3, <3>4, IsSeqOverItself
  <2>3. high \in Seq(S) /\ Len(high) = l - b /\ \A i \in 1..(l - b) : high[i] = stk[b + i]
    <3>1. b + 1 \in Nat \ {0} /\ b + 1 <= l + 1 /\ l <= l
      BY <1>2
    <3>2. IsSeq(high) /\ Len(high) = l - (b + 1) + 1
          /\ \A i \in 1..(l - (b + 1) + 1) : high[i] = stk[(b + 1) + i - 1]
      BY <1>2, <3>1, SubSeqIsSeq
    <3> HIDE DEF high
    <3>3. Len(high) = l - b /\ \A i \in 1..(l - b) : high[i] = stk[b + i]
      BY <1>2, <3>2
    <3>4. \A i \in 1..(l - b) : stk[b + i] \in S
      BY <1>2, <2>1
    <3> QED BY <3>2, <3>3, <3>4, IsSeqOverItself
  <2>4. t = (low \o <<EOFFrame>>) \o high
    BY DEF InsertAt
  <2> HIDE DEF low, high, t
  <2> DEFINE lower == low \o <<EOFFrame>>
  <2>5. /\ lower \in Seq(S) /\ Len(lower) = b + 1
        /\ \A i \in 1..(b + 1) : lower[i] = IF i <= b THEN low[i] ELSE EOFFrame
    <3>1. <<EOFFrame>> \in Seq(S) /\ Len(<<EOFFrame>>) = 1 /\ <<EOFFrame>>[1] = EOFFrame
      BY <2>1
    <3>2. \A i \in 1..(b + 1) : ~(i <= b) => i - b = 1
      BY <1>2
    <3> QED BY <2>2, <3>1, <3>2, ConcatProperties
  <2> HIDE DEF lower
  <2>6. /\ t \in Seq(S) /\ Len(t) = l + 1
        /\ \A i \in 1..(l + 1) : t[i] = IF i <= b + 1 THEN lower[i] ELSE high[i - (b + 1)]
    <3>1. (b + 1) + (l - b) = l + 1
      BY <1>2
    <3> QED BY <2>3, <2>4, <2>5, <3>1, ConcatProperties DEF lower
  <2>7. ASSUME NEW i \in 1..(l + 1)
        PROVE  t[i] = IF i <= b THEN stk[i] ELSE IF i = b + 1 THEN EOFFrame ELSE stk[i - 1]
    <3>1. CASE i <= b + 1
      <4>1. i \in 1..(b + 1) /\ (i <= b => i \in 1..b) /\ (~(i <= b) => i = b + 1)
        BY <1>2, <3>1
      <4> QED BY <2>2, <2>5, <2>6, <3>1, <4>1
    <3>2. CASE ~(i <= b + 1)
      <4>1. i - (b + 1) \in 1..(l - b) /\ b + (i - (b + 1)) = i - 1 /\ ~(i <= b) /\ i # b + 1
        BY <1>2, <3>2
      <4> QED BY <2>3, <2>6, <3>2, <4>1
    <3> QED BY <3>1, <3>2
  <2>8. IsSeq(t)
    BY <2>6, SeqIsSeq
  <2> QED BY <2>6, <2>7, <2>8
<1>4. /\ \A i \in 0..(l + 1) : i <= b => e[i] = c[i] /\ h[i] = g[i]
      /\ \A i \in 0..(l + 1) : ~(i <= b) => e[i] = c[i - 1] /\ h[i] = g[i - 1]
  OBVIOUS
<1>5. /\ c[0] = 0 /\ c[l] = k /\ g[l] = ns
      /\ \A i \in 0..l : c[i] \in Nat
      /\ \A i, j \in 0..l : i <= j => c[i] <= c[j]
  BY <1>1 DEF Layers
<1>6. /\ \A i \in 1..l : c[i] = IF stk[i].kind = "start" THEN c[i - 1] + 1 ELSE c[i - 1]
      /\ \A i \in 1..l : g[i - 1] = Under(g[i], stk[i])
      /\ \A i \in 0..l : (i = 0 \/ stk[i].kind # "ns") => Exact(g[i], sc, Among(sc, c[i]))
  BY <1>1 DEF Layers
<1>7. EOFFrame.kind # "start" /\ EOFFrame.kind # "ns"
  BY DEF EOFFrame
<1> HIDE DEF l, t, e, h
<1>8. ASSUME NEW i \in 0..(l + 1)
      PROVE  /\ e[i] \in Nat
             /\ (i = 0 \/ t[i].kind # "ns") => Exact(h[i], sc, Among(sc, e[i]))
  <2>1. CASE i <= b
    <3>1. i \in 0..l /\ (i # 0 => i \in 1..(l + 1))
      BY <1>2, <2>1
    <3> QED BY <1>3, <1>4, <1>5, <1>6, <2>1, <3>1
  <2>2. CASE i = b + 1
    <3>1. ~(i <= b) /\ i - 1 = b /\ b \in 0..l
      BY <1>2, <2>2
    <3> QED BY <1>4, <1>5, <1>6, <3>1
  <2>3. CASE ~(i <= b) /\ i # b + 1
    <3>1. i \in 1..(l + 1) /\ i - 1 \in 0..l /\ i # 0
      BY <1>2, <2>3
    <3> QED BY <1>3, <1>4, <1>5, <1>6, <2>3, <3>1
  <2> QED BY <2>1, <2>2, <2>3
<1>9. ASSUME NEW i \in 1..(l + 1)
      PROVE  /\ e[i] = IF t[i].kind = "start" THEN e[i - 1] + 1 ELSE e[i - 1]
             /\ h[i - 1] = Under(h[i], t[i])
  <2>1. CASE i <= b
    <3>1. i \in 1..l /\ i \in 0..(l + 1) /\ i - 1 \in 0..(l + 1) /\ i - 1 <= b
      BY <1>2, <2>1
    <3> QED BY <1>3, <1>4, <1>6, <2>1, <3>1
  <2>2. CASE i = b + 1
    <3>1. ~(i <= b) /\ i - 1 = b /\ i \in 0..(l + 1) /\ i - 1 \in 0..(l + 1) /\ i - 1 <= b
      BY <1>2, <2>2
    <3>2. t[i] = EOFFrame
      BY <1>3, <2>2, <3>1
    <3>3. e[i] = c[b] /\ h[i] = g[b] /\ e[i - 1] = c[b] /\ h[i - 1] = g[b]
      BY <1>4, <3>1
    <3> QED BY <1>7, <3>2, <3>3 DEF Under
  <2>3. CASE ~(i <= b) /\ i # b + 1
    <3>1. /\ i - 1 \in 1..l /\ i \in 0..(l + 1) /\ i - 1 \in 0..(l + 1) /\ ~(i - 1 <= b)
      BY <1>2, <2>3
    <3>2. t[i] = stk[i - 1] /\ e[i] = c[i - 1] /\ h[i] = g[i - 1]
      BY <1>3, <1>4, <2>3, <3>1
    <3>3. e[i - 1] = c[(i - 1) - 1] /\ h[i - 1] = g[(i - 1) - 1]
      BY <1>4, <3>1
    <3> QED BY <1>6, <3>1, <3>2, <3>3
  <2> QED BY <2>1, <2>2, <2>3
<1>10. ASSUME NEW i \in 0..(l + 1), NEW j \in 0..(l + 1), i <= j
       PROVE  e[i] <= e[j]
  <2>1. PICK x \in 0..l : e[i] = c[x] /\ (IF i <= b THEN x = i ELSE x = i - 1)
    <3>1. IF i <= b THEN i \in 0..l ELSE i - 1 \in 0..l
      BY <1>2
    <3> QED BY <1>4, <3>1
  <2>2. PICK y \in 0..l : e[j] = c[y] /\ (IF j <= b THEN y = j ELSE y = j - 1)
    <3>1. IF j <= b THEN j \in 0..l ELSE j - 1 \in 0..l
      BY <1>2
    <3> QED BY <1>4, <3>1
  <2>3. x <= y
    BY <1>2, <1>10, <2>1, <2>2
  <2> QED BY <1>5, <2>1, <2>2, <2>3
<1>11. e[0] = 0 /\ e[l + 1] = k /\ h[l + 1] = ns
  <2>1. 0 \in 0..(l + 1) /\ 0 <= b /\ l + 1 \in 0..(l + 1) /\ ~(l + 1 <= b) /\ (l + 1) - 1 = l
    BY <1>2
  <2> QED BY <1>4, <1>5, <2>1
<1>12. Layers(t, ns, sc, k, e, h)
  BY <1>3, <1>8, <1>9, <1>10, <1>11 DEF Layers
<1> QED BY <1>3, <1>12 DEF Layered, t, l

\* Tags with the same declarations up to the k-th say the same.
LEMMA ExactSame ==
  ASSUME NEW ns, NEW sc, NEW sd, NEW k \in Nat, \A i \in 1..k : sc[i] = sd[i],
         Exact(ns, sc, Among(sc, k))
  PROVE  Exact(ns, sd, Among(sd, k))
<1>1. Among(sc, k) = Among(sd, k)
  BY DEF Among
<1>2. ASSUME NEW a \in Among(sc, k)
      PROVE  DeclIn(sc, a) = DeclIn(sd, a)
  <2>1. PICK i \in 1..k : a \in {<<i, j>> : j \in DOMAIN sc[i].decls}
    BY DEF Among
  <2>2. a[1] = i
    BY <2>1
  <2> QED BY <2>2 DEF DeclIn
<1> DEFINE A == Among(sc, k)
<1> HIDE DEF A
<1>3. /\ IsMap(ns)
      /\ DOMAIN ns = {DeclIn(sc, a).prefix : a \in A}
      /\ \A a \in A : (\A b \in A : LaterIn(b, a) => DeclIn(sc, b).prefix # DeclIn(sc, a).prefix) =>
                        ns[DeclIn(sc, a).prefix] = DeclIn(sc, a).url
  BY DEF Exact, A
<1>4. \A a \in A : DeclIn(sc, a) = DeclIn(sd, a)
  BY <1>2 DEF A
<1>5. {DeclIn(sc, a).prefix : a \in A} = {DeclIn(sd, a).prefix : a \in A}
  BY <1>4
<1>6. \A a \in A : (\A b \in A : LaterIn(b, a) => DeclIn(sd, b).prefix # DeclIn(sd, a).prefix) =>
                     ns[DeclIn(sd, a).prefix] = DeclIn(sd, a).url
  BY <1>3, <1>4
<1>7. Exact(ns, sd, A)
  BY <1>3, <1>5, <1>6 DEF Exact
<1> QED BY <1>1, <1>7 DEF A

\* The layers of k elements are those of the first k tags.
LEMMA LayeredSame ==
  ASSUME NEW stk, NEW ns, NEW sc, NEW sd, NEW k, Layered(stk, ns, sc, k),
         \A i \in 1..k : sc[i] = sd[i]
  PROVE  Layered(stk, ns, sd, k)
<1>1. PICK c, g : Layers(stk, ns, sc, k, c, g)
  BY DEF Layered
<1>2. IsSeq(stk) /\ Len(stk) \in Nat
  BY DEF Layered, IsSeq
<1>3. \A i \in 0..Len(stk) : c[i] \in Nat /\ c[i] <= k
  <2>1. \A i \in 0..Len(stk) : i <= Len(stk) /\ Len(stk) \in 0..Len(stk)
    BY <1>2
  <2> QED BY <1>1, <2>1 DEF Layers
<1>4. k \in Nat
  <2>1. Len(stk) \in 0..Len(stk)
    BY <1>2
  <2> QED BY <1>1, <2>1 DEF Layers
<1>5. ASSUME NEW i \in 0..Len(stk), i = 0 \/ stk[i].kind # "ns"
      PROVE  Exact(g[i], sd, Among(sd, c[i]))
  <2>1. Exact(g[i], sc, Among(sc, c[i]))
    BY <1>1, <1>5 DEF Layers
  <2>2. \A x \in 1..c[i] : x \in 1..k
    BY <1>3, <1>4
  <2> QED BY <1>3, <2>1, <2>2, ExactSame
<1>6. Layers(stk, ns, sd, k, c, g)
  BY <1>1, <1>5 DEF Layers
<1> QED BY <1>2, <1>6 DEF Layered

\* A declaration that is later than the others.
LEMMA ExactMore ==
  ASSUME NEW ns, NEW sc, NEW A, Exact(ns, sc, A), NEW a,
         \A b \in A : LaterIn(a, b) /\ ~LaterIn(b, a), ~LaterIn(a, a)
  PROVE  Exact(With(ns, DeclIn(sc, a).prefix, DeclIn(sc, a).url), sc, A \cup {a})
<1> DEFINE prefix == DeclIn(sc, a).prefix
           url == DeclIn(sc, a).url
           new == With(ns, prefix, url)
<1>1. /\ IsMap(new) /\ DOMAIN new = DOMAIN ns \cup {prefix} /\ new[prefix] = url
      /\ \A x \in DOMAIN ns : x # prefix => new[x] = ns[x]
  BY DEF With, IsMap
<1> HIDE DEF new
<1>2. /\ DOMAIN ns = {DeclIn(sc, b).prefix : b \in A}
      /\ \A x \in A : (\A b \in A : LaterIn(b, x) => DeclIn(sc, b).prefix # DeclIn(sc, x).prefix) =>
                        ns[DeclIn(sc, x).prefix] = DeclIn(sc, x).url
  BY DEF Exact
<1>3. DOMAIN new = {DeclIn(sc, b).prefix : b \in A \cup {a}}
  BY <1>1, <1>2
<1>4. ASSUME NEW x \in A \cup {a},
             \A b \in A \cup {a} : LaterIn(b, x) => DeclIn(sc, b).prefix # DeclIn(sc, x).prefix
      PROVE  new[DeclIn(sc, x).prefix] = DeclIn(sc, x).url
  <2>1. CASE x = a
    BY <1>1, <2>1
  <2>2. CASE x # a
    <3>1. x \in A /\ DeclIn(sc, x).prefix # prefix
      BY <1>4, <2>2
    <3>2. ns[DeclIn(sc, x).prefix] = DeclIn(sc, x).url
      BY <1>2, <1>4, <3>1
    <3>3. DeclIn(sc, x).prefix \in DOMAIN ns
      BY <1>2, <3>1
    <3> QED BY <1>1, <3>1, <3>2, <3>3
  <2> QED BY <2>1, <2>2
<1> QED BY <1>1, <1>3, <1>4 DEF Exact, new

\* pushNs keeps what the declaration replaces.
LEMMA DeclareIsUndone ==
  ASSUME NEW ns, IsMap(ns), NEW prefix, NEW url
  PROVE  LET ok == prefix \in DOMAIN ns
         IN  UndoNs(With(ns, prefix, url),
                    NsFrame(prefix, IF ok THEN ns[prefix] ELSE "", ok)) = ns
<1> DEFINE new == With(ns, prefix, url)
<1>1. /\ IsMap(new) /\ DOMAIN new = DOMAIN ns \cup {prefix} /\ new[prefix] = url
      /\ \A x \in DOMAIN ns : x # prefix => new[x] = ns[x]
  BY DEF With, IsMap
<1> HIDE DEF new
<1>2. CASE prefix \in DOMAIN ns
  <2> DEFINE back == With(new, prefix, ns[prefix])
  <2>1. /\ IsMap(back) /\ DOMAIN back = DOMAIN new \cup {prefix} /\ back[prefix] = ns[prefix]
        /\ \A x \in DOMAIN new : x # prefix => back[x] = new[x]
    BY DEF With, IsMap
  <2> HIDE DEF back
  <2>2. DOMAIN back = DOMAIN ns
    BY <1>1, <1>2, <2>1
  <2>3. \A x \in DOMAIN back : back[x] = ns[x]
    BY <1>1, <1>2, <2>1
  <2>4. back = ns
    BY <2>1, <2>2, <2>3, SameMaps
  <2> QED BY <1>2, <2>4 DEF UndoNs, NsFrame, back, new
<1>3. CASE prefix \notin DOMAIN ns
  <2> DEFINE back == Deleted(new, prefix)
  <2>1. /\ IsMap(back) /\ DOMAIN back = DOMAIN new \ {prefix}
        /\ \A x \in DOMAIN new : x # prefix => back[x] = new[x]
    BY DEF Deleted, IsMap
  <2> HIDE DEF back
  <2>2. DOMAIN back = DOMAIN ns
    BY <1>1, <1>3, <2>1
  <2>3. \A x \in DOMAIN back : back[x] = ns[x]
    BY <1>1, <1>3, <2>1
  <2>4. back = ns
    BY <2>1, <2>2, <2>3, SameMaps
  <2> QED BY <1>3, <2>4 DEF UndoNs, NsFrame, back, new
<1> QED BY <1>2, <1>3

InsideStates(d, seq, at) ==
  /\ at[0] = d /\ at[Len(seq)] = Inside(d, seq)
  /\ \A i \in 1..Len(seq) : at[i] = DeclareNs(at[i - 1], seq[i])

\* The states of the loop that declares the name spaces of a tag.
LEMMA InsideRun ==
  ASSUME NEW d, NEW seq, Len(seq) \in Nat
  PROVE  \E at : InsideStates(d, seq, at)
<1> DEFINE n == Len(seq)
           es == [i \in 1..n |-> [do |-> "declare", of |-> seq[i]]]
           at == CHOOSE f : f = [i \in 0..n |-> IF i = 0 THEN d ELSE DeclareNs(f[i - 1], seq[i])]
<1>1. ASSUME NEW i \in 1..n, NEW q
      PROVE  Turn(q, es[i]) = DeclareNs(q, seq[i])
  BY DEF Turn
<1>2. PICK f : f = [i \in 0..n |-> IF i = 0 THEN d ELSE Turn(f[i - 1], es[i])]
  <2>1. n \in Nat
    OBVIOUS
  <2> HIDE DEF es, n
  <2>2. \E f : Turns(d, n, es, f)
    BY <2>1, TurnsExist
  <2> QED BY <2>2 DEF Turns
<1>3. \E g : g = [i \in 0..n |-> IF i = 0 THEN d ELSE DeclareNs(g[i - 1], seq[i])]
  <2>1. ASSUME NEW i \in 0..n
        PROVE  f[i] = IF i = 0 THEN d ELSE DeclareNs(f[i - 1], seq[i])
    <3>1. i # 0 => i \in 1..n
      OBVIOUS
    <3>2. f[i] = IF i = 0 THEN d ELSE Turn(f[i - 1], es[i])
      BY <1>2
    <3> HIDE DEF es, n
    <3> QED BY <1>1, <3>1, <3>2
  <2>2. DOMAIN f = 0..n /\ f = [i \in DOMAIN f |-> f[i]]
    BY <1>2
  <2> HIDE DEF n
  <2>3. f = [i \in 0..n |-> IF i = 0 THEN d ELSE DeclareNs(f[i - 1], seq[i])]
    BY <2>1, <2>2
  <2> QED BY <2>3
<1>4. at = [i \in 0..n |-> IF i = 0 THEN d ELSE DeclareNs(at[i - 1], seq[i])]
  BY <1>3
<1>5. Inside(d, seq) = at[n]
  BY DEF Inside, Through
<1> HIDE DEF at
<1>6. at[0] = d
  BY <1>4
<1>7. ASSUME NEW i \in 1..n
      PROVE  at[i] = DeclareNs(at[i - 1], seq[i])
  <2>1. i \in 0..n /\ i # 0
    OBVIOUS
  <2> QED BY <1>4, <2>1
<1> QED BY <1>5, <1>6, <1>7 DEF InsideStates

RestoredStates(ns, seq, at) ==
  /\ at[0] = ns /\ at[Len(seq)] = Restored(ns, seq)
  /\ \A i \in 1..Len(seq) : at[i] = UndoNs(at[i - 1], seq[i])

\* The states of the loop that takes them back.
LEMMA RestoredRun ==
  ASSUME NEW ns, NEW seq, Len(seq) \in Nat
  PROVE  \E at : RestoredStates(ns, seq, at)
<1> DEFINE n == Len(seq)
           es == [i \in 1..n |-> [do |-> "restore", of |-> seq[i]]]
           at == CHOOSE f : f = [i \in 0..n |-> IF i = 0 THEN ns ELSE UndoNs(f[i - 1], seq[i])]
<1>1. ASSUME NEW i \in 1..n, NEW q
      PROVE  Turn(q, es[i]) = UndoNs(q, seq[i])
  BY DEF Turn
<1>2. PICK f : f = [i \in 0..n |-> IF i = 0 THEN ns ELSE Turn(f[i - 1], es[i])]
  <2>1. n \in Nat
    OBVIOUS
  <2> HIDE DEF es, n
  <2>2. \E f : Turns(ns, n, es, f)
    BY <2>1, TurnsExist
  <2> QED BY <2>2 DEF Turns
<1>3. \E g : g = [i \in 0..n |-> IF i = 0 THEN ns ELSE UndoNs(g[i - 1], seq[i])]
  <2>1. ASSUME NEW i \in 0..n
        PROVE  f[i] = IF i = 0 THEN ns ELSE UndoNs(f[i - 1], seq[i])
    <3>1. i # 0 => i \in 1..n
      OBVIOUS
    <3>2. f[i] = IF i = 0 THEN ns ELSE Turn(f[i - 1], es[i])
      BY <1>2
    <3> HIDE DEF es, n
    <3> QED BY <1>1, <3>1, <3>2
  <2>2. DOMAIN f = 0..n /\ f = [i \in DOMAIN f |-> f[i]]
    BY <1>2
  <2> HIDE DEF n
  <2>3. f = [i \in 0..n |-> IF i = 0 THEN ns ELSE UndoNs(f[i - 1], seq[i])]
    BY <2>1, <2>2
  <2> QED BY <2>3
<1>4. at = [i \in 0..n |-> IF i = 0 THEN ns ELSE UndoNs(at[i - 1], seq[i])]
  BY <1>3
<1>5. Restored(ns, seq) = at[n]
  BY DEF Restored, Through
<1> HIDE DEF at
<1>6. at[0] = ns
  BY <1>4
<1>7. ASSUME NEW i \in 1..n
      PROVE  at[i] = UndoNs(at[i - 1], seq[i])
  <2>1. i \in 0..n /\ i # 0
    OBVIOUS
  <2> QED BY <1>4, <2>1
<1> QED BY <1>5, <1>6, <1>7 DEF RestoredStates

-----------------------------------------------------------------------------
(* What a token does to the stack *)

IsDecoder(d) == DOMAIN d = {"stk", "ns", "toClose", "err"}

TopIsElement(stk) == Len(stk) = 0 \/ stk[Len(stk)].kind # "ns"

(* The decoder stands inside the tags of sc, between two tokens. *)
Stands(d, sc) ==
  /\ IsDecoder(d) /\ IsSeq(sc)
  /\ Layered(d.stk, d.ns, sc, Len(sc)) /\ TopIsElement(d.stk)

\* The frame on top tells what is in force.
LEMMA TopIsExact ==
  ASSUME NEW stk, NEW ns, NEW sc, NEW k, Layered(stk, ns, sc, k), TopIsElement(stk)
  PROVE  k \in Nat /\ Exact(ns, sc, Among(sc, k))
<1>1. PICK c, g : Layers(stk, ns, sc, k, c, g)
  BY DEF Layered
<1>2. Len(stk) \in 0..Len(stk)
  BY DEF Layered, IsSeq
<1> QED BY <1>1, <1>2 DEF Layers, TopIsElement

(* stk with frames of name spaces on it, in d. *)
OnlyNsOn(stk, d, n) ==
  /\ Len(d.stk) = Len(stk) + n
  /\ \A i \in 1..Len(stk) : d.stk[i] = stk[i]
  /\ \A i \in (Len(stk) + 1)..(Len(stk) + n) : d.stk[i].kind = "ns"

\* One name space declared.
LEMMA DeclareSteps ==
  ASSUME NEW d, IsDecoder(d), NEW sc, NEW k, Layered(d.stk, d.ns, sc, k),
         NEW A, Exact(d.ns, sc, A), NEW a,
         \A b \in A : LaterIn(a, b) /\ ~LaterIn(b, a), ~LaterIn(a, a),
         NEW stk, Len(stk) \in Nat, NEW n \in Nat, OnlyNsOn(stk, d, n)
  PROVE  LET e == DeclareNs(d, DeclIn(sc, a))
         IN  /\ IsDecoder(e) /\ e.toClose = d.toClose /\ e.err = d.err
             /\ Layered(e.stk, e.ns, sc, k) /\ Exact(e.ns, sc, A \cup {a})
             /\ OnlyNsOn(stk, e, n + 1)
<1> DEFINE decl == DeclIn(sc, a)
           ok == decl.prefix \in DOMAIN d.ns
           frame == NsFrame(decl.prefix, IF ok THEN d.ns[decl.prefix] ELSE "", ok)
           new == With(d.ns, decl.prefix, decl.url)
           t == Append(d.stk, frame)
           e == DeclareNs(d, decl)
<1>1. e = [d EXCEPT !.stk = t, !.ns = new]
  BY DEF DeclareNs
<1>2. frame.kind = "ns"
  BY DEF NsFrame
<1>3. UndoNs(new, frame) = d.ns
  <2>1. IsMap(d.ns)
    BY DEF Exact
  <2> QED BY <2>1, DeclareIsUndone
<1>4. Exact(new, sc, A \cup {a})
  BY ExactMore
<1>5. IsSeq(d.stk)
  BY DEF Layered
<1> HIDE DEF decl, frame, new, e
<1>6. Under(new, frame) = d.ns /\ k = IF frame.kind = "start" THEN k + 1 ELSE k
  BY <1>2, <1>3 DEF Under
<1>7. Layered(t, new, sc, k)
  BY <1>2, <1>6, FramePush
<1>8. Len(t) = Len(d.stk) + 1 /\ t[Len(d.stk) + 1] = frame /\ \A i \in 1..Len(d.stk) : t[i] = d.stk[i]
  BY <1>5, AppendIsSeq
<1> HIDE DEF t
<1>9. /\ IsDecoder(e) /\ e.toClose = d.toClose /\ e.err = d.err /\ e.stk = t /\ e.ns = new
  BY <1>1 DEF IsDecoder
<1>10. OnlyNsOn(stk, e, n + 1)
  <2>1. Len(d.stk) = Len(stk) + n
    BY DEF OnlyNsOn
  <2>2. Len(t) = Len(stk) + (n + 1)
    BY <1>8, <2>1
  <2>3. \A i \in 1..Len(stk) : t[i] = stk[i]
    BY <1>8, <2>1 DEF OnlyNsOn
  <2>4. ASSUME NEW i \in (Len(stk) + 1)..(Len(stk) + (n + 1))
        PROVE  t[i].kind = "ns"
    <3>1. CASE i = Len(d.stk) + 1
      BY <1>2, <1>8, <3>1
    <3>2. CASE i # Len(d.stk) + 1
      <4>1. i \in (Len(stk) + 1)..(Len(stk) + n) /\ i \in 1..Len(d.stk)
        BY <2>1, <3>2
      <4> QED BY <1>8, <4>1 DEF OnlyNsOn
    <3> QED BY <3>1, <3>2
  <2> QED BY <1>9, <2>2, <2>3, <2>4 DEF OnlyNsOn
<1> QED BY <1>4, <1>7, <1>9, <1>10 DEF e, decl

\* The name spaces of a tag declared, in the order they stand in it.
LEMMA InsideSteps ==
  ASSUME NEW d, IsDecoder(d), NEW sc, NEW k, Layered(d.stk, d.ns, sc, k), TopIsElement(d.stk),
         NEW seq, IsSeq(seq), sc[k + 1].decls = seq
  PROVE  LET e == Inside(d, seq)
         IN  /\ IsDecoder(e) /\ e.toClose = d.toClose /\ e.err = d.err
             /\ Layered(e.stk, e.ns, sc, k) /\ Exact(e.ns, sc, Among(sc, k + 1))
             /\ OnlyNsOn(d.stk, e, Len(seq))
<1> DEFINE n == Len(seq)
           A(i) == Among(sc, k) \cup {<<k + 1, j>> : j \in 1..i}
<1>1. n \in Nat /\ DOMAIN seq = 1..n
  BY DEF IsSeq
<1>2. k \in Nat /\ Exact(d.ns, sc, Among(sc, k))
  BY TopIsExact
<1>3. PICK at : InsideStates(d, seq, at)
  BY <1>1, InsideRun
<1>4. /\ at[0] = d /\ at[n] = Inside(d, seq)
      /\ \A i \in 1..n : at[i] = DeclareNs(at[i - 1], seq[i])
  BY <1>3 DEF InsideStates
<1>5. Len(d.stk) \in Nat
  BY DEF Layered, IsSeq
<1> DEFINE After(i) == /\ IsDecoder(at[i]) /\ at[i].toClose = d.toClose /\ at[i].err = d.err
                       /\ Layered(at[i].stk, at[i].ns, sc, k) /\ Exact(at[i].ns, sc, A(i))
                       /\ OnlyNsOn(d.stk, at[i], i)
           T == {i \in 0..n : After(i)}
<1>6. After(0)
  <2>1. A(0) = Among(sc, k)
    OBVIOUS
  <2>2. OnlyNsOn(d.stk, d, 0)
    BY <1>5 DEF OnlyNsOn
  <2> HIDE DEF A
  <2> QED BY <1>2, <1>4, <2>1, <2>2
<1>7. ASSUME NEW b \in Among(sc, k)
      PROVE  b[1] \in 1..k
  BY DEF Among
<1>8. ASSUME NEW i \in 1..n, After(i - 1)
      PROVE  After(i)
  <2> DEFINE a == <<k + 1, i>>
             B == A(i - 1)
  <2>1. A(i) = B \cup {a}
    <3>1. 1..i = 1..(i - 1) \cup {i}
      OBVIOUS
    <3> QED BY <3>1
  <2>2. seq[i] = DeclIn(sc, a)
    BY DEF DeclIn
  <2>3. ASSUME NEW b \in B
        PROVE  LaterIn(a, b) /\ ~LaterIn(b, a)
    <3>1. CASE b \in Among(sc, k)
      BY <1>2, <1>7, <3>1 DEF LaterIn
    <3>2. CASE b \notin Among(sc, k)
      <4>1. PICK j \in 1..(i - 1) : b = <<k + 1, j>>
        BY <3>2
      <4>2. b[1] = k + 1 /\ b[2] = j /\ a[1] = k + 1 /\ a[2] = i /\ j < i
        BY <4>1
      <4> QED BY <1>2, <4>2 DEF LaterIn
    <3> QED BY <3>1, <3>2
  <2>4. ~LaterIn(a, a)
    BY <1>2 DEF LaterIn
  <2>5. i - 1 \in Nat /\ (i - 1) + 1 = i
    OBVIOUS
  <2> HIDE DEF B, a, A
  <2>6. /\ IsDecoder(at[i - 1]) /\ at[i - 1].toClose = d.toClose /\ at[i - 1].err = d.err
        /\ Layered(at[i - 1].stk, at[i - 1].ns, sc, k) /\ Exact(at[i - 1].ns, sc, B)
        /\ OnlyNsOn(d.stk, at[i - 1], i - 1)
    BY <1>8 DEF B
  <2>7. at[i] = DeclareNs(at[i - 1], DeclIn(sc, a))
    BY <1>4, <2>2
  <2> DEFINE q == at[i - 1]
  <2> HIDE DEF q
  <2>8. LET e == DeclareNs(q, DeclIn(sc, a))
        IN  /\ IsDecoder(e) /\ e.toClose = q.toClose /\ e.err = q.err
            /\ Layered(e.stk, e.ns, sc, k) /\ Exact(e.ns, sc, B \cup {a})
            /\ OnlyNsOn(d.stk, e, (i - 1) + 1)
    BY <1>5, <2>3, <2>4, <2>5, <2>6, DeclareSteps DEF q
  <2> QED BY <2>1, <2>5, <2>6, <2>7, <2>8 DEF q
<1>9. After(n)
  <2> HIDE DEF After
  <2>1. 0 \in T /\ \A i \in 1..n : i - 1 \in T => i \in T
    BY <1>1, <1>6, <1>8
  <2> HIDE DEF T, n
  <2>2. \A i \in 0..n : i \in T
    BY <1>1, <2>1, UpTo
  <2>3. n \in T
    BY <1>1, <2>2
  <2> QED BY <2>3 DEF T
<1>10. A(n) = Among(sc, k + 1)
  <2>1. 1..(k + 1) = 1..k \cup {k + 1}
    BY <1>2
  <2>2. Among(sc, k + 1) = Among(sc, k) \cup {<<k + 1, j>> : j \in DOMAIN sc[k + 1].decls}
    BY <2>1 DEF Among
  <2> QED BY <1>1, <2>2
<1> HIDE DEF A
<1> QED BY <1>4, <1>9, <1>10

(* The frames of a start tag are put on the stack, and taken off it. *)
IsName(name) == name = [space |-> name.space, local |-> name.local]

Rises(stk, new, name) ==
  /\ IsName(name) /\ Len(new) \in Nat /\ Len(stk) < Len(new)
  /\ \A i \in 1..Len(stk) : new[i] = stk[i]
  /\ \A i \in (Len(stk) + 1)..(Len(new) - 1) : new[i].kind = "ns"
  /\ new[Len(new)] = StartFrame(name)

Falls(stk, new, name) ==
  /\ Rises(new, stk, name) /\ TopIsElement(new)

(* r is what the decoder d makes of a start tag. *)
StartAs(d, sc, tag, r) ==
  /\ r.t.kind = "start" /\ r.d.err = d.err /\ r.d.toClose = d.toClose
  /\ Stands(r.d, Append(sc, tag)) /\ Rises(d.stk, r.d.stk, r.t.name)
  /\ r.d.ns = Inside(d, tag.decls).ns
  /\ r.t.name = [space |-> Translate(r.d.ns, tag.prefix, TRUE), local |-> tag.local]

\* A start tag.
LEMMA StartSteps ==
  ASSUME NEW d, NEW sc, Stands(d, sc), NEW tag, IsSeq(tag.decls)
  PROVE  StartAs(d, sc, tag, StartToken(d, tag))
<1> DEFINE sd == Append(sc, tag)
           k == Len(sc)
           decls == tag.decls
           inside == Inside(d, decls)
           name == [space |-> Translate(inside.ns, tag.prefix, TRUE), local |-> tag.local]
           frame == StartFrame(name)
           stk == Append(inside.stk, frame)
           r == StartToken(d, tag)
<1>1. r.d = PushElement(inside, name) /\ r.t.name = name /\ r.t.kind = "start"
  BY Zenon DEF StartToken, Inside
<1>2. IsSeq(sc) /\ k \in Nat
  BY DEF Stands, IsSeq
<1>3. IsSeq(sd) /\ Len(sd) = k + 1 /\ sd[k + 1] = tag /\ \A i \in 1..k : sd[i] = sc[i]
  BY <1>2, AppendIsSeq
<1> HIDE DEF sd
<1>4. Layered(d.stk, d.ns, sd, k)
  BY <1>3, LayeredSame DEF Stands
<1> HIDE DEF k
<1>5. IsDecoder(d) /\ TopIsElement(d.stk) /\ sd[k + 1].decls = decls
  BY <1>3 DEF Stands
<1>6. /\ IsDecoder(inside) /\ inside.err = d.err /\ inside.toClose = d.toClose
      /\ Layered(inside.stk, inside.ns, sd, k) /\ Exact(inside.ns, sd, Among(sd, k + 1))
      /\ OnlyNsOn(d.stk, inside, Len(decls))
  <2>1. IsSeq(decls)
    OBVIOUS
  <2> HIDE DEF decls
  <2> QED BY <1>4, <1>5, <2>1, InsideSteps
<1>7. IsName(name) /\ name = [space |-> Translate(inside.ns, tag.prefix, TRUE), local |-> tag.local]
  BY DEF IsName
<1> HIDE DEF inside, name
<1>8. frame.kind = "start"
  BY DEF StartFrame
<1> HIDE DEF frame
<1>9. Under(inside.ns, frame) = inside.ns
  BY <1>8 DEF Under
<1>10. Layered(stk, inside.ns, sd, k + 1)
  <2>1. k + 1 = IF frame.kind = "start" THEN k + 1 ELSE k
    BY <1>8
  <2> QED BY <1>6, <1>9, <2>1, FramePush
<1>11. /\ Len(stk) = Len(inside.stk) + 1 /\ stk[Len(inside.stk) + 1] = frame
       /\ \A i \in 1..Len(inside.stk) : stk[i] = inside.stk[i]
  <2>1. IsSeq(inside.stk)
    BY <1>6 DEF Layered
  <2> QED BY <2>1, AppendIsSeq
<1> HIDE DEF stk
<1>12. r.d = [inside EXCEPT !.stk = stk]
  BY <1>1 DEF PushElement, stk, frame
<1>13. /\ IsDecoder(r.d) /\ r.d.stk = stk /\ r.d.ns = inside.ns
       /\ r.d.err = d.err /\ r.d.toClose = d.toClose
  BY <1>6, <1>12 DEF IsDecoder
<1> HIDE DEF r
<1> DEFINE a == Len(d.stk)
           b == Len(decls)
           c == Len(inside.stk)
<1>14. a \in Nat /\ b \in Nat
  BY DEF Stands, Layered, IsSeq
<1>15. /\ c = a + b
       /\ \A i \in 1..a : inside.stk[i] = d.stk[i]
       /\ \A i \in (a + 1)..(a + b) : inside.stk[i].kind = "ns"
  BY <1>6 DEF OnlyNsOn
<1>16. Stands(r.d, sd)
  <2>1. TopIsElement(stk)
    BY <1>8, <1>11 DEF TopIsElement
  <2> QED BY <1>3, <1>10, <1>13, <2>1 DEF Stands, k
<1>17. Rises(d.stk, stk, name)
  <2>1. Len(stk) = c + 1 /\ stk[c + 1] = frame /\ \A i \in 1..c : stk[i] = inside.stk[i]
    BY <1>11
  <2> HIDE DEF a, b, c
  <2>2. (\A i \in 1..a : i \in 1..c) /\ \A i \in (a + 1)..c : i \in 1..c /\ i \in (a + 1)..(a + b)
    BY <1>14, <1>15
  <2>3. c + 1 \in Nat /\ a < c + 1 /\ (c + 1) - 1 = c
    BY <1>14, <1>15
  <2>4. \A i \in 1..a : stk[i] = d.stk[i]
    BY <1>15, <2>1, <2>2
  <2>5. \A i \in (a + 1)..((c + 1) - 1) : stk[i].kind = "ns"
    BY <1>15, <2>1, <2>2, <2>3
  <2> QED BY <1>7, <2>1, <2>3, <2>4, <2>5 DEF Rises, frame, a
<1> QED BY <1>1, <1>7, <1>13, <1>16, <1>17 DEF sd, r, inside, StartAs

\* The frames of the innermost element taken off the stack.
LEMMA PopSteps ==
  ASSUME NEW stk, NEW ns, NEW sc, NEW k, Layered(stk, ns, sc, k),
         Len(stk) > 0, stk[Len(stk)].kind = "start"
  PROVE  LET rest == SubSeq(stk, 1, Len(stk) - 1)
             keep == SelectLastInSeq(rest, LAMBDA f : f.kind # "ns")
             low  == SubSeq(rest, 1, keep)
             undo == Reverse(SubSeq(rest, keep + 1, Len(rest)))
         IN  /\ k \in Nat \ {0} /\ Layered(low, Restored(ns, undo), sc, k - 1)
             /\ Len(low) \in Nat /\ Len(low) < Len(stk) /\ TopIsElement(low)
             /\ \A i \in 1..Len(low) : stk[i] = low[i]
             /\ \A i \in (Len(low) + 1)..(Len(stk) - 1) : stk[i].kind = "ns"
<1> DEFINE n == Len(stk)
           l == n - 1
           rest == SubSeq(stk, 1, n - 1)
           m == SelectLastInSeq(rest, LAMBDA f : f.kind # "ns")
           low == SubSeq(rest, 1, m)
           part == SubSeq(rest, m + 1, Len(rest))
           undo == Reverse(part)
<1>1. IsSeq(stk) /\ n \in Nat
  BY DEF Layered, IsSeq
<1>2. l \in Nat /\ l \in 0..n /\ n \in 0..n /\ n \in 1..n /\ l <= n
  BY <1>1
<1>3. PICK cc, gg : Layers(stk, ns, sc, k, cc, gg)
  BY DEF Layered
<1>4. gg[l] = ns /\ cc[l] = k - 1 /\ k \in Nat \ {0}
  <2>1. /\ cc[n] = k /\ gg[n] = ns
        /\ cc[n] = IF stk[n].kind = "start" THEN cc[n - 1] + 1 ELSE cc[n - 1]
        /\ gg[n - 1] = Under(gg[n], stk[n])
        /\ cc[l] \in Nat
    BY <1>2, <1>3 DEF Layers
  <2> QED BY <1>1, <2>1 DEF Under
<1>5. Layered(rest, ns, sc, k - 1)
  BY <1>1, <1>2, <1>3, <1>4, FrameCut
<1>6. IsSeq(rest) /\ Len(rest) = l /\ \A i \in 1..l : rest[i] = stk[i]
  <2>1. 1 \in Nat \ {0} /\ 1 <= l + 1
    BY <1>2
  <2>2. /\ IsSeq(rest) /\ Len(rest) = l - 1 + 1
        /\ \A i \in 1..(l - 1 + 1) : rest[i] = stk[1 + i - 1]
    BY <1>1, <1>2, <2>1, SubSeqIsSeq
  <2> HIDE DEF rest
  <2> QED BY <1>2, <2>2
<1> HIDE DEF n
<1>7. /\ m \in 0..l /\ (m # 0 => rest[m].kind # "ns")
      /\ \A i \in (m + 1)..l : rest[i].kind = "ns"
  <2> DEFINE b == SelectLastInSubSeq(rest, 1, l, LAMBDA f : f.kind # "ns")
  <2>1. /\ b \in 0..l /\ (b # 0 => rest[b].kind # "ns")
        /\ \A i \in (b + 1)..l : rest[i].kind = "ns"
    BY <1>2, LastNoNs
  <2>2. m = b
    BY <1>6 DEF SelectLastInSeq, SelectLastInSubSeq
  <2> HIDE DEF b, m
  <2> QED BY <2>1, <2>2
<1> HIDE DEF l, rest, m
<1>8. PICK c, g : Layers(rest, ns, sc, k - 1, c, g)
  BY <1>5 DEF Layered
<1>9. /\ c[l] = k - 1 /\ g[l] = ns
      /\ \A i \in 1..l : c[i] = IF rest[i].kind = "start" THEN c[i - 1] + 1 ELSE c[i - 1]
      /\ \A i \in 1..l : g[i - 1] = Under(g[i], rest[i])
  BY <1>6, <1>8 DEF Layers
<1> DEFINE w == l - m
<1>10. m \in Nat /\ m <= l /\ w \in Nat
  BY <1>2, <1>7
<1>11. IsSeq(part) /\ Len(part) = w /\ \A i \in 1..w : part[i] = rest[m + i]
  <2>1. m + 1 \in Nat \ {0} /\ m + 1 <= l + 1 /\ l <= l
    BY <1>2, <1>10
  <2>2. /\ IsSeq(part) /\ Len(part) = l - (m + 1) + 1
        /\ \A i \in 1..(l - (m + 1) + 1) : part[i] = rest[(m + 1) + i - 1]
    BY <1>2, <1>6, <2>1, SubSeqIsSeq
  <2> HIDE DEF part
  <2>3. l - (m + 1) + 1 = w
    BY <1>2, <1>10
  <2>4. \A i \in 1..w : (m + 1) + i - 1 = m + i
    BY <1>10
  <2> QED BY <2>2, <2>3, <2>4
<1> HIDE DEF part
<1>12. Len(undo) = w /\ \A i \in 1..w : undo[i] = rest[(l - i) + 1]
  <2>1. Len(undo) = w /\ \A i \in 1..w : undo[i] = part[w - i + 1]
    BY <1>11, ReverseIsSeq
  <2>2. ASSUME NEW i \in 1..w
        PROVE  w - i + 1 \in 1..w /\ m + (w - i + 1) = (l - i) + 1
    BY <1>2, <1>10
  <2> HIDE DEF w, undo
  <2> QED BY <1>11, <2>1, <2>2
<1> HIDE DEF undo
<1>13. PICK at : RestoredStates(ns, undo, at)
  BY <1>10, <1>12, RestoredRun
<1>14. /\ at[0] = ns /\ at[w] = Restored(ns, undo)
       /\ \A i \in 1..w : at[i] = UndoNs(at[i - 1], undo[i])
  BY <1>12, <1>13 DEF RestoredStates
<1> DEFINE Back(i) == at[i] = g[l - i] /\ c[l - i] = k - 1
           T == {i \in 0..w : Back(i)}
<1>15. Back(0)
  BY <1>2, <1>9, <1>14
<1>16. ASSUME NEW i \in 1..w, Back(i - 1)
       PROVE  Back(i)
  <2>1. /\ l - (i - 1) = (l - i) + 1 /\ (l - i) + 1 \in 1..l /\ (l - i) + 1 \in (m + 1)..l
        /\ ((l - i) + 1) - 1 = l - i
    BY <1>2, <1>10
  <2>2. rest[(l - i) + 1].kind = "ns"
    BY <1>7, <2>1
  <2>3. g[l - i] = UndoNs(g[(l - i) + 1], rest[(l - i) + 1]) /\ c[(l - i) + 1] = c[l - i]
    BY <1>9, <2>1, <2>2 DEF Under
  <2>4. at[i] = UndoNs(at[i - 1], rest[(l - i) + 1])
    BY <1>12, <1>14
  <2> QED BY <1>16, <2>1, <2>3, <2>4
<1>17. Back(w)
  <2> HIDE DEF Back
  <2>1. 0 \in T /\ \A i \in 1..w : i - 1 \in T => i \in T
    BY <1>10, <1>15, <1>16
  <2> HIDE DEF T, w
  <2>2. \A i \in 0..w : i \in T
    BY <1>10, <2>1, UpTo
  <2>3. w \in T
    BY <1>10, <2>2
  <2> QED BY <2>3 DEF T
<1>18. Restored(ns, undo) = g[m] /\ c[m] = k - 1
  <2>1. l - w = m
    BY <1>2, <1>10
  <2> QED BY <1>14, <1>17, <2>1
<1>19. Layered(low, g[m], sc, k - 1)
  BY <1>6, <1>7, <1>8, <1>18, FrameCut
<1>20. Len(low) = m /\ \A i \in 1..m : low[i] = rest[i]
  <2>1. 1 \in Nat \ {0} /\ 1 <= m + 1
    BY <1>10
  <2>2. /\ IsSeq(low) /\ Len(low) = m - 1 + 1
        /\ \A i \in 1..(m - 1 + 1) : low[i] = rest[1 + i - 1]
    BY <1>6, <1>10, <2>1, SubSeqIsSeq
  <2> HIDE DEF low
  <2> QED BY <1>10, <2>2
<1> HIDE DEF low
<1>21. n = l + 1
  BY <1>1 DEF l
<1>22. ASSUME NEW i \in 1..m
       PROVE  stk[i] = low[i]
  <2>1. i \in 1..l
    BY <1>2, <1>10
  <2> QED BY <1>6, <1>20, <2>1
<1>23. ASSUME NEW i \in (m + 1)..(n - 1)
       PROVE  stk[i].kind = "ns"
  <2>1. i \in (m + 1)..l /\ i \in 1..l
    BY <1>2, <1>10, <1>21
  <2> QED BY <1>6, <1>7, <2>1
<1>24. TopIsElement(low)
  <2>1. m # 0 => m \in 1..m
    BY <1>10
  <2> QED BY <1>7, <1>20, <2>1 DEF TopIsElement
<1>25. m < n
  BY <1>2, <1>10, <1>21
<1>26. m = SelectLastInSeq(SubSeq(stk, 1, Len(stk) - 1), LAMBDA f : f.kind # "ns")
  BY DEF m, rest, n
<1> QED BY <1>4, <1>10, <1>18, <1>19, <1>20, <1>22, <1>23, <1>24, <1>25, Zenon
        DEF n, rest, m, low, undo, part

\* The lowest tags.
LEMMA FrontSame ==
  ASSUME NEW sc, IsSeq(sc), Len(sc) # 0
  PROVE  LET sd == Front(sc)
         IN  /\ IsSeq(sd) /\ Len(sd) = Len(sc) - 1
             /\ \A i \in 1..(Len(sc) - 1) : sc[i] = sd[i]
<1> DEFINE k == Len(sc) - 1
           sd == SubSeq(sc, 1, k)
<1>1. k \in Nat /\ k <= Len(sc) /\ 1 <= k + 1 /\ 1 \in Nat \ {0}
  BY DEF IsSeq
<1>2. IsSeq(sd) /\ Len(sd) = k - 1 + 1 /\ \A i \in 1..(k - 1 + 1) : sd[i] = sc[1 + i - 1]
  BY <1>1, SubSeqIsSeq
<1>3. Front(sc) = sd
  BY DEF Front
<1> HIDE DEF sd
<1>4. Len(sd) = k /\ \A i \in 1..k : sc[i] = sd[i]
  BY <1>1, <1>2
<1> QED BY <1>2, <1>3, <1>4

(* r is what the decoder d makes of an end tag: it fails, or it ends the    *)
(* innermost element.                                                      *)
EndAs(d, sc, raw, r) ==
  LET name == [space |-> Translate(d.ns, raw.prefix, TRUE), local |-> raw.local]
  IN  \/ /\ r.t.kind = "error" /\ r.d.err # "none"
         /\ ~(Len(d.stk) # 0 /\ d.stk[Len(d.stk)] = StartFrame(name))
      \/ /\ r.t.kind = "end" /\ r.d.err = "none" /\ Len(sc) # 0
         /\ Stands(r.d, Front(sc)) /\ Falls(d.stk, r.d.stk, r.t.name)
         /\ r.t.name = name /\ r.d.toClose = d.toClose

\* An end tag.
LEMMA EndSteps ==
  ASSUME NEW d, NEW sc, Stands(d, sc), d.err = "none", NEW raw
  PROVE  EndAs(d, sc, raw, EndToken(d, raw))
<1> DEFINE name == [space |-> Translate(d.ns, raw.prefix, TRUE), local |-> raw.local]
           after == PopElement(d, name)
           r == EndToken(d, raw)
           n == Len(d.stk)
           rest == SubSeq(d.stk, 1, n - 1)
           keep == SelectLastInSeq(rest, LAMBDA f : f.kind # "ns")
           low == SubSeq(rest, 1, keep)
           undo == Reverse(SubSeq(rest, keep + 1, Len(rest)))
           back == Restored(d.ns, undo)
<1>1. r.d = after
      /\ r.t = IF after.err = "none" THEN [kind |-> "end", name |-> name] ELSE Failed("syntax")
  BY DEF EndToken
<1>2. IsSeq(d.stk) /\ n \in Nat /\ IsDecoder(d)
  BY DEF Stands, Layered, IsSeq
<1>3. IsName(name)
  BY DEF IsName
<1> HIDE DEF name, r, after
<1>4. CASE n # 0 /\ d.stk[n] = StartFrame(name)
  <2>1. d.stk # << >>
    BY <1>4
  <2>2. Last(d.stk) = d.stk[n] /\ Front(d.stk) = rest
    BY DEF Last, Front
  <2>3. after = [d EXCEPT !.stk = low, !.ns = back]
    <3>1. Last(d.stk) = StartFrame(name)
      BY <1>4, <2>2
    <3> HIDE DEF n
    <3> QED BY <2>1, <2>2, <3>1, Zenon DEF after, PopElement, Restored
  <2>4. d.stk[Len(d.stk)].kind = "start" /\ Len(d.stk) > 0
    BY <1>2, <1>4 DEF StartFrame
  <2>5. Layered(d.stk, d.ns, sc, Len(sc))
    BY DEF Stands
  <2>6. /\ Len(sc) \in Nat \ {0} /\ Layered(low, back, sc, Len(sc) - 1)
        /\ Len(low) \in Nat /\ Len(low) < n /\ TopIsElement(low)
        /\ \A i \in 1..Len(low) : d.stk[i] = low[i]
        /\ \A i \in (Len(low) + 1)..(n - 1) : d.stk[i].kind = "ns"
    BY <2>4, <2>5, PopSteps
  <2> HIDE DEF low, back, n
  <2>7. /\ IsDecoder(after) /\ after.stk = low /\ after.ns = back /\ after.err = "none"
        /\ after.toClose = d.toClose
    BY <1>2, <2>3 DEF IsDecoder
  <2> DEFINE sd == Front(sc)
  <2>8. IsSeq(sd) /\ Len(sd) = Len(sc) - 1 /\ \A i \in 1..(Len(sc) - 1) : sc[i] = sd[i]
    BY <2>6, FrontSame DEF Stands
  <2> HIDE DEF sd
  <2>9. Layered(low, back, sd, Len(sd))
    <3> DEFINE k == Len(sc) - 1
    <3>1. Layered(low, back, sc, k) /\ Len(sd) = k /\ \A i \in 1..k : sc[i] = sd[i]
      BY <2>6, <2>8
    <3> HIDE DEF k
    <3> QED BY <3>1, LayeredSame
  <2>10. Stands(after, sd)
    BY <2>6, <2>7, <2>8, <2>9 DEF Stands
  <2>11. Falls(d.stk, low, name)
    <3>1. Rises(low, d.stk, name)
      BY <1>2, <1>3, <1>4, <2>6 DEF Rises, n
    <3> QED BY <2>6, <3>1 DEF Falls
  <2>12. r.t.kind = "end" /\ r.t.name = name
    BY <1>1, <2>7
  <2> QED BY <1>1, <2>6, <2>7, <2>10, <2>11, <2>12 DEF sd, r, name, EndAs
<1>5. CASE ~(n # 0 /\ d.stk[n] = StartFrame(name))
  <2> DEFINE top == IF d.stk = << >> THEN EOFFrame ELSE Last(d.stk)
             other == IF d.stk = << >> THEN << >> ELSE Front(d.stk)
  <2>1. top # StartFrame(name)
    <3>1. CASE d.stk = << >>
      BY <3>1 DEF EOFFrame, StartFrame
    <3>2. CASE d.stk # << >>
      <4>1. n # 0
        <5>1. CASE n = 0
          <6>1. d.stk = [i \in 1..0 |-> d.stk[i]]
            BY <1>2, <5>1 DEF IsSeq
          <6> QED BY <3>2, <6>1
        <5> QED BY <5>1
      <4> QED BY <1>5, <3>2, <4>1 DEF Last
    <3> QED BY <3>1, <3>2
  <2>2. after = [d EXCEPT !.stk = other, !.err = "syntax"]
    <3> HIDE DEF other, n
    <3>1. top # StartFrame(name) => PopElement(d, name) = [d EXCEPT !.stk = other, !.err = "syntax"]
      BY Zenon DEF PopElement, other
    <3> QED BY <2>1, <3>1 DEF after
  <2> HIDE DEF other
  <2>3. after.err = "syntax"
    BY <1>2, <2>2 DEF IsDecoder
  <2>4. r.t.kind = "error" /\ r.d.err # "none"
    BY <1>1, <2>3 DEF Failed
  <2> QED BY <1>5, <2>4 DEF r, name, EndAs
<1> QED BY <1>4, <1>5

TopIsEOF(stk) == Len(stk) # 0 /\ stk[Len(stk)].kind = "eof"

\* The kind of the frame on top.
LEMMA TopKindIs ==
  ASSUME NEW d, IsSeq(d.stk)
  PROVE  (TopKind(d) = "eof") <=> TopIsEOF(d.stk)
<1>1. CASE Len(d.stk) = 0
  <2>1. d.stk = [i \in 1..0 |-> d.stk[i]]
    BY <1>1 DEF IsSeq
  <2>2. d.stk = << >>
    BY <2>1
  <2> QED BY <1>1, <2>2 DEF TopKind, TopIsEOF
<1>2. CASE Len(d.stk) # 0
  <2>1. d.stk # << >>
    BY <1>2
  <2> QED BY <1>2, <2>1 DEF TopKind, TopIsEOF, Last
<1> QED BY <1>1, <1>2

(* The four outcomes of Token, with the tags that are open afterwards. *)
Errs(d, r, sd) == r.t.kind = "error" /\ r.d.err # "none"
Opens(d, r, sd) ==
  /\ r.t.kind = "start" /\ r.d.err = "none"
  /\ Stands(r.d, sd) /\ Rises(d.stk, r.d.stk, r.t.name)
Closes(d, r, sd) ==
  /\ r.t.kind = "end" /\ r.d.err = "none"
  /\ Stands(r.d, sd) /\ Falls(d.stk, r.d.stk, r.t.name)
Passes(d, r, sd) ==
  /\ r.t.kind \in {"text", "comment"} /\ r.d = d /\ Stands(d, sd)

\* Token, where no value ends.
LEMMA TokenSteps ==
  ASSUME Stands(dec, scope), dec.err = "none", ~TopIsEOF(dec.stk), NEW raw \in Raws
  PROVE  LET r == Token(dec, raw)
             sd == ScopeAfter(dec, raw)
         IN  Errs(dec, r, sd) \/ Opens(dec, r, sd) \/ Closes(dec, r, sd) \/ Passes(dec, r, sd)
<1> DEFINE r == Token(dec, raw)
           sd == ScopeAfter(dec, raw)
           q == RawToken(dec, raw)
<1>1. TopKind(dec) # "eof" /\ IsDecoder(dec)
  BY TopKindIs DEF Stands, Layered
<1>2. r = CASE q.raw.kind = "start" -> StartToken(q.d, q.raw)
            [] q.raw.kind = "end"   -> EndToken(q.d, q.raw)
            [] OTHER                -> [d |-> q.d, t |-> q.raw]
  BY <1>1 DEF Token
<1> HIDE DEF r
<1>3. ASSUME NEW e, e.stk = dec.stk, e.ns = dec.ns, e.err = "none", IsDecoder(e)
      PROVE  Stands(e, scope)
  BY <1>3 DEF Stands
<1>4. CASE dec.toClose # << >>
  <2> DEFINE e == [dec EXCEPT !.toClose = << >>]
             end == RawEnd(dec.toClose[1].prefix, dec.toClose[1].local)
  <2>1. q = [d |-> e, raw |-> end] /\ end.kind = "end"
    BY <1>4 DEF RawToken, RawEnd
  <2>2. e.stk = dec.stk /\ e.ns = dec.ns /\ e.err = "none" /\ IsDecoder(e)
    BY <1>1 DEF IsDecoder
  <2> HIDE DEF e, end
  <2>3. r = EndToken(e, end)
    BY <1>2, <2>1
  <2>4. sd = Front(scope)
    BY <1>4 DEF ScopeAfter, ReadsInput
  <2>5. Stands(e, scope)
    BY <1>3, <2>2
  <2>6. EndAs(e, scope, end, r)
    BY <2>2, <2>3, <2>5, EndSteps
  <2>7. \/ r.t.kind = "error" /\ r.d.err # "none"
        \/ /\ r.t.kind = "end" /\ r.d.err = "none" /\ Len(scope) # 0
           /\ Stands(r.d, Front(scope)) /\ Falls(e.stk, r.d.stk, r.t.name)
    BY <2>6 DEF EndAs
  <2> QED BY <2>2, <2>4, <2>7 DEF Errs, Closes, r
<1>5. CASE dec.toClose = << >> /\ raw.kind = "end"
  <2>1. q = [d |-> dec, raw |-> raw]
    BY <1>5 DEF RawToken
  <2>2. r = EndToken(dec, raw)
    BY <1>2, <1>5, <2>1
  <2>3. Len(scope) # 0 => sd = Front(scope)
    <3>1. Len(scope) # 0 => scope # << >>
      OBVIOUS
    <3>2. scope # << >> => sd = Front(scope)
      BY <1>5 DEF ScopeAfter, ReadsInput
    <3> QED BY <3>1, <3>2
  <2>4. EndAs(dec, scope, raw, r)
    BY <2>2, EndSteps
  <2>5. \/ r.t.kind = "error" /\ r.d.err # "none"
        \/ /\ r.t.kind = "end" /\ r.d.err = "none" /\ Len(scope) # 0
           /\ Stands(r.d, Front(scope)) /\ Falls(dec.stk, r.d.stk, r.t.name)
    BY <2>4 DEF EndAs
  <2> QED BY <2>3, <2>5 DEF Errs, Closes, r
<1>6. CASE dec.toClose = << >> /\ raw.kind = "start"
  <2> DEFINE e == [dec EXCEPT !.toClose = IF raw.empty THEN <<raw>> ELSE << >>]
  <2>1. q = [d |-> e, raw |-> raw]
    BY <1>6 DEF RawToken, RawStart
  <2>2. e.stk = dec.stk /\ e.ns = dec.ns /\ e.err = "none" /\ IsDecoder(e)
    BY <1>1 DEF IsDecoder
  <2> HIDE DEF e
  <2>3. r = StartToken(e, raw)
    BY <1>2, <1>6, <2>1
  <2>4. sd = Append(scope, raw)
    BY <1>6 DEF ScopeAfter, ReadsInput
  <2>5. Stands(e, scope)
    BY <1>3, <2>2
  <2>6. IsSeq(raw.decls)
    <3>1. raw \in RawStarts
      BY <1>6, RawsAssumption DEF Raws, Text
    <3>2. raw.decls \in Seq([prefix : STRING, url : STRING])
      BY <3>1, RawsAssumption
    <3> QED BY <3>2, SeqIsSeq
  <2>7. StartAs(e, scope, raw, r)
    BY <2>3, <2>5, <2>6, StartSteps
  <2> QED BY <2>2, <2>4, <2>7 DEF StartAs, Opens, r
<1>7. CASE dec.toClose = << >> /\ raw.kind \in {"eof", "bad"}
  <2>1. \E x \in {"eof", "syntax"} : q = [d |-> [dec EXCEPT !.err = x], raw |-> Failed(x)]
    BY <1>7 DEF RawToken
  <2>2. q.raw.kind = "error" /\ q.d.err # "none"
    BY <1>1, <2>1 DEF Failed, IsDecoder
  <2>3. r = [d |-> q.d, t |-> q.raw]
    BY <1>2, <2>2
  <2> HIDE DEF q
  <2> QED BY <2>2, <2>3 DEF Errs, r
<1>8. CASE dec.toClose = << >> /\ raw.kind \in {"text", "comment"}
  <2>1. q = [d |-> dec, raw |-> raw]
    BY <1>8 DEF RawToken
  <2>2. r = [d |-> dec, t |-> raw]
    BY <1>2, <1>8, <2>1
  <2>3. sd = scope
    BY <1>8 DEF ScopeAfter, ReadsInput
  <2> QED BY <1>8, <2>2, <2>3 DEF Passes, r
<1>9. raw.kind \in {"start", "end", "text", "comment", "bad", "eof"}
  BY RawsAssumption DEF Raws, Text
<1> QED BY <1>4, <1>5, <1>6, <1>7, <1>8, <1>9

-----------------------------------------------------------------------------
(* The frame that ends a value *)

NoEOF(stk) == \A i \in 1..Len(stk) : stk[i].kind # "eof"

(* The frame is under the element called name and its translations. *)
ValueOpen(stk, name) ==
  \E j, m \in 1..Len(stk) :
    /\ j < m /\ stk[m] = StartFrame(name) /\ IsName(name)
    /\ \A i \in (j + 1)..(m - 1) : stk[i].kind = "ns"
    /\ stk[j].kind = "eof" /\ (j = 1 \/ stk[j - 1].kind # "ns")
    /\ \A i \in 1..Len(stk) : stk[i].kind = "eof" => i = j

\* An element that starts inside the value.
LEMMA ValueRises ==
  ASSUME NEW stk, Len(stk) \in Nat, NEW new, NEW name, NEW other,
         ValueOpen(stk, name), Rises(stk, new, other)
  PROVE  ValueOpen(new, name)
<1> DEFINE l == Len(stk)
           n == Len(new)
<1>1. PICK j, m \in 1..l :
        /\ j < m /\ stk[m] = StartFrame(name) /\ IsName(name)
        /\ \A i \in (j + 1)..(m - 1) : stk[i].kind = "ns"
        /\ stk[j].kind = "eof" /\ (j = 1 \/ stk[j - 1].kind # "ns")
        /\ \A i \in 1..l : stk[i].kind = "eof" => i = j
  BY DEF ValueOpen
<1>2. /\ l \in Nat /\ n \in Nat /\ l < n /\ \A i \in 1..l : new[i] = stk[i]
      /\ \A i \in (l + 1)..(n - 1) : new[i].kind = "ns"
      /\ new[n].kind = "start"
  BY DEF Rises, StartFrame
<1> HIDE DEF l, n
<1>3. j \in 1..n /\ m \in 1..n /\ new[j] = stk[j] /\ new[m] = stk[m]
  BY <1>1, <1>2
<1>4. ASSUME NEW i \in (j + 1)..(m - 1)
      PROVE  new[i].kind = "ns"
  <2>1. i \in 1..l
    BY <1>1, <1>2
  <2> QED BY <1>1, <1>2, <2>1
<1>5. j = 1 \/ new[j - 1].kind # "ns"
  <2>1. j # 1 => j - 1 \in 1..l
    BY <1>1, <1>2
  <2> QED BY <1>1, <1>2, <2>1
<1>6. ASSUME NEW i \in 1..n, new[i].kind = "eof"
      PROVE  i = j
  <2>1. CASE i \in 1..l
    BY <1>1, <1>2, <1>6, <2>1
  <2>2. CASE i \notin 1..l
    <3>1. i \in (l + 1)..(n - 1) \/ i = n
      BY <1>2, <2>2
    <3> QED BY <1>2, <1>6, <3>1
  <2> QED BY <2>1, <2>2
<1> QED BY <1>1, <1>3, <1>4, <1>5, <1>6 DEF ValueOpen, n

\* An element that ends inside the value is another, or the value ends.
LEMMA ValueFalls ==
  ASSUME NEW stk, NEW new, NEW name, NEW other, IsSeq(new),
         ValueOpen(stk, name), Falls(stk, new, other)
  PROVE  /\ other # name => ValueOpen(new, name)
         /\ TopIsEOF(new) => LET t == SubSeq(new, 1, Len(new) - 1)
                             IN  NoEOF(t) /\ TopIsElement(t)
<1> DEFINE l == Len(new)
           n == Len(stk)
<1>1. PICK j, m \in 1..n :
        /\ j < m /\ stk[m] = StartFrame(name) /\ IsName(name)
        /\ \A i \in (j + 1)..(m - 1) : stk[i].kind = "ns"
        /\ stk[j].kind = "eof" /\ (j = 1 \/ stk[j - 1].kind # "ns")
        /\ \A i \in 1..n : stk[i].kind = "eof" => i = j
  BY DEF ValueOpen
<1>2. /\ l \in Nat /\ n \in Nat /\ l < n /\ \A i \in 1..l : stk[i] = new[i]
      /\ \A i \in (l + 1)..(n - 1) : stk[i].kind = "ns"
      /\ stk[n] = StartFrame(other) /\ IsName(other)
  BY DEF Falls, Rises, IsSeq
<1> HIDE DEF n
<1>3. ASSUME other # name
      PROVE  ValueOpen(new, name)
  <2> HIDE DEF l
  <2>1. m # n
    <3>1. m = n => StartFrame(name) = StartFrame(other)
      BY <1>1, <1>2
    <3>2. StartFrame(name) = StartFrame(other) => name.space = other.space /\ name.local = other.local
      BY DEF StartFrame
    <3> QED BY <1>1, <1>2, <1>3, <3>1, <3>2 DEF IsName
  <2>2. m \in 1..l
    <3>1. stk[m].kind # "ns"
      BY <1>1 DEF StartFrame
    <3>2. m \notin (l + 1)..(n - 1)
      BY <1>2, <3>1
    <3> QED BY <1>2, <2>1, <3>2
  <2>3. j \in 1..l /\ new[j] = stk[j] /\ new[m] = stk[m]
    BY <1>1, <1>2, <2>2
  <2>4. ASSUME NEW i \in (j + 1)..(m - 1)
        PROVE  new[i].kind = "ns"
    <3>1. i \in 1..l
      BY <1>1, <1>2, <2>2
    <3> QED BY <1>1, <1>2, <3>1
  <2>5. j = 1 \/ new[j - 1].kind # "ns"
    <3>1. j # 1 => j - 1 \in 1..l
      BY <1>2, <2>3
    <3> QED BY <1>1, <1>2, <3>1
  <2>6. ASSUME NEW i \in 1..l, new[i].kind = "eof"
        PROVE  i = j
    <3>1. i \in 1..n
      BY <1>2
    <3> QED BY <1>1, <1>2, <2>6, <3>1
  <2>7. ValueOpen(new, name)
    BY <1>1, <2>2, <2>3, <2>4, <2>5, <2>6 DEF ValueOpen, l
  <2> QED BY <2>7
<1>4. ASSUME TopIsEOF(new)
      PROVE  LET t == SubSeq(new, 1, l - 1)
             IN  NoEOF(t) /\ TopIsElement(t)
  <2> DEFINE k == l - 1
             t == SubSeq(new, 1, k)
  <2>1. l \in 1..l /\ new[l].kind = "eof" /\ l \in 1..n /\ k \in Nat
    BY <1>2, <1>4 DEF TopIsEOF
  <2>2. l = j
    BY <1>1, <1>2, <2>1
  <2>3. Len(t) = k /\ \A i \in 1..k : t[i] = new[i]
    <3>1. k <= l /\ 1 <= k + 1 /\ 1 \in Nat \ {0}
      BY <2>1
    <3>2. Len(t) = k - 1 + 1 /\ \A i \in 1..(k - 1 + 1) : t[i] = new[1 + i - 1]
      BY <2>1, <3>1, SubSeqIsSeq
    <3> HIDE DEF k, t
    <3> QED BY <2>1, <3>2
  <2> HIDE DEF l, t
  <2>4. NoEOF(t)
    <3> SUFFICES ASSUME NEW i \in 1..k
                 PROVE  t[i].kind # "eof"
      BY <2>3 DEF NoEOF
    <3>1. i \in 1..l /\ i \in 1..n /\ i # j
      BY <1>2, <2>1, <2>2
    <3> QED BY <1>1, <1>2, <2>3, <3>1
  <2>5. TopIsElement(t)
    <3>1. CASE k = 0
      BY <2>3, <3>1 DEF TopIsElement
    <3>2. CASE k # 0
      <4>1. k \in 1..k /\ k \in 1..l /\ j # 1 /\ j - 1 = k
        BY <1>2, <2>1, <2>2, <3>2
      <4> QED BY <1>1, <1>2, <2>3, <4>1 DEF TopIsElement
    <3> QED BY <3>1, <3>2
  <2> QED BY <2>4, <2>5 DEF t
<1> QED BY <1>3, <1>4

\* pushEOF puts its frame under the element that started last.
LEMMA PushEOFSteps ==
  ASSUME NEW d, NEW sc, Stands(d, sc), NEW stk, Len(stk) \in Nat, NoEOF(stk),
         NEW name, Rises(stk, d.stk, name)
  PROVE  LET e == PushEOF(d)
         IN  /\ e.err = d.err /\ Stands(e, sc) /\ ValueOpen(e.stk, name)
             /\ Len(e.stk) # 0 /\ e.stk[Len(e.stk)] = StartFrame(name)
<1> DEFINE q == d.stk
           n == Len(q)
           I == {i \in 1..n : q[i].kind = "start"}
           last == SelectLastInSeq(q, LAMBDA f : f.kind = "start")
           b == SelectLastInSubSeq(q, 1, last - 1, LAMBDA f : f.kind # "ns")
           t == InsertAt(q, b + 1, EOFFrame)
           e == PushEOF(d)
<1>1. /\ IsName(name) /\ n \in Nat /\ Len(stk) < n /\ n \in 1..n /\ n - 1 \in Nat
      /\ \A i \in 1..Len(stk) : q[i] = stk[i]
      /\ \A i \in (Len(stk) + 1)..(n - 1) : q[i].kind = "ns"
      /\ q[n] = StartFrame(name) /\ q[n].kind = "start"
  BY DEF Rises, StartFrame
<1>2. e = [d EXCEPT !.stk = t]
  BY DEF PushEOF
<1>3. last = n
  <2>1. last = IF I # {} THEN Max(I) ELSE 0
    BY DEF SelectLastInSeq
  <2>2. n \in I /\ I \in SUBSET (1..n)
    BY <1>1
  <2> HIDE DEF I, last, n
  <2>3. last \in 0..n /\ \A i \in (last + 1)..n : i \notin I
    BY <1>1, <2>1, <2>2, GreatestNumber
  <2>4. CASE last # n
    <3>1. n \in (last + 1)..n
      BY <1>1, <2>3, <2>4
    <3> QED BY <2>2, <2>3, <3>1
  <2> QED BY <2>4
<1>4. /\ b \in 0..(n - 1) /\ (b # 0 => q[b].kind # "ns")
      /\ \A i \in (b + 1)..(n - 1) : q[i].kind = "ns"
  <2> DEFINE x == SelectLastInSubSeq(q, 1, n - 1, LAMBDA f : f.kind # "ns")
  <2>1. /\ x \in 0..(n - 1) /\ (x # 0 => q[x].kind # "ns")
        /\ \A i \in (x + 1)..(n - 1) : q[i].kind = "ns"
    BY <1>1, LastNoNs
  <2>2. b = x
    <3> HIDE DEF last, n
    <3> QED BY <1>3
  <2> HIDE DEF b, x
  <2> QED BY <2>1, <2>2
<1> HIDE DEF b
<1>5. b \in 0..n /\ b \in Nat
  BY <1>1, <1>4
<1>6. /\ Layered(t, d.ns, sc, Len(sc)) /\ Len(t) = n + 1
      /\ \A i \in 1..(n + 1) :
           t[i] = IF i <= b THEN q[i] ELSE IF i = b + 1 THEN EOFFrame ELSE q[i - 1]
  <2>1. Layered(q, d.ns, sc, Len(sc)) /\ (b = 0 \/ q[b].kind # "ns")
    BY <1>4 DEF Stands
  <2> HIDE DEF q
  <2> QED BY <1>5, <2>1, FrameInsert DEF n
<1> HIDE DEF t, e
<1>7. IsDecoder(e) /\ e.err = d.err /\ e.stk = t /\ e.ns = d.ns
  BY <1>2 DEF Stands, IsDecoder
<1> DEFINE j == b + 1
           m == n + 1
           l == Len(stk)
<1> HIDE DEF n, q
<1>8. j \in 1..m /\ m \in 1..m /\ j < m
  BY <1>1, <1>4, <1>5
<1>9. t[m] = q[n] /\ t[j] = EOFFrame
  <2>1. ~(m <= b) /\ m # b + 1 /\ m - 1 = n /\ ~(j <= b)
    BY <1>1, <1>4, <1>5
  <2> QED BY <1>6, <1>8, <2>1
<1>10. ASSUME NEW i \in (j + 1)..(m - 1)
       PROVE  t[i].kind = "ns"
  <2>1. i \in 1..(n + 1) /\ ~(i <= b) /\ i # b + 1 /\ i - 1 \in (b + 1)..(n - 1)
    BY <1>1, <1>5
  <2> QED BY <1>4, <1>6, <2>1
<1>11. j = 1 \/ t[j - 1].kind # "ns"
  <2>1. j # 1 => j - 1 = b /\ b \in 1..(n + 1) /\ b <= b /\ b # 0
    BY <1>5, <1>8
  <2> QED BY <1>4, <1>6, <2>1
<1>12. ASSUME NEW i \in 1..m, t[i].kind = "eof"
       PROVE  i = j
  <2>1. ASSUME NEW x \in 1..n
        PROVE  q[x].kind # "eof"
    <3>1. x \in 1..l \/ x \in (l + 1)..(n - 1) \/ x = n
      BY <1>1
    <3>2. CASE x \in 1..l
      <4>1. q[x] = stk[x]
        BY <1>1, <3>2 DEF q, n
      <4> QED BY <3>2, <4>1 DEF NoEOF
    <3>3. CASE x \in (l + 1)..(n - 1)
      BY <1>1, <3>3 DEF q, n
    <3>4. CASE x = n
      BY <1>1, <3>4 DEF q, n
    <3> QED BY <3>1, <3>2, <3>3, <3>4
  <2>2. CASE i <= b
    <3>1. i \in 1..n /\ i \in 1..(n + 1)
      BY <1>1, <1>5, <2>2
    <3> QED BY <1>6, <1>12, <2>1, <2>2, <3>1
  <2>3. CASE ~(i <= b) /\ i # b + 1
    <3>1. i - 1 \in 1..n
      BY <1>1, <1>5, <2>3
    <3> QED BY <1>6, <1>12, <2>1, <2>3, <3>1
  <2> QED BY <2>2, <2>3
<1>13. ValueOpen(t, name)
  <2>1. t[m] = StartFrame(name) /\ IsName(name)
    BY <1>1, <1>9 DEF q, n
  <2>2. t[j].kind = "eof" /\ Len(t) = m
    BY <1>6, <1>9 DEF EOFFrame
  <2> HIDE DEF j, m
  <2> QED BY <1>8, <1>10, <1>11, <1>12, <2>1, <2>2 DEF ValueOpen
<1>14. TopIsElement(t)
  <2>1. Len(t) = m /\ t[m].kind = "start"
    BY <1>1, <1>6, <1>9 DEF q, n
  <2> QED BY <2>1 DEF TopIsElement
<1>15. Stands(e, sc)
  BY <1>6, <1>7, <1>14 DEF Stands
<1>16. Len(t) # 0 /\ t[Len(t)] = StartFrame(name)
  BY <1>1, <1>6, <1>8, <1>9 DEF q, n
<1> QED BY <1>7, <1>13, <1>15, <1>16 DEF e

\* popEOF takes the frame off again.
LEMMA PopEOFSteps ==
  ASSUME NEW d, NEW sc, Stands(d, sc), TopIsEOF(d.stk),
         LET t == SubSeq(d.stk, 1, Len(d.stk) - 1) IN NoEOF(t) /\ TopIsElement(t)
  PROVE  LET e == PopEOF(d)
         IN  e.err = d.err /\ Stands(e, sc) /\ NoEOF(e.stk)
<1> DEFINE q == d.stk
           n == Len(q)
           m == n - 1
           t == SubSeq(q, 1, m)
           e == PopEOF(d)
<1>1. e = [d EXCEPT !.stk = t]
  BY DEF PopEOF, Front
<1>2. NoEOF(t) /\ TopIsElement(t)
  OBVIOUS
<1>3. IsSeq(q) /\ n \in Nat /\ n # 0 /\ q[n].kind = "eof"
  BY DEF Stands, Layered, IsSeq, TopIsEOF
<1>4. PICK c, g : Layers(q, d.ns, sc, Len(sc), c, g)
  BY DEF Stands, Layered
<1>5. n \in 1..n /\ m \in 0..n
  BY <1>3
<1>6. g[m] = d.ns /\ c[m] = Len(sc)
  BY <1>3, <1>4, <1>5 DEF Layers, Under
<1>7. Layered(t, d.ns, sc, Len(sc))
  <2>1. Layered(t, g[m], sc, c[m])
    <3> HIDE DEF q, m
    <3> QED BY <1>3, <1>4, <1>5, FrameCut DEF n
  <2> QED BY <1>6, <2>1
<1> HIDE DEF t, e
<1>8. IsDecoder(e) /\ e.err = d.err /\ e.stk = t /\ e.ns = d.ns
  BY <1>1 DEF Stands, IsDecoder
<1> QED BY <1>2, <1>7, <1>8 DEF Stands, e

\* Between properties there is no frame to find, and an element more or less
\* brings none.
LEMMA NoEOFSteps ==
  ASSUME NEW stk, Len(stk) \in Nat, NoEOF(stk), NEW new, Len(new) \in Nat, NEW name,
         Rises(stk, new, name) \/ Falls(stk, new, name)
  PROVE  NoEOF(new)
<1>1. CASE Rises(stk, new, name)
  <2> SUFFICES ASSUME NEW i \in 1..Len(new)
               PROVE  new[i].kind # "eof"
    BY DEF NoEOF
  <2> DEFINE l == Len(stk)
             n == Len(new)
  <2>1. i \in 1..l \/ i \in (l + 1)..(n - 1) \/ i = n
    OBVIOUS
  <2>2. CASE i \in 1..l
    BY <1>1, <2>2 DEF Rises, NoEOF
  <2>3. CASE i \in (l + 1)..(n - 1)
    BY <1>1, <2>3 DEF Rises
  <2>4. CASE i = n
    BY <1>1, <2>4 DEF Rises, StartFrame
  <2> QED BY <2>1, <2>2, <2>3, <2>4
<1>2. CASE Falls(stk, new, name)
  <2> SUFFICES ASSUME NEW i \in 1..Len(new)
               PROVE  new[i].kind # "eof"
    BY DEF NoEOF
  <2>1. i \in 1..Len(stk) /\ stk[i] = new[i]
    BY <1>2 DEF Falls, Rises
  <2> QED BY <2>1 DEF NoEOF
<1> QED BY <1>1, <1>2

-----------------------------------------------------------------------------
(* While it has not failed the decoder stands inside the open tags; the     *)
(* frame that ends a value is there while the value is read, and only then. *)
DecoderInvariant ==
  /\ dec.err = "none" => Stands(dec, scope)
  /\ phase # "refused" => dec.err = "none"
  /\ phase = "props" => NoEOF(dec.stk)
  /\ phase = "value" => ValueOpen(dec.stk, start)

\* A decoder that has read nothing.
LEMMA NewStands == Stands(NewDecoder, << >>)
<1> DEFINE e == << >>
           d == NewDecoder
           c == [i \in 0..0 |-> 0]
           g == [i \in 0..0 |-> e]
<1>1. IsSeq(e) /\ Len(e) = 0 /\ DOMAIN e = {} /\ 1..0 = {} /\ 0..0 = {0}
  <2>1. DOMAIN << >> = {} /\ Len(<< >>) = 0 /\ 1..0 = {} /\ 0..0 = {0} /\ << >> \in Seq({})
    OBVIOUS
  <2>2. IsSeq(<< >>)
    BY <2>1, SeqIsSeq
  <2> QED BY <2>1, <2>2
<1>2. IsMap(e)
  BY <1>1 DEF IsSeq, IsMap
<1>3. d.stk = e /\ d.ns = e /\ IsDecoder(d)
  BY DEF NewDecoder, IsDecoder
<1> HIDE DEF e, d
<1>4. Among(e, 0) = {}
  BY <1>1 DEF Among
<1>5. Exact(e, e, {})
  BY <1>1, <1>2 DEF Exact
<1>6. c[0] = 0 /\ g[0] = e
  OBVIOUS
<1> HIDE DEF c, g
<1>7. Layers(e, e, e, 0, c, g)
  <2>1. \A i \in 0..0 : i = 0
    OBVIOUS
  <2>2. \A i \in 0..0 : Exact(g[i], e, Among(e, c[i]))
    BY <1>4, <1>5, <1>6, <2>1
  <2>3. (\A i \in 0..0 : c[i] \in Nat) /\ (\A i, j \in 0..0 : i <= j => c[i] <= c[j])
    BY <1>6, <2>1
  <2> QED BY <1>1, <1>6, <2>2, <2>3 DEF Layers
<1> QED BY <1>1, <1>3, <1>7 DEF Stands, Layered, TopIsElement, e, d

\* At first nothing is open.
LEMMA DecoderInit ==
  ASSUME Init
  PROVE  DecoderInvariant
<1>1. dec = NewDecoder /\ scope = << >> /\ phase = "props"
  BY DEF Init
<1>2. dec.err = "none" /\ dec.stk = << >> /\ Len(<< >>) = 0 /\ 1..0 = {}
  BY <1>1 DEF NewDecoder
<1>3. NoEOF(dec.stk)
  BY <1>2 DEF NoEOF
<1> QED BY <1>1, <1>2, <1>3, NewStands DEF DecoderInvariant

\* Between properties.
LEMMA PropsSteps ==
  ASSUME DecoderInvariant, NEW raw \in Raws, BetweenProps(raw)
  PROVE  DecoderInvariant'
<1> DEFINE r == Token(dec, raw)
           sd == ScopeAfter(dec, raw)
<1>1. phase = "props" /\ scope' = sd
  BY DEF BetweenProps
<1>2. \/ r.t.kind = "error" /\ phase' = "refused" /\ dec' = r.d
      \/ /\ r.t.kind = "start" /\ phase' = "value" /\ start' = r.t.name /\ dec' = PushEOF(r.d)
      \/ r.t.kind # "error" /\ phase' = phase /\ dec' = r.d
  BY Zenon DEF BetweenProps
<1>3. dec.err = "none" /\ Stands(dec, scope) /\ NoEOF(dec.stk)
  BY <1>1 DEF DecoderInvariant
<1>4. Len(dec.stk) \in Nat
  BY <1>3 DEF Stands, Layered, IsSeq
<1>5. ~TopIsEOF(dec.stk)
  BY <1>3, <1>4 DEF TopIsEOF, NoEOF
<1>6. Errs(dec, r, sd) \/ Opens(dec, r, sd) \/ Closes(dec, r, sd) \/ Passes(dec, r, sd)
  BY <1>3, <1>5, TokenSteps
<1> HIDE DEF r, sd
<1>7. CASE r.t.kind = "error" /\ phase' = "refused" /\ dec' = r.d
  <2>1. dec'.err # "none"
    BY <1>6, <1>7 DEF Errs, Opens, Closes, Passes
  <2> QED BY <1>7, <2>1 DEF DecoderInvariant
<1>8. CASE r.t.kind = "start" /\ phase' = "value" /\ start' = r.t.name /\ dec' = PushEOF(r.d)
  <2>1. Opens(dec, r, sd)
    BY <1>6, <1>8 DEF Errs, Opens, Closes, Passes
  <2>2. r.d.err = "none" /\ Stands(r.d, sd) /\ Rises(dec.stk, r.d.stk, r.t.name)
    BY <2>1 DEF Opens
  <2> DEFINE d == r.d
             name == r.t.name
  <2>3. dec'.err = d.err /\ Stands(dec', sd) /\ ValueOpen(dec'.stk, name)
    <3>1. Stands(d, sd) /\ Rises(dec.stk, d.stk, name) /\ dec' = PushEOF(d)
      BY <1>8, <2>2
    <3> HIDE DEF d, name
    <3> QED BY <1>3, <1>4, <3>1, PushEOFSteps
  <2> QED BY <1>1, <1>8, <2>2, <2>3 DEF DecoderInvariant
<1>9. CASE r.t.kind # "error" /\ phase' = phase /\ dec' = r.d
  <2>1. r.d.err = "none" /\ Stands(r.d, sd)
    BY <1>3, <1>6, <1>9 DEF Errs, Opens, Closes, Passes
  <2>2. NoEOF(r.d.stk)
    <3>1. CASE r.d = dec
      BY <1>3, <3>1
    <3>2. CASE Rises(dec.stk, r.d.stk, r.t.name) \/ Falls(dec.stk, r.d.stk, r.t.name)
      <4>1. Len(r.d.stk) \in Nat
        BY <2>1 DEF Stands, Layered, IsSeq
      <4> QED BY <1>3, <1>4, <3>2, <4>1, NoEOFSteps
    <3> QED BY <1>6, <1>9, <3>1, <3>2 DEF Errs, Opens, Closes, Passes
  <2> QED BY <1>1, <1>9, <2>1, <2>2 DEF DecoderInvariant
<1> QED BY <1>2, <1>7, <1>8, <1>9

\* In a value.
LEMMA ValueSteps ==
  ASSUME DecoderInvariant, NEW raw \in Raws, InValue(raw)
  PROVE  DecoderInvariant'
<1> DEFINE r == Token(dec, raw)
           sd == ScopeAfter(dec, raw)
<1>1. phase = "value" /\ scope' = sd
  BY DEF InValue
<1>2. \/ phase' = "refused" /\ dec' = r.d
      \/ /\ r.t.kind = "end" /\ CanPopEOF(r.d) /\ phase' = "props" /\ dec' = PopEOF(r.d)
      \/ /\ r.t.kind # "error" /\ ~(r.t.kind = "end" /\ r.t.name = start)
         /\ phase' = phase /\ start' = start /\ dec' = r.d
  BY Zenon DEF InValue
<1>3. dec.err = "none" /\ Stands(dec, scope) /\ ValueOpen(dec.stk, start)
  BY <1>1 DEF DecoderInvariant
<1>4. Len(dec.stk) \in Nat
  BY <1>3 DEF Stands, Layered, IsSeq
<1>5. ~TopIsEOF(dec.stk)
  BY <1>3, <1>4 DEF TopIsEOF, ValueOpen
<1>6. Errs(dec, r, sd) \/ Opens(dec, r, sd) \/ Closes(dec, r, sd) \/ Passes(dec, r, sd)
  BY <1>3, <1>5, TokenSteps
<1> HIDE DEF r, sd
<1>7. r.d.err = "none" => Stands(r.d, sd)
  BY <1>6 DEF Errs, Opens, Closes, Passes
<1>8. CASE phase' = "refused" /\ dec' = r.d
  BY <1>1, <1>7, <1>8 DEF DecoderInvariant
<1>9. CASE r.t.kind = "end" /\ CanPopEOF(r.d) /\ phase' = "props" /\ dec' = PopEOF(r.d)
  <2>1. Closes(dec, r, sd)
    BY <1>6, <1>9 DEF Errs, Opens, Closes, Passes
  <2>2. r.d.err = "none" /\ Stands(r.d, sd) /\ Falls(dec.stk, r.d.stk, r.t.name)
    BY <2>1 DEF Closes
  <2> DEFINE d == r.d
             name == r.t.name
  <2>3. /\ IsSeq(d.stk) /\ TopIsEOF(d.stk) /\ Stands(d, sd)
        /\ Falls(dec.stk, d.stk, name) /\ dec' = PopEOF(d)
    <3>1. IsSeq(d.stk)
      BY <2>2 DEF Stands, Layered
    <3> QED BY <1>9, <2>2, <3>1, TopKindIs DEF CanPopEOF
  <2> HIDE DEF d, name
  <2>4. LET t == SubSeq(d.stk, 1, Len(d.stk) - 1)
        IN  NoEOF(t) /\ TopIsElement(t)
    BY <1>3, <2>3, ValueFalls
  <2>5. dec'.err = d.err /\ Stands(dec', sd) /\ NoEOF(dec'.stk)
    BY <2>3, <2>4, PopEOFSteps
  <2> QED BY <1>1, <1>9, <2>2, <2>5 DEF DecoderInvariant, d
<1>10. CASE /\ r.t.kind # "error" /\ ~(r.t.kind = "end" /\ r.t.name = start)
            /\ phase' = phase /\ start' = start /\ dec' = r.d
  <2>1. r.d.err = "none"
    BY <1>3, <1>6, <1>10 DEF Errs, Opens, Closes, Passes
  <2>2. IsSeq(r.d.stk)
    BY <1>7, <2>1 DEF Stands, Layered
  <2>3. ValueOpen(r.d.stk, start)
    <3>1. CASE r.d = dec
      BY <1>3, <3>1
    <3>2. CASE Rises(dec.stk, r.d.stk, r.t.name)
      BY <1>3, <1>4, <3>2, ValueRises
    <3>3. CASE r.t.kind = "end" /\ Falls(dec.stk, r.d.stk, r.t.name)
      BY <1>3, <1>10, <2>2, <3>3, ValueFalls
    <3> QED BY <1>6, <1>10, <3>1, <3>2, <3>3 DEF Errs, Opens, Closes, Passes
  <2> QED BY <1>1, <1>7, <1>10, <2>1, <2>3 DEF DecoderInvariant
<1> QED BY <1>2, <1>8, <1>9, <1>10

\* The decoder's stack is what it must be, for every document, read to its
\* end or refused.
THEOREM StackFollowsTags == Spec => []DecoderInvariant
<1>1. Init => DecoderInvariant
  BY DecoderInit
<1>2. DecoderInvariant /\ [Next]_vars => DecoderInvariant'
  <2> SUFFICES ASSUME DecoderInvariant, [Next]_vars
               PROVE  DecoderInvariant'
    OBVIOUS
  <2>1. CASE \E raw \in Raws : BetweenProps(raw) \/ InValue(raw)
    BY <2>1, PropsSteps, ValueSteps
  <2>2. CASE UNCHANGED vars
    BY <2>2 DEF DecoderInvariant, vars
  <2> QED BY <2>1, <2>2 DEF Next, Stopped
<1> QED BY <1>1, <1>2, PTL DEF Spec

\* The name spaces in force are those that the open elements declare, for
\* every document: each end tag takes back what its start tag declared.
THEOREM NameSpacesFollowTags == Spec => []NsExact
<1>1. DecoderInvariant => NsExact
  <2> SUFFICES ASSUME DecoderInvariant, dec.err = "none"
               PROVE  NsExact
    BY DEF NsExact
  <2>1. Stands(dec, scope)
    BY DEF DecoderInvariant
  <2>2. Exact(dec.ns, scope, Among(scope, Len(scope)))
    BY <2>1, TopIsExact DEF Stands
  <2>3. DOMAIN scope = 1..Len(scope)
    BY <2>1 DEF Stands, IsSeq
  <2>4. Places = Among(scope, Len(scope))
    BY <2>3 DEF Places, Among
  <2>5. \A a : DeclAt(a) = DeclIn(scope, a)
    BY DEF DeclAt, DeclIn
  <2> QED BY <2>2, <2>4, <2>5 DEF NsExact, Exact
<1> QED BY <1>1, StackFollowsTags, PTL

\* The elements on the stack, counted.
LEMMA ElementsCounted ==
  ASSUME NEW stk, NEW ns, NEW sc, NEW k, Layered(stk, ns, sc, k)
  PROVE  Cardinality({i \in 1..Len(stk) : stk[i].kind = "start"}) = k
<1> DEFINE n == Len(stk)
           E(l) == {i \in 1..l : stk[i].kind = "start"}
<1>1. PICK c, g : Layers(stk, ns, sc, k, c, g)
  BY DEF Layered
<1>2. n \in Nat
  BY DEF Layered, IsSeq
<1>3. /\ c[0] = 0 /\ c[n] = k /\ \A i \in 0..n : c[i] \in Nat
      /\ \A i \in 1..n : c[i] = IF stk[i].kind = "start" THEN c[i - 1] + 1 ELSE c[i - 1]
  BY <1>1 DEF Layers
<1> DEFINE Counted(l) == IsFiniteSet(E(l)) /\ Cardinality(E(l)) = c[l]
           T == {l \in 0..n : Counted(l)}
<1>4. Counted(0)
  <2>1. E(0) = {}
    OBVIOUS
  <2> HIDE DEF E
  <2> QED BY <1>3, <2>1, FS_EmptySet
<1>5. ASSUME NEW l \in 1..n, Counted(l - 1)
      PROVE  Counted(l)
  <2>1. l \notin E(l - 1) /\ l - 1 \in 0..n
    OBVIOUS
  <2>2. E(l) = IF stk[l].kind = "start" THEN E(l - 1) \cup {l} ELSE E(l - 1)
    <3>1. 1..l = 1..(l - 1) \cup {l}
      OBVIOUS
    <3> QED BY <3>1
  <2>3. IsFiniteSet(E(l - 1)) /\ Cardinality(E(l - 1)) = c[l - 1]
    BY <1>5
  <2> HIDE DEF E, n
  <2>4. IsFiniteSet(E(l - 1) \cup {l}) /\ Cardinality(E(l - 1) \cup {l}) = c[l - 1] + 1
    BY <2>1, <2>3, FS_AddElement
  <2> QED BY <1>3, <2>2, <2>3, <2>4
<1>6. Counted(n)
  <2> HIDE DEF Counted, n
  <2>1. 0 \in T /\ \A l \in 1..n : l - 1 \in T => l \in T
    BY <1>2, <1>4, <1>5
  <2> HIDE DEF T
  <2>2. \A l \in 0..n : l \in T
    BY <1>2, <2>1, UpTo
  <2>3. n \in T
    BY <1>2, <2>2
  <2> QED BY <2>3 DEF T
<1> QED BY <1>3, <1>6

\* A value takes the tokens of its own element and no more: between two
\* properties no frame that ends a value is left, and as many elements are
\* open on the stack as in the document.
THEOREM ValuesTakeTheirElement == Spec => []ValueTakesItsElement
<1>1. DecoderInvariant => ValueTakesItsElement
  <2> SUFFICES ASSUME DecoderInvariant, phase = "props"
               PROVE  /\ \A i \in DOMAIN dec.stk : dec.stk[i].kind # "eof"
                      /\ Cardinality({i \in DOMAIN dec.stk : dec.stk[i].kind = "start"}) = Len(scope)
    BY DEF ValueTakesItsElement
  <2>1. Stands(dec, scope) /\ NoEOF(dec.stk)
    BY DEF DecoderInvariant
  <2>2. DOMAIN dec.stk = 1..Len(dec.stk)
    BY <2>1 DEF Stands, Layered, IsSeq
  <2>3. Cardinality({i \in 1..Len(dec.stk) : dec.stk[i].kind = "start"}) = Len(scope)
    BY <2>1, ElementsCounted DEF Stands
  <2> QED BY <2>1, <2>2, <2>3 DEF NoEOF
<1> QED BY <1>1, StackFollowsTags, PTL

-----------------------------------------------------------------------------
(* The encoder of a value, the decoder that reads it again and the one      *)
(* that reads the request, level by level                                  *)

\* Of the declarations of a prefix one is the last.
LEMMA LastDeclared ==
  ASSUME NEW sc, NEW k \in Nat, \A i \in 1..k : IsSeq(sc[i].decls),
         NEW prefix, \E a \in Among(sc, k) : DeclIn(sc, a).prefix = prefix
  PROVE  \E a \in Among(sc, k) :
           /\ DeclIn(sc, a).prefix = prefix
           /\ \A b \in Among(sc, k) : LaterIn(b, a) => DeclIn(sc, b).prefix # prefix
<1> DEFINE A == Among(sc, k)
<1>0. ASSUME NEW a
      PROVE  a \in A <=> \E i \in 1..k : \E j \in 1..Len(sc[i].decls) : a = <<i, j>>
  <2>1. \A i \in 1..k : DOMAIN sc[i].decls = 1..Len(sc[i].decls)
    BY DEF IsSeq
  <2>2. a \in A <=> \E i \in 1..k : \E j \in DOMAIN sc[i].decls : a = <<i, j>>
    BY DEF Among
  <2> QED BY <2>1, <2>2
<1> DEFINE Here(i, j) == j \in 1..Len(sc[i].decls) /\ DeclIn(sc, <<i, j>>).prefix = prefix
           I == {i \in 1..k : \E j : Here(i, j)}
           m == IF I # {} THEN Max(I) ELSE 0
           J == {j \in 1..Len(sc[m].decls) : Here(m, j)}
           l == IF J # {} THEN Max(J) ELSE 0
<1>1. PICK a \in A : DeclIn(sc, a).prefix = prefix
  OBVIOUS
<1> HIDE DEF A
<1>2. PICK x \in 1..k : \E y \in 1..Len(sc[x].decls) : a = <<x, y>>
  BY <1>0
<1>3. x \in I /\ I \in SUBSET (1..k)
  BY <1>1, <1>2
<1> HIDE DEF I
<1>4. m \in 0..k /\ (m # 0 => m \in I) /\ \A i \in (m + 1)..k : i \notin I
  BY <1>3, GreatestNumber
<1> HIDE DEF m
<1>5. m # 0
  <2>1. m = 0 => x \in (m + 1)..k
    BY <1>2
  <2> QED BY <1>3, <1>4, <2>1
<1>6. m \in 1..k /\ \E j : Here(m, j)
  BY <1>4, <1>5 DEF I
<1>7. Len(sc[m].decls) \in Nat
  BY <1>6 DEF IsSeq
<1>8. J \in SUBSET (1..Len(sc[m].decls)) /\ J # {}
  BY <1>6
<1> HIDE DEF J
<1>9. l \in 0..Len(sc[m].decls) /\ (l # 0 => l \in J)
      /\ \A j \in (l + 1)..Len(sc[m].decls) : j \notin J
  BY <1>7, <1>8, GreatestNumber
<1>10. l # 0
  <2> HIDE DEF l
  <2>1. PICK j \in J : TRUE
    BY <1>8
  <2>2. j \in 1..Len(sc[m].decls)
    BY <1>8
  <2>3. l = 0 => j \in (l + 1)..Len(sc[m].decls)
    BY <2>2
  <2> QED BY <1>9, <2>1, <2>3
<1> HIDE DEF l
<1>11. l \in 1..Len(sc[m].decls) /\ DeclIn(sc, <<m, l>>).prefix = prefix
  BY <1>9, <1>10 DEF J
<1>12. <<m, l>> \in A
  BY <1>0, <1>6, <1>11
<1>13. ASSUME NEW b \in A, LaterIn(b, <<m, l>>)
       PROVE  DeclIn(sc, b).prefix # prefix
  <2>0. PICK i \in 1..k : \E j \in 1..Len(sc[i].decls) : b = <<i, j>>
    BY <1>0
  <2>1. PICK j \in 1..Len(sc[i].decls) : b = <<i, j>>
    BY <2>0
  <2>2. b[1] = i /\ b[2] = j /\ <<m, l>>[1] = m /\ <<m, l>>[2] = l
    BY <2>1
  <2>3. i > m \/ (i = m /\ j > l)
    BY <1>13, <2>2 DEF LaterIn
  <2>4. CASE i > m
    <3>1. i \in (m + 1)..k
      BY <1>6, <2>1, <2>4
    <3>2. i \notin I
      BY <1>4, <3>1
    <3> QED BY <2>1, <3>2 DEF I
  <2>5. CASE i = m /\ j > l
    <3>1. j \in 1..Len(sc[m].decls) /\ j \in (l + 1)..Len(sc[m].decls)
      BY <1>7, <1>11, <2>1, <2>5
    <3>2. j \notin J
      BY <1>9, <3>1
    <3> QED BY <2>1, <2>5, <3>1, <3>2 DEF J
  <2> QED BY <2>3, <2>4, <2>5
<1> QED BY <1>11, <1>12, <1>13 DEF A

\* What is exact is so in one way.
LEMMA ExactOnce ==
  ASSUME NEW ns, NEW other, NEW sc, NEW k \in Nat, \A i \in 1..k : IsSeq(sc[i].decls),
         Exact(ns, sc, Among(sc, k)), Exact(other, sc, Among(sc, k))
  PROVE  ns = other
<1> DEFINE A == Among(sc, k)
<1>1. /\ IsMap(ns) /\ IsMap(other) /\ DOMAIN ns = DOMAIN other
      /\ DOMAIN ns = {DeclIn(sc, a).prefix : a \in A}
      /\ \A a \in A : (\A b \in A : LaterIn(b, a) => DeclIn(sc, b).prefix # DeclIn(sc, a).prefix) =>
           /\ ns[DeclIn(sc, a).prefix] = DeclIn(sc, a).url
           /\ other[DeclIn(sc, a).prefix] = DeclIn(sc, a).url
  BY DEF Exact
<1> HIDE DEF A
<1>2. ASSUME NEW prefix \in DOMAIN ns
      PROVE  ns[prefix] = other[prefix]
  <2>1. \E a \in A : DeclIn(sc, a).prefix = prefix
    BY <1>1
  <2>2. PICK a \in A : /\ DeclIn(sc, a).prefix = prefix
                       /\ \A b \in A : LaterIn(b, a) => DeclIn(sc, b).prefix # prefix
    BY <2>1, LastDeclared DEF A
  <2> QED BY <1>1, <2>2
<1> QED BY <1>1, <1>2, SameMaps

\* Names that make the same frame are the same.
LEMMA FrameOnce ==
  ASSUME NEW a, NEW b, IsName(a), IsName(b), StartFrame(a) = StartFrame(b)
  PROVE  a = b
<1>1. a.space = b.space /\ a.local = b.local
  BY DEF StartFrame
<1> QED BY <1>1 DEF IsName

\* An element ends as it started: with its name, and with what was under it.
LEMMA FallsOnce ==
  ASSUME NEW stk, NEW low, NEW new, NEW a, NEW b,
         IsSeq(low), TopIsElement(low), Rises(low, stk, a),
         IsSeq(new), Falls(stk, new, b)
  PROVE  a = b /\ new = low
<1> DEFINE n == Len(stk)
           l == Len(low)
           m == Len(new)
<1>1. /\ n \in Nat /\ l \in Nat /\ m \in Nat /\ l < n /\ m < n
      /\ IsName(a) /\ IsName(b) /\ stk[n] = StartFrame(a) /\ stk[n] = StartFrame(b)
      /\ (\A i \in 1..l : stk[i] = low[i]) /\ (\A i \in 1..m : stk[i] = new[i])
      /\ (\A i \in (l + 1)..(n - 1) : stk[i].kind = "ns")
      /\ (\A i \in (m + 1)..(n - 1) : stk[i].kind = "ns")
      /\ (l = 0 \/ low[l].kind # "ns") /\ (m = 0 \/ new[m].kind # "ns")
  BY DEF Falls, Rises, IsSeq, TopIsElement
<1>2. a = b
  BY <1>1, FrameOnce
<1> HIDE DEF n, l, m
<1>3. l = m
  <2>1. ~(l < m)
    <3>1. l < m => m \in (l + 1)..(n - 1) /\ m \in 1..m /\ m # 0
      BY <1>1
    <3> QED BY <1>1, <3>1
  <2>2. ~(m < l)
    <3>1. m < l => l \in (m + 1)..(n - 1) /\ l \in 1..l /\ l # 0
      BY <1>1
    <3> QED BY <1>1, <3>1
  <2> QED BY <1>1, <2>1, <2>2
<1>4. new = low
  <2>1. new = [i \in 1..m |-> new[i]] /\ low = [i \in 1..l |-> low[i]]
    BY DEF IsSeq, m, l
  <2>2. \A i \in 1..l : new[i] = low[i]
    BY <1>1, <1>3
  <2> QED BY <1>3, <2>1, <2>2
<1> QED BY <1>2, <1>4

\* A start tag as the encoder writes it.
LEMMA StartIsWritten ==
  ASSUME NEW p, EncInv(p), NEW t, IsStart(t)
  PROVE  LET r == WriteStart(p, t)
         IN  /\ r.raw.kind = "start" /\ r.raw.empty = FALSE /\ IsSeq(r.raw.decls)
             /\ r.raw.prefix = PrefixForNS(r.p, t.name.space, FALSE) /\ r.raw.local = t.name.local
<1> DEFINE r == WriteStart(p, t)
           own == OwnPrefixes(r.p)
           decls == [i \in DOMAIN own |-> [prefix |-> own[i].prefix,
                                           url |-> NsForPrefix(r.p, own[i].prefix)]]
<1>1. /\ r.raw.kind = "start" /\ r.raw.empty = FALSE /\ r.raw.decls = decls
      /\ r.raw.prefix = PrefixForNS(r.p, t.name.space, FALSE) /\ r.raw.local = t.name.local
  BY DEF WriteStart
<1>2. IsSeq(r.p.prefixes)
  <2>1. Inner(r.p, p, Append(p.tags, t.name))
    BY StartKeeps
  <2> QED BY <2>1 DEF Inner
<1> HIDE DEF r
<1>3. IsSeq(own)
  <2> DEFINE q == r.p.prefixes
             m == SelectLastInSeq(q, LAMBDA x : x.mark)
             sub == SubSeq(q, m + 1, Len(q))
  <2>1. m \in 0..Len(q)
    BY <1>2, LastMark
  <2>2. own = Reverse(sub)
    BY DEF OwnPrefixes
  <2>3. Len(q) \in Nat
    BY <1>2 DEF IsSeq
  <2> HIDE DEF m
  <2>4. m + 1 \in Nat \ {0} /\ m + 1 <= Len(q) + 1 /\ Len(q) <= Len(q)
    BY <2>1, <2>3
  <2>5. IsSeq(sub)
    BY <1>2, <2>3, <2>4, SubSeqIsSeq
  <2> HIDE DEF sub
  <2> QED BY <2>2, <2>5, ReverseIsSeq
<1> HIDE DEF own
<1>4. IsSeq(decls)
  <2>1. DOMAIN own = 1..Len(own) /\ Len(own) \in Nat
    BY <1>3 DEF IsSeq
  <2>2. decls \in Seq({decls[i] : i \in 1..Len(own)})
    BY <2>1
  <2> QED BY <2>2, SeqIsSeq
<1> QED BY <1>1, <1>4 DEF r

(* The decoder r stands in the tags of sc and can read on. *)
Ready(r, sc) ==
  /\ Stands(r, sc) /\ r.err = "none" /\ r.toClose = << >> /\ ~TopIsEOF(r.stk)
  /\ \A i \in 1..Len(sc) : IsSeq(sc[i].decls)

NotClosing(r) == [r EXCEPT !.toClose = << >>]

\* It takes a start tag that does not close itself.
LEMMA ReadyTakes ==
  ASSUME NEW r, NEW sc, Ready(r, sc),
         NEW raw, raw.kind = "start", raw.empty = FALSE, IsSeq(raw.decls)
  PROVE  LET rd == Token(r, raw)
         IN  /\ StartAs(NotClosing(r), sc, raw, rd) /\ Ready(rd.d, Append(sc, raw))
             /\ NotClosing(r).stk = r.stk /\ NotClosing(r).ns = r.ns /\ IsDecoder(NotClosing(r))
<1> DEFINE e == NotClosing(r)
           rd == Token(r, raw)
           sd == Append(sc, raw)
<1>1. Stands(r, sc) /\ IsDecoder(r) /\ IsSeq(r.stk) /\ IsSeq(sc) /\ Len(sc) \in Nat
  BY DEF Ready, Stands, Layered, IsSeq
<1>2. e.stk = r.stk /\ e.ns = r.ns /\ e.err = "none" /\ e.toClose = << >> /\ IsDecoder(e)
  BY <1>1 DEF NotClosing, Ready, IsDecoder
<1>3. Stands(e, sc)
  <2> HIDE DEF e
  <2> QED BY <1>1, <1>2 DEF Stands
<1>4. RawToken(r, raw) = [d |-> e, raw |-> raw]
  BY DEF RawToken, RawStart, Ready, NotClosing
<1>5. TopKind(r) # "eof"
  BY <1>1, TopKindIs DEF Ready
<1>6. rd = StartToken(e, raw)
  <2> HIDE DEF e
  <2> QED BY <1>4, <1>5 DEF Token
<1> HIDE DEF e, rd
<1>7. StartAs(e, sc, raw, rd)
  BY <1>3, <1>6, StartSteps
<1>8. rd.d.err = "none" /\ rd.d.toClose = << >> /\ Stands(rd.d, sd) /\ Rises(e.stk, rd.d.stk, rd.t.name)
  BY <1>2, <1>7 DEF StartAs
<1>9. ~TopIsEOF(rd.d.stk)
  BY <1>8 DEF Rises, TopIsEOF, StartFrame
<1>10. \A i \in 1..Len(sd) : IsSeq(sd[i].decls)
  <2>1. Len(sd) = Len(sc) + 1 /\ sd[Len(sc) + 1] = raw /\ \A i \in 1..Len(sc) : sd[i] = sc[i]
    BY <1>1, AppendIsSeq
  <2> HIDE DEF sd
  <2>2. \A i \in 1..Len(sd) : i \in 1..Len(sc) \/ i = Len(sc) + 1
    BY <1>1, <2>1
  <2> QED BY <2>1, <2>2 DEF Ready
<1> QED BY <1>2, <1>7, <1>8, <1>9, <1>10 DEF e, rd, Ready

(* The prefix with which the encoder writes the name of an element, and the *)
(* name that a decoder makes of it.                                        *)
NoSpaces == Spaces(NewPrinter)

PrefixIn(s, url) ==
  IF url = XmlURL THEN "xml" ELSE IF url = s.d THEN "" ELSE Look(s.x, url)

ReadName(s, ns, name) ==
  [space |-> Translate(ns, PrefixIn(s, name.space), TRUE), local |-> name.local]

(* What each of the three has when an element of the value has started: the *)
(* encoder its name spaces and its stack of definitions, the reader its     *)
(* stack and its translations, the request's decoder its stack d.          *)
Snapshot(p, r, d) ==
  [s |-> Spaces(p), u |-> p.prefixes, r |-> r.stk, ns |-> r.ns, d |-> d]

Whole(a) ==
  /\ a = [s |-> a.s, u |-> a.u, r |-> a.r, ns |-> a.ns, d |-> a.d]
  /\ IsSeq(a.r) /\ TopIsElement(a.r) /\ ~TopIsEOF(a.r) /\ IsSeq(a.d) /\ TopIsElement(a.d)

(* From b to a an element called name has started. *)
Level(b, a, name) ==
  /\ Atop(a.s, a.u, b.s, b.u)
  /\ Rises(b.r, a.r, ReadName(a.s, a.ns, name))
  /\ Rises(b.d, a.d, name)

(* z[i] is the snapshot of the value's i-th open element, z[0] the one from *)
(* before the first; k of the tags of sc were open then.                   *)
Levels(z, n, k, sc, tags) ==
  /\ n \in Nat /\ k \in Nat
  /\ z[0].s = NoSpaces /\ z[0].u = << >>
  /\ \A i \in 0..n : Whole(z[i]) /\ Exact(z[i].ns, sc, Among(sc, k + i))
  /\ \A i \in 1..n : Level(z[i - 1], z[i], tags[i])

Paired(e, r, d, z, sc) ==
  /\ EncInv(e) /\ IsSeq(e.tags) /\ Ready(r, sc)
  /\ z[Len(e.tags)] = Snapshot(e, r, d)
  /\ Levels(z, Len(e.tags), Len(sc) - Len(e.tags), sc, e.tags)

Pushed(z, n, a) == [i \in 0..(n + 1) |-> IF i <= n THEN z[i] ELSE a]

\* Before the first element.
LEMMA NoLevel ==
  ASSUME NEW r, NEW sc, Ready(r, sc), NEW d, IsSeq(d), TopIsElement(d)
  PROVE  Paired(NewPrinter, r, d, [i \in 0..0 |-> Snapshot(NewPrinter, r, d)], sc)
<1> DEFINE p == NewPrinter
           a == Snapshot(p, r, d)
           z == [i \in 0..0 |-> a]
<1>1. p.tags = << >> /\ p.prefixes = << >> /\ EncInv(p)
  BY NewKeeps DEF NewPrinter
<1>2. Len(<< >>) = 0 /\ 0..0 = {0} /\ 1..0 = {} /\ << >> \in Seq({})
  OBVIOUS
<1>3. IsSeq(<< >>)
  BY <1>2, SeqIsSeq
<1>4. z[0] = a
  BY <1>2
<1> HIDE DEF z
<1>5. /\ a.s = NoSpaces /\ a.u = << >> /\ a.r = r.stk /\ a.ns = r.ns /\ a.d = d
      /\ a = [s |-> a.s, u |-> a.u, r |-> a.r, ns |-> a.ns, d |-> a.d]
  BY <1>1 DEF Snapshot, NoSpaces
<1> HIDE DEF a, p
<1>6. Stands(r, sc) /\ ~TopIsEOF(r.stk) /\ IsSeq(r.stk) /\ TopIsElement(r.stk) /\ Len(sc) \in Nat
  BY DEF Ready, Stands, Layered, IsSeq
<1>7. Exact(r.ns, sc, Among(sc, Len(sc)))
  BY <1>6, TopIsExact DEF Stands
<1>8. Len(sc) - 0 = Len(sc) /\ Len(sc) + 0 = Len(sc)
  BY <1>6
<1>9. Whole(a)
  BY <1>5, <1>6 DEF Whole
<1>10. Levels(z, 0, Len(sc) - 0, sc, << >>)
  BY <1>2, <1>4, <1>5, <1>6, <1>7, <1>8, <1>9 DEF Levels
<1> QED BY <1>1, <1>2, <1>3, <1>4, <1>10 DEF Paired, p, z, a

\* Every level stands on one with maps.
LEMMA AtopBase ==
  ASSUME NEW s, NEW q, NEW t, NEW u, IsSeq(q), Atop(s, q, t, u)
  PROVE  t = [d |-> t.d, n |-> t.n, x |-> t.x]
<1>1. PICK h, m : History(s, q, h) /\ m \in 1..Len(q) /\ t = h[m]
  BY DEF Atop
<1>2. m \in 0..Len(q)
  BY <1>1
<1> QED BY <1>1, <1>2 DEF History, Good

\* An element starts: the encoder writes it, the reader takes it.
LEMMA LevelUp ==
  ASSUME NEW e, NEW r, NEW d, NEW z, NEW sc, Paired(e, r, d, z, sc),
         NEW t, IsStart(t), NEW f, IsSeq(f), TopIsElement(f), Rises(d, f, t.name)
  PROVE  LET w == WriteStart(e, t)
             rd == Token(r, w.raw)
         IN  /\ StartAs(NotClosing(r), sc, w.raw, rd)
             /\ NotClosing(r).stk = r.stk /\ NotClosing(r).ns = r.ns /\ IsDecoder(NotClosing(r))
             /\ rd.t.name = ReadName(Spaces(w.p), rd.d.ns, t.name)
             /\ w.p.tags = Append(e.tags, t.name)
             /\ Paired(w.p, rd.d, f, Pushed(z, Len(e.tags), Snapshot(w.p, rd.d, f)),
                       Append(sc, w.raw))
<1> DEFINE w == WriteStart(e, t)
           rd == Token(r, w.raw)
           n == Len(e.tags)
           k == Len(sc) - n
           tags == Append(e.tags, t.name)
           sd == Append(sc, w.raw)
           a == Snapshot(w.p, rd.d, f)
           y == Pushed(z, n, a)
<1>1. /\ EncInv(e) /\ IsSeq(e.tags) /\ Ready(r, sc) /\ n \in Nat
      /\ z[n] = Snapshot(e, r, d) /\ Levels(z, n, k, sc, e.tags)
  BY DEF Paired, IsSeq
<1>2. Inner(w.p, e, tags)
  BY <1>1, StartKeeps
<1>3. /\ w.raw.kind = "start" /\ w.raw.empty = FALSE /\ IsSeq(w.raw.decls)
      /\ w.raw.prefix = PrefixForNS(w.p, t.name.space, FALSE) /\ w.raw.local = t.name.local
  BY <1>1, StartIsWritten
<1> HIDE DEF w
<1>4. /\ StartAs(NotClosing(r), sc, w.raw, rd) /\ Ready(rd.d, sd)
      /\ NotClosing(r).stk = r.stk /\ NotClosing(r).ns = r.ns /\ IsDecoder(NotClosing(r))
  BY <1>1, <1>3, ReadyTakes
<1> HIDE DEF rd
<1>5. /\ Rises(r.stk, rd.d.stk, rd.t.name)
      /\ rd.t.name = [space |-> Translate(rd.d.ns, w.raw.prefix, TRUE), local |-> w.raw.local]
  BY <1>4 DEF StartAs
<1>6. w.raw.prefix = PrefixIn(Spaces(w.p), t.name.space)
  BY <1>3 DEF PrefixForNS, PrefixIn, Spaces
<1>7. rd.t.name = ReadName(Spaces(w.p), rd.d.ns, t.name)
  BY <1>3, <1>5, <1>6 DEF ReadName
<1>8. IsSeq(tags) /\ Len(tags) = n + 1 /\ tags[n + 1] = t.name /\ \A i \in 1..n : tags[i] = e.tags[i]
  BY <1>1, AppendIsSeq
<1> HIDE DEF tags
<1>9. IsSeq(sc) /\ Len(sc) \in Nat
  BY <1>1 DEF Ready, Stands, IsSeq
<1>10. IsSeq(sd) /\ Len(sd) = Len(sc) + 1 /\ \A i \in 1..Len(sc) : sc[i] = sd[i]
  BY <1>9, AppendIsSeq
<1> HIDE DEF sd
<1>11. w.p.tags = tags /\ Atop(Spaces(w.p), w.p.prefixes, Spaces(e), e.prefixes)
  BY <1>2 DEF Inner
<1>12. EncInv(w.p)
  BY <1>2, InnerIsInv
<1>13. /\ a = [s |-> a.s, u |-> a.u, r |-> a.r, ns |-> a.ns, d |-> a.d]
       /\ a.s = Spaces(w.p) /\ a.u = w.p.prefixes /\ a.r = rd.d.stk /\ a.ns = rd.d.ns /\ a.d = f
       /\ z[n].s = Spaces(e) /\ z[n].u = e.prefixes /\ z[n].r = r.stk /\ z[n].d = d
  BY <1>1 DEF Snapshot
<1> HIDE DEF a
<1>14. y[n + 1] = a /\ \A i \in 0..n : y[i] = z[i]
  <2>1. n + 1 \in 0..(n + 1) /\ ~(n + 1 <= n)
    BY <1>1
  <2>2. \A i \in 0..n : i \in 0..(n + 1) /\ i <= n
    BY <1>1
  <2> QED BY <2>1, <2>2 DEF Pushed
<1> HIDE DEF y
<1>15. Stands(rd.d, sd) /\ ~TopIsEOF(rd.d.stk)
  BY <1>4 DEF Ready
<1>16. Whole(a) /\ Exact(a.ns, sd, Among(sd, Len(sd)))
  <2>1. IsSeq(rd.d.stk) /\ TopIsElement(rd.d.stk) /\ Layered(rd.d.stk, rd.d.ns, sd, Len(sd))
    BY <1>15 DEF Stands, Layered
  <2> QED BY <1>13, <1>15, <2>1, TopIsExact DEF Whole
<1>17. Level(y[n], y[n + 1], tags[n + 1])
  <2>1. y[n] = z[n]
    BY <1>1, <1>14
  <2> QED BY <1>5, <1>7, <1>8, <1>11, <1>13, <1>14, <2>1 DEF Level
<1>18. k \in Nat /\ k + n = Len(sc) /\ Len(sd) - (n + 1) = k /\ k + (n + 1) = Len(sd)
  <2>1. k \in Nat
    BY <1>1 DEF Levels
  <2> DEFINE l == Len(sc)
             m == Len(sd)
  <2>2. l \in Nat /\ n \in Nat /\ m = l + 1 /\ k = l - n
    BY <1>1, <1>9, <1>10
  <2> HIDE DEF l, m, n, k
  <2>3. k \in Nat /\ k + n = l /\ m - (n + 1) = k /\ k + (n + 1) = m
    BY <2>1, <2>2
  <2> QED BY <2>3 DEF l, m
<1> HIDE DEF n, k
<1>19. /\ z[0].s = NoSpaces /\ z[0].u = << >>
       /\ \A i \in 0..n : Whole(z[i]) /\ Exact(z[i].ns, sc, Among(sc, k + i))
       /\ \A i \in 1..n : Level(z[i - 1], z[i], e.tags[i])
  BY <1>1 DEF Levels
<1>20. ASSUME NEW i \in 0..(n + 1)
       PROVE  Whole(y[i]) /\ Exact(y[i].ns, sd, Among(sd, k + i))
  <2>1. CASE i = n + 1
    BY <1>14, <1>16, <1>18, <2>1
  <2>2. CASE i # n + 1
    <3>1. i \in 0..n /\ k + i \in Nat /\ \A x \in 1..(k + i) : x \in 1..Len(sc)
      BY <1>1, <1>18, <2>2
    <3>2. Exact(z[i].ns, sc, Among(sc, k + i))
      BY <1>19, <3>1
    <3>3. \A x \in 1..(k + i) : sc[x] = sd[x]
      BY <1>10, <3>1
    <3> DEFINE l == k + i
    <3> HIDE DEF l
    <3>4. Exact(z[i].ns, sd, Among(sd, l))
      BY <3>1, <3>2, <3>3, ExactSame DEF l
    <3> QED BY <1>14, <1>19, <3>1, <3>4 DEF l
  <2> QED BY <2>1, <2>2
<1>21. ASSUME NEW i \in 1..(n + 1)
       PROVE  Level(y[i - 1], y[i], tags[i])
  <2>1. CASE i = n + 1
    <3>1. i - 1 = n
      BY <1>1, <2>1
    <3> QED BY <1>17, <2>1, <3>1
  <2>2. CASE i # n + 1
    <3>1. i \in 1..n /\ i \in 0..n /\ i - 1 \in 0..n
      BY <1>1, <2>2
    <3> QED BY <1>8, <1>14, <1>19, <3>1
  <2> QED BY <2>1, <2>2
<1>22. y[0].s = NoSpaces /\ y[0].u = << >>
  BY <1>1, <1>14, <1>19
<1>23. Levels(y, n + 1, k, sd, tags)
  <2>1. n + 1 \in Nat
    BY <1>1
  <2> QED BY <1>18, <1>20, <1>21, <1>22, <2>1 DEF Levels
<1>24. Paired(w.p, rd.d, f, y, sd)
  BY <1>4, <1>8, <1>11, <1>12, <1>14, <1>18, <1>23 DEF Paired, a
<1> QED BY <1>4, <1>7, <1>11, <1>24 DEF w, rd, n, tags, sd, y, a

\* An element ends: it is the innermost, the encoder writes its end and takes
\* back what it declared, and the reader is back where the element started.
LEMMA LevelDown ==
  ASSUME NEW e, NEW r, NEW d, NEW z, NEW sc, Paired(e, r, d, z, sc), Len(e.tags) # 0,
         NEW name, NEW f, IsSeq(f), Falls(d, f, name)
  PROVE  LET w == WriteEnd(e, name)
             rd == Token(r, w.raw)
             n == Len(e.tags)
         IN  /\ name = e.tags[n] /\ rd.t.kind = "end"
             /\ rd.t.name = ReadName(z[n].s, z[n].ns, name)
             /\ w.p.tags = Front(e.tags) /\ w.p.seq = e.seq
             /\ Paired(w.p, rd.d, f, z, Front(sc))
<1> DEFINE n == Len(e.tags)
           m == n - 1
           k == Len(sc) - n
           w == WriteEnd(e, name)
           rd == Token(r, w.raw)
           tags == Front(e.tags)
           sd == Front(sc)
           q == [e EXCEPT !.tags = tags]
           p == PopPrefix(q)
           raw == RawEnd(PrefixForNS(e, name.space, FALSE), name.local)
<1>1. /\ EncInv(e) /\ IsSeq(e.tags) /\ Ready(r, sc) /\ n \in Nat
      /\ z[n] = Snapshot(e, r, d) /\ Levels(z, n, k, sc, e.tags)
  BY DEF Paired, IsSeq
<1>2. /\ z[n].s = Spaces(e) /\ z[n].u = e.prefixes /\ z[n].r = r.stk /\ z[n].ns = r.ns /\ z[n].d = d
  BY <1>1 DEF Snapshot
<1>3. m \in Nat /\ n \in 1..n /\ m \in 0..n
  BY <1>1
<1>4. Level(z[m], z[n], e.tags[n]) /\ Whole(z[m]) /\ k \in Nat
  BY <1>1, <1>3 DEF Levels
<1>5. name = e.tags[n] /\ f = z[m].d
  BY <1>2, <1>4, FallsOnce DEF Level, Whole
<1>6. e.tags # << >> /\ Last(e.tags) = name
  BY <1>5 DEF Last
<1>7. w = [p |-> p, raw |-> raw]
  BY <1>6 DEF WriteEnd
<1>8. IsPrinter(e) /\ IsSeq(e.prefixes)
  BY <1>1 DEF EncInv, Traced
<1>9. IsSeq(tags) /\ Len(tags) = m /\ \A i \in 1..m : e.tags[i] = tags[i]
  BY <1>1, FrontSame
<1> HIDE DEF tags
<1>10. /\ IsPrinter(q) /\ q.tags = tags /\ q.prefixes = e.prefixes /\ Spaces(q) = Spaces(e)
       /\ q.seq = e.seq
  BY <1>8 DEF IsPrinter, Spaces
<1> HIDE DEF q, p
<1> DEFINE s == z[m].s
           b == [defaultNS |-> s.d, attrNS |-> s.n, attrPrefix |-> s.x, prefixes |-> z[m].u]
<1>11. Atop(Spaces(e), e.prefixes, s, z[m].u)
  BY <1>2, <1>4 DEF Level
<1>12. s = [d |-> s.d, n |-> s.n, x |-> s.x]
  BY <1>8, <1>11, AtopBase
<1>13. Spaces(b) = s /\ b.prefixes = z[m].u
  BY <1>12 DEF Spaces
<1> HIDE DEF b, s
<1>14. Inner(q, b, tags)
  BY <1>8, <1>10, <1>11, <1>13 DEF Inner
<1>15. /\ IsPrinter(p) /\ Spaces(p) = s /\ p.prefixes = z[m].u /\ p.tags = tags
       /\ p.seq = e.seq
  BY <1>10, <1>13, <1>14, PopTakesBack DEF p
<1>16. EncInv(p)
  BY <1>14, InnerIsInv, PopKeeps DEF p
<1> DEFINE other == [space |-> Translate(r.ns, raw.prefix, TRUE), local |-> raw.local]
<1>17. raw.kind = "end" /\ other = ReadName(z[n].s, z[n].ns, name)
  <2>1. PrefixForNS(e, name.space, FALSE) = PrefixIn(Spaces(e), name.space)
    BY DEF PrefixForNS, PrefixIn, Spaces
  <2> QED BY <1>2, <2>1 DEF RawEnd, ReadName
<1> HIDE DEF raw
<1>18. Stands(r, sc) /\ r.err = "none" /\ r.toClose = << >> /\ TopKind(r) # "eof"
       /\ \A i \in 1..Len(sc) : IsSeq(sc[i].decls)
  <2>1. IsSeq(r.stk)
    BY <1>1 DEF Ready, Stands, Layered
  <2> QED BY <1>1, <2>1, TopKindIs DEF Ready
<1>19. Token(r, raw) = EndToken(r, raw)
  <2>1. RawToken(r, raw) = [d |-> r, raw |-> raw]
    BY <1>17, <1>18 DEF RawToken
  <2> QED BY <1>17, <1>18, <2>1 DEF Token
<1> DEFINE x == EndToken(r, raw)
<1>20. EndAs(r, sc, raw, x)
  BY <1>18, EndSteps
<1> HIDE DEF x
<1>21. Rises(z[m].r, r.stk, other)
  BY <1>2, <1>4, <1>5, <1>17 DEF Level
<1>22. Len(r.stk) # 0 /\ r.stk[Len(r.stk)] = StartFrame(other)
  <2>1. Len(z[m].r) \in Nat
    BY <1>4 DEF Whole, IsSeq
  <2> QED BY <1>21, <2>1 DEF Rises
<1>23. /\ x.t.kind = "end" /\ x.d.err = "none" /\ Len(sc) # 0
       /\ Stands(x.d, sd) /\ Falls(r.stk, x.d.stk, x.t.name)
       /\ x.t.name = other /\ x.d.toClose = r.toClose
  BY <1>20, <1>22 DEF EndAs
<1>24. IsSeq(x.d.stk) /\ IsSeq(sc) /\ Len(sc) \in Nat
  BY <1>18, <1>23 DEF Stands, Layered, IsSeq
<1>25. x.d.stk = z[m].r
  BY <1>4, <1>21, <1>23, <1>24, FallsOnce DEF Whole
<1>26. IsSeq(sd) /\ Len(sd) = Len(sc) - 1 /\ \A i \in 1..(Len(sc) - 1) : sc[i] = sd[i]
  BY <1>23, <1>24, FrontSame
<1> HIDE DEF sd
<1>27. k + n = Len(sc) /\ k + m = Len(sd) /\ Len(sd) - m = k /\ Len(sd) \in Nat
       /\ \A i \in 1..Len(sd) : i \in 1..(Len(sc) - 1) /\ i \in 1..Len(sc)
  BY <1>1, <1>3, <1>4, <1>23, <1>24, <1>26
<1> HIDE DEF n, m, k
<1>28. ASSUME NEW i \in 0..m
       PROVE  Whole(z[i]) /\ Exact(z[i].ns, sd, Among(sd, k + i))
  <2>1. i \in 0..n /\ k + i \in Nat /\ \A y \in 1..(k + i) : y \in 1..(Len(sc) - 1)
    BY <1>1, <1>3, <1>4, <1>24, <1>26, <1>27
  <2>2. Whole(z[i]) /\ Exact(z[i].ns, sc, Among(sc, k + i))
    BY <1>1, <2>1 DEF Levels
  <2> DEFINE l == k + i
  <2>3. \A y \in 1..l : sc[y] = sd[y]
    BY <1>26, <2>1
  <2> HIDE DEF l
  <2>4. Exact(z[i].ns, sd, Among(sd, l))
    BY <2>1, <2>2, <2>3, ExactSame DEF l
  <2> QED BY <2>2, <2>4 DEF l
<1>29. \A i \in 1..Len(sd) : IsSeq(sd[i].decls)
  BY <1>18, <1>26, <1>27
<1>30. x.d.ns = z[m].ns
  <2>1. Exact(x.d.ns, sd, Among(sd, Len(sd)))
    BY <1>23, TopIsExact DEF Stands
  <2>2. Exact(z[m].ns, sd, Among(sd, Len(sd)))
    <3>1. m \in 0..m
      BY <1>3
    <3> QED BY <1>27, <1>28, <3>1
  <2> QED BY <1>27, <1>29, <2>1, <2>2, ExactOnce
<1>31. \A i \in 1..m : i \in 1..n
  BY <1>1, <1>3 DEF m
<1>32. Levels(z, m, k, sd, tags)
  <2>1. \A i \in 1..m : Level(z[i - 1], z[i], tags[i])
    BY <1>1, <1>9, <1>31 DEF Levels
  <2> QED BY <1>1, <1>3, <1>4, <1>28, <2>1 DEF Levels
<1>33. z[m] = Snapshot(p, x.d, f)
  BY <1>4, <1>5, <1>15, <1>25, <1>30 DEF Snapshot, Whole, s
<1>34. Ready(x.d, sd)
  BY <1>4, <1>18, <1>23, <1>25, <1>29 DEF Ready, Whole
<1>35. Paired(p, x.d, f, z, sd)
  BY <1>9, <1>15, <1>16, <1>27, <1>32, <1>33, <1>34 DEF Paired
<1> QED BY <1>5, <1>7, <1>15, <1>17, <1>19, <1>23, <1>35 DEF n, sd, tags, x

\* The start of the property's element, as the answer has it.
LEMMA PropertyIsWritten ==
  ASSUME NEW name, EncInv(WriteStart(NewPrinter, Multistatus).p)
  PROVE  LET raw == RawProperty(name)
         IN  raw.kind = "start" /\ raw.empty = FALSE /\ IsSeq(raw.decls)
<1> DEFINE w == WriteStart(NewPrinter, Multistatus)
           raw == RawProperty(name)
<1>1. CASE name.space = "DAV:"
  <2>1. raw = [kind  |-> "start", empty |-> FALSE, prefix |-> "D", local |-> name.local,
               decls |-> << >>, attrs |-> << >>]
    BY <1>1 DEF RawProperty
  <2>2. << >> \in Seq({})
    OBVIOUS
  <2>3. IsSeq(<< >>)
    BY <2>2, SeqIsSeq
  <2> QED BY <2>1, <2>3
<1>2. CASE name.space # "DAV:"
  <2> DEFINE t == [kind |-> "start", name |-> name,
                   decls |-> SetDefaultNamespace(name), attrs |-> << >>]
  <2>1. raw = WriteStart(w.p, t).raw
    BY <1>2 DEF RawProperty, MarshalStart
  <2>2. IsStart(t)
    BY DEF IsStart, SetDefaultNamespace
  <2> DEFINE p == w.p
             x == WriteStart(p, t).raw
  <2> HIDE DEF t
  <2>3. EncInv(p)
    OBVIOUS
  <2> HIDE DEF p
  <2>4. x.kind = "start" /\ x.empty = FALSE /\ IsSeq(x.decls)
    BY <2>2, <2>3, StartIsWritten
  <2>5. raw = x
    BY <2>1 DEF p
  <2> HIDE DEF x, raw
  <2> QED BY <2>4, <2>5 DEF raw
<1> QED BY <1>1, <1>2

\* Reading what was kept starts with nothing, or in an answer to PROPFIND.
LEMMA ReaderIsReady ==
  ASSUME NEW name, NEW r \in {NewDecoder, InResponse(name)}
  PROVE  \E sc : Ready(r, sc)
<1> DEFINE w == WriteStart(NewPrinter, Multistatus)
           r0 == Token(NewDecoder, w.raw)
           sc == Append(<< >>, w.raw)
           raw == RawProperty(name)
<1>1. Ready(NewDecoder, << >>)
  <2>1. NewDecoder.stk = << >> /\ NewDecoder.err = "none" /\ NewDecoder.toClose = << >>
        /\ Len(<< >>) = 0 /\ 1..0 = {}
    BY DEF NewDecoder
  <2> QED BY <2>1, NewStands DEF Ready, TopIsEOF
<1>2. IsStart(Multistatus)
  BY DEF IsStart, Multistatus
<1>3. w.raw.kind = "start" /\ w.raw.empty = FALSE /\ IsSeq(w.raw.decls)
  BY <1>2, NewKeeps, StartIsWritten
<1>4. EncInv(w.p)
  <2>1. Inner(w.p, NewPrinter, Append(NewPrinter.tags, Multistatus.name))
    BY <1>2, NewKeeps, StartKeeps
  <2> QED BY <2>1, InnerIsInv
<1>5. InResponse(name) = Token(r0.d, raw).d
  BY DEF InResponse
<1>6. raw.kind = "start" /\ raw.empty = FALSE /\ IsSeq(raw.decls)
  BY <1>4, PropertyIsWritten
<1> HIDE DEF w, raw
<1>7. Ready(r0.d, sc)
  BY <1>1, <1>3, ReadyTakes
<1> HIDE DEF r0, sc
<1>8. Ready(InResponse(name), Append(sc, raw))
  BY <1>5, <1>6, <1>7, ReadyTakes
<1> QED BY <1>1, <1>8

\* Then the three are level.
LEMMA ReadingStarts ==
  ASSUME NEW name, NEW r \in {NewDecoder, InResponse(name)}, NEW d, IsSeq(d), TopIsElement(d)
  PROVE  \E z, sc : Paired(NewPrinter, r, d, z, sc) /\ z[0].d = d
<1>1. PICK sc : Ready(r, sc)
  BY ReaderIsReady
<1> DEFINE z == [i \in 0..0 |-> Snapshot(NewPrinter, r, d)]
<1>2. Paired(NewPrinter, r, d, z, sc)
  BY <1>1, NoLevel
<1>3. z[0].d = d
  BY DEF Snapshot
<1> QED BY <1>2, <1>3

(* Nothing but the value's own start tag is under the first level. *)
StartsWith(stk, name) == Len(stk) # 0 /\ stk[Len(stk)] = StartFrame(name)

(* In a value the encoder, the reader and the request's decoder are in the  *)
(* same elements; what went through last is of one kind on both sides.     *)
ValueInvariant ==
  /\ \E z, sc, d : /\ Paired(enc, reader, d, z, sc)
                   /\ phase = "value" => d = dec.stk /\ StartsWith(z[0].d, start)
  /\ passed.read.kind = passed.sent.kind

\* At first nothing was written or read.
LEMMA ReadingInit ==
  ASSUME Init
  PROVE  ValueInvariant
<1>1. enc = NewPrinter /\ reader = NewDecoder /\ phase = "props" /\ passed = NoTokens
  BY DEF Init
<1>2. << >> \in Seq({}) /\ Len(<< >>) = 0
  OBVIOUS
<1>3. IsSeq(<< >>) /\ TopIsElement(<< >>)
  BY <1>2, SeqIsSeq DEF TopIsElement
<1>4. NewDecoder \in {NewDecoder, InResponse(NoName)}
  OBVIOUS
<1>5. \E z, sc : Paired(NewPrinter, NewDecoder, << >>, z, sc) /\ z[0].d = << >>
  BY <1>3, <1>4, ReadingStarts
<1> QED BY <1>1, <1>5 DEF ValueInvariant, NoTokens

\* Between properties.
LEMMA ReadingProps ==
  ASSUME DecoderInvariant, ValueInvariant, NEW raw \in Raws, BetweenProps(raw)
  PROVE  ValueInvariant'
<1> DEFINE r == Token(dec, raw)
           sd == ScopeAfter(dec, raw)
<1>1. phase = "props" /\ passed' = NoTokens
  BY DEF BetweenProps
<1>2. \/ phase' # "value" /\ enc' = enc /\ reader' = reader
      \/ /\ r.t.kind = "start" /\ phase' = "value" /\ start' = r.t.name /\ dec' = PushEOF(r.d)
         /\ enc' = NewPrinter /\ reader' \in {NewDecoder, InResponse(r.t.name)}
  BY <1>1, Zenon DEF BetweenProps
<1>3. passed'.read.kind = passed'.sent.kind
  BY <1>1 DEF NoTokens
<1>4. CASE phase' # "value" /\ enc' = enc /\ reader' = reader
  BY <1>3, <1>4 DEF ValueInvariant
<1>5. CASE /\ r.t.kind = "start" /\ phase' = "value" /\ start' = r.t.name /\ dec' = PushEOF(r.d)
           /\ enc' = NewPrinter /\ reader' \in {NewDecoder, InResponse(r.t.name)}
  <2>1. dec.err = "none" /\ Stands(dec, scope) /\ NoEOF(dec.stk)
    BY <1>1 DEF DecoderInvariant
  <2>2. Len(dec.stk) \in Nat
    BY <2>1 DEF Stands, Layered, IsSeq
  <2>3. ~TopIsEOF(dec.stk)
    BY <2>1, <2>2 DEF TopIsEOF, NoEOF
  <2>4. Errs(dec, r, sd) \/ Opens(dec, r, sd) \/ Closes(dec, r, sd) \/ Passes(dec, r, sd)
    BY <2>1, <2>3, TokenSteps
  <2> DEFINE d == r.d
             name == r.t.name
             e == PushEOF(d)
  <2> HIDE DEF r, sd
  <2>5. Stands(d, sd) /\ Rises(dec.stk, d.stk, name)
    BY <1>5, <2>4 DEF Errs, Opens, Closes, Passes
  <2>6. dec' = e /\ start' = name /\ reader' \in {NewDecoder, InResponse(name)}
    BY <1>5
  <2> HIDE DEF d, name
  <2>7. Stands(e, sd) /\ StartsWith(e.stk, name)
    BY <2>1, <2>2, <2>5, PushEOFSteps DEF StartsWith
  <2> HIDE DEF e
  <2>8. IsSeq(e.stk) /\ TopIsElement(e.stk)
    BY <2>7 DEF Stands, Layered
  <2>9. \E z, sc : Paired(NewPrinter, reader', e.stk, z, sc) /\ z[0].d = e.stk
    BY <2>6, <2>8, ReadingStarts
  <2> QED BY <1>3, <1>5, <2>6, <2>7, <2>9 DEF ValueInvariant
<1> QED BY <1>2, <1>4, <1>5

\* In a value.
LEMMA ReadingValue ==
  ASSUME DecoderInvariant, ValueInvariant, NEW raw \in Raws, InValue(raw)
  PROVE  ValueInvariant'
<1> DEFINE r == Token(dec, raw)
           sd == ScopeAfter(dec, raw)
           w == EncodeToken(enc, r.t)
           rd == Token(reader, w.raw)
<1>1. phase = "value"
  BY DEF InValue
<1>2. \/ phase' = "refused" /\ enc' = enc /\ reader' = reader /\ passed' = NoTokens
      \/ phase' = "props" /\ enc' = NewPrinter /\ reader' = NewDecoder /\ passed' = NoTokens
      \/ /\ r.t.kind = "comment" /\ dec' = r.d /\ phase' = phase /\ start' = start
         /\ enc' = enc /\ reader' = reader /\ passed' = passed
      \/ /\ r.t.kind \notin {"error", "comment"} /\ ~(r.t.kind = "end" /\ r.t.name = start)
         /\ dec' = r.d /\ phase' = phase /\ start' = start
         /\ enc' = w.p /\ reader' = rd.d /\ passed' = [sent |-> r.t, read |-> rd.t]
  BY Zenon DEF InValue
<1>3. dec.err = "none" /\ Stands(dec, scope) /\ ValueOpen(dec.stk, start)
  BY <1>1 DEF DecoderInvariant
<1>4. Len(dec.stk) \in Nat
  BY <1>3 DEF Stands, Layered, IsSeq
<1>5. ~TopIsEOF(dec.stk)
  BY <1>3, <1>4 DEF TopIsEOF, ValueOpen
<1>6. Errs(dec, r, sd) \/ Opens(dec, r, sd) \/ Closes(dec, r, sd) \/ Passes(dec, r, sd)
  BY <1>3, <1>5, TokenSteps
<1>7. r.t.kind = "start" => IsStart(r.t)
  BY TokensStart
<1> DEFINE d == dec.stk
           t == r.t
           f == r.d.stk
<1>8. w = IF t.kind = "start" THEN WriteStart(enc, t)
          ELSE IF t.kind = "end" THEN WriteEnd(enc, t.name) ELSE [p |-> enc, raw |-> t]
  BY DEF EncodeToken
<1> HIDE DEF w
<1>9. PICK z, sc : Paired(enc, reader, d, z, sc) /\ StartsWith(z[0].d, start)
  BY <1>1 DEF ValueInvariant
<1>10. passed.read.kind = passed.sent.kind
  BY DEF ValueInvariant
<1> HIDE DEF r, sd
<1>11. CASE phase' = "refused" /\ enc' = enc /\ reader' = reader /\ passed' = NoTokens
  BY <1>9, <1>11 DEF ValueInvariant, NoTokens
<1>12. CASE phase' = "props" /\ enc' = NewPrinter /\ reader' = NewDecoder /\ passed' = NoTokens
  <2>1. << >> \in Seq({}) /\ Len(<< >>) = 0
    OBVIOUS
  <2>2. IsSeq(<< >>) /\ TopIsElement(<< >>)
    BY <2>1, SeqIsSeq DEF TopIsElement
  <2>3. NewDecoder \in {NewDecoder, InResponse(NoName)}
    OBVIOUS
  <2>4. \E y, sb : Paired(NewPrinter, NewDecoder, << >>, y, sb) /\ y[0].d = << >>
    BY <2>2, <2>3, ReadingStarts
  <2> QED BY <1>12, <2>4 DEF ValueInvariant, NoTokens
<1>13. CASE /\ r.t.kind = "comment" /\ dec' = r.d /\ phase' = phase /\ start' = start
            /\ enc' = enc /\ reader' = reader /\ passed' = passed
  <2>1. r.d = dec
    BY <1>6, <1>13 DEF Errs, Opens, Closes, Passes
  <2> QED BY <1>9, <1>10, <1>13, <2>1 DEF ValueInvariant
<1>14. CASE /\ r.t.kind \notin {"error", "comment"} /\ ~(r.t.kind = "end" /\ r.t.name = start)
            /\ dec' = r.d /\ phase' = phase /\ start' = start
            /\ enc' = w.p /\ reader' = rd.d /\ passed' = [sent |-> r.t, read |-> rd.t]
  <2>1. SUFFICES \E y, sb : /\ Paired(w.p, rd.d, f, y, sb) /\ StartsWith(y[0].d, start)
                            /\ rd.t.kind = t.kind
    BY <1>14 DEF ValueInvariant
  <2>2. r.d.err = "none" => Stands(r.d, sd)
    BY <1>6 DEF Errs, Opens, Closes, Passes
  <2>3. CASE t.kind = "start"
    <3>1. Opens(dec, r, sd)
      BY <1>6, <2>3 DEF Errs, Opens, Closes, Passes
    <3>2. Rises(d, f, t.name) /\ IsSeq(f) /\ TopIsElement(f)
      BY <3>1 DEF Opens, Stands, Layered
    <3>3. w = WriteStart(enc, t) /\ IsStart(t)
      BY <1>7, <1>8, <2>3
    <3> DEFINE y == Pushed(z, Len(enc.tags), Snapshot(w.p, rd.d, f))
               sb == Append(sc, w.raw)
    <3> HIDE DEF d, f, t
    <3>4. StartAs(NotClosing(reader), sc, w.raw, rd) /\ Paired(w.p, rd.d, f, y, sb)
      BY <1>9, <3>2, <3>3, LevelUp
    <3>5. rd.t.kind = "start"
      BY <3>4 DEF StartAs
    <3>6. y[0] = z[0]
      <4>1. Len(enc.tags) \in Nat
        BY <1>9 DEF Paired, IsSeq
      <4>2. 0 \in 0..(Len(enc.tags) + 1) /\ 0 <= Len(enc.tags)
        BY <4>1
      <4> QED BY <4>2 DEF Pushed
    <3> QED BY <1>9, <2>3, <3>4, <3>5, <3>6 DEF t
  <2>4. CASE t.kind = "end"
    <3>1. Closes(dec, r, sd)
      BY <1>6, <2>4 DEF Errs, Opens, Closes, Passes
    <3>2. Falls(d, f, t.name) /\ IsSeq(f)
      BY <3>1 DEF Closes, Stands, Layered
    <3>3. w = WriteEnd(enc, t.name) /\ t.name # start
      BY <1>8, <1>14, <2>4
    <3>4. Len(enc.tags) # 0
      <4>1. SUFFICES ASSUME Len(enc.tags) = 0
                     PROVE  FALSE
        OBVIOUS
      <4>2. z[0] = Snapshot(enc, reader, d)
        BY <1>9, <4>1 DEF Paired
      <4>3. z[0].d = d
        BY <4>2 DEF Snapshot
      <4>4. d[Len(d)] = StartFrame(start) /\ IsName(start)
        BY <1>3, <1>9, <4>3 DEF StartsWith, ValueOpen
      <4>5. d[Len(d)] = StartFrame(t.name) /\ IsName(t.name)
        BY <3>2 DEF Falls, Rises
      <4>6. t.name = start
        <5> HIDE DEF d, t
        <5> QED BY <4>4, <4>5, FrameOnce
      <4> QED BY <3>3, <4>6
    <3> HIDE DEF d, f
    <3> DEFINE name == t.name
    <3> HIDE DEF t
    <3>5. rd.t.kind = "end" /\ Paired(w.p, rd.d, f, z, Front(sc))
      BY <1>9, <3>2, <3>3, <3>4, LevelDown
    <3> QED BY <1>9, <2>4, <3>5 DEF t
  <2>5. CASE t.kind = "text"
    <3>1. Passes(dec, r, sd)
      BY <1>6, <2>5 DEF Errs, Opens, Closes, Passes
    <3>2. r.d = dec /\ w = [p |-> enc, raw |-> t]
      BY <1>8, <2>5, <3>1 DEF Passes
    <3>3. rd = [d |-> reader, t |-> t]
      <4>1. Ready(reader, sc)
        BY <1>9 DEF Paired
      <4>2. IsSeq(reader.stk) /\ ~TopIsEOF(reader.stk) /\ reader.err = "none" /\ reader.toClose = << >>
        BY <4>1 DEF Ready, Stands, Layered
      <4>3. TopKind(reader) # "eof"
        BY <4>2, TopKindIs
      <4>4. RawToken(reader, t) = [d |-> reader, raw |-> t]
        BY <2>5, <4>2 DEF RawToken
      <4> HIDE DEF t
      <4> QED BY <2>5, <3>2, <4>3, <4>4 DEF Token
    <3> QED BY <1>9, <3>2, <3>3
  <2>6. t.kind \in {"start", "end", "text"}
    BY <1>6, <1>14 DEF Errs, Opens, Closes, Passes
  <2> QED BY <2>3, <2>4, <2>5, <2>6
<1> QED BY <1>2, <1>11, <1>12, <1>13, <1>14

\* What the encoder writes of a value is read again token by token, for every
\* document and wherever the value is put: encoder and decoder enter and leave
\* the same elements.
THEOREM ValuesAreReadAgain == Spec => []ValueInvariant
<1>1. Init => ValueInvariant
  BY ReadingInit
<1>2. DecoderInvariant /\ ValueInvariant /\ [Next]_vars => ValueInvariant'
  <2> SUFFICES ASSUME DecoderInvariant, ValueInvariant, [Next]_vars
               PROVE  ValueInvariant'
    OBVIOUS
  <2>1. CASE \E raw \in Raws : BetweenProps(raw) \/ InValue(raw)
    BY <2>1, ReadingProps, ReadingValue
  <2>2. CASE UNCHANGED vars
    BY <2>2 DEF ValueInvariant, vars
  <2> QED BY <2>1, <2>2 DEF Next, Stopped
<1> QED BY <1>1, <1>2, StackFollowsTags, PTL DEF Spec

\* Whenever every element of the value is closed the encoder has its name
\* spaces back: popPrefix has undone all that writeStart defined.
THEOREM NamesAreTakenBack == Spec => []NamesTakenBack
<1>1. ValueInvariant => NamesTakenBack
  <2> SUFFICES ASSUME ValueInvariant, enc.tags = << >>
               PROVE  [enc EXCEPT !.seq = 0] = NewPrinter
    BY DEF NamesTakenBack
  <2>1. PICK z, sc, d : Paired(enc, reader, d, z, sc)
    BY DEF ValueInvariant
  <2>2. Len(enc.tags) = 0
    OBVIOUS
  <2>3. z[0] = Snapshot(enc, reader, d) /\ z[0].s = NoSpaces /\ z[0].u = << >> /\ IsPrinter(enc)
    BY <2>1, <2>2 DEF Paired, Levels, EncInv
  <2>4. Spaces(enc) = Spaces(NewPrinter) /\ enc.prefixes = << >>
    BY <2>3 DEF Snapshot, NoSpaces
  <2>5. enc.defaultNS = "" /\ enc.attrNS = << >> /\ enc.attrPrefix = << >>
    BY <2>4 DEF Spaces, NewPrinter
  <2> DEFINE D == {"defaultNS", "attrNS", "attrPrefix", "prefixes", "tags", "seq"}
             p == [enc EXCEPT !.seq = 0]
  <2>6. DOMAIN enc = D
    BY <2>3 DEF IsPrinter
  <2>7. p = [x \in D |-> IF x = "seq" THEN 0 ELSE enc[x]]
    BY <2>6
  <2>8. NewPrinter = [x \in D |-> NewPrinter[x]]
    BY DEF NewPrinter
  <2>9. /\ NewPrinter.defaultNS = "" /\ NewPrinter.attrNS = << >> /\ NewPrinter.attrPrefix = << >>
        /\ NewPrinter.prefixes = << >> /\ NewPrinter.tags = << >> /\ NewPrinter.seq = 0
    BY DEF NewPrinter
  <2>10. \A x \in D : (IF x = "seq" THEN 0 ELSE enc[x]) = NewPrinter[x]
    BY <2>4, <2>5, <2>9
  <2> HIDE DEF D, p
  <2> QED BY <2>7, <2>8, <2>10 DEF p
<1> QED BY <1>1, ValuesAreReadAgain, PTL

\* The decoder accepts all that the encoder writes, and takes each token for
\* what it was; and the encoder refuses nothing that a decoder gave it.
THEOREM WrittenIsRead == Spec => []ReadAsWritten
<1>1. ValueInvariant /\ NamesTakenBack => ReadAsWritten
  BY DEF ValueInvariant, Paired, Ready, ReadAsWritten
<1> QED BY <1>1, ValuesAreReadAgain, NamesAreTakenBack, PTL

-----------------------------------------------------------------------------
(* The names that the encoder writes                                       *)

(* What a numbered prefix tells, of all numbers: a fact about strings.      *)
EveryNumberTells == NumbersTell(Nat)

(* Finitely many prefixes, and xml stands for nothing but its own URL.      *)
Tame(s) == IsFiniteSet(DOMAIN s.n) /\ ("xml" \in DOMAIN s.n => s.n["xml"] = XmlURL)

(* The prefixes defined above the place m of the stack of definitions.      *)
Owned(q, m, prefix) == \E i \in (m + 1)..Len(q.prefixes) : q.prefixes[i].prefix = prefix

Once(q, m) ==
  \A i, j \in (m + 1)..Len(q.prefixes) : q.prefixes[i].prefix = q.prefixes[j].prefix => i = j

(* q is the printer in a start tag that has its mark at m; s were the name  *)
(* spaces before the tag.                                                  *)
Opening(q, s, m) ==
  /\ IsPrinter(q) /\ q.seq \in Nat /\ IsSeq(q.prefixes) /\ Good(Spaces(q)) /\ Tame(Spaces(q))
  /\ m \in 1..Len(q.prefixes) /\ q.prefixes[m].mark
  /\ \A i \in (m + 1)..Len(q.prefixes) : ~q.prefixes[i].mark
  /\ \A prefix : Owned(q, m, prefix) \/ Standing(Spaces(q), prefix) = Standing(s, prefix)
  /\ \A prefix : prefix # "" /\ Owned(q, m, prefix) => prefix \in DOMAIN q.attrNS

(* From q to a one prefix more is defined.                                  *)
Added(q, a, s, m, prefix, url) ==
  /\ Opening(a, s, m) /\ Spaces(a) = Redefined(Spaces(q), prefix, url)
  /\ \A x : Owned(a, m, x) <=> Owned(q, m, x) \/ x = prefix
  /\ Once(q, m) /\ ~Owned(q, m, prefix) => Once(a, m)

(* t are the name spaces s with prefix defined as url.                      *)
Defines(s, t, prefix, url) ==
  /\ \A x : Standing(t, x) = IF x = prefix THEN url ELSE Standing(s, x)
  /\ prefix # "" => /\ DOMAIN t.n = DOMAIN s.n \cup {prefix} /\ t.n[prefix] = url
                     /\ url \in DOMAIN t.x /\ t.d = s.d
  /\ \A x \in DOMAIN t.n : x # prefix => t.n[x] = s.n[x]
  /\ prefix = "" => t.d = url /\ t.x = s.x /\ t.n = s.n
  /\ prefix # "" /\ prefix \notin DOMAIN s.n => DOMAIN s.x \subseteq DOMAIN t.x

\* What stands after a definition.
LEMMA RedefinedIs ==
  ASSUME NEW s, Good(s), NEW prefix, NEW url, Fresh(s, prefix, url)
  PROVE  Defines(s, Redefined(s, prefix, url), prefix, url)
<1> DEFINE t == Redefined(s, prefix, url)
           m == With(s.n, prefix, url)
           c == Deleted(s.x, Standing(s, prefix))
           y == With(c, url, prefix)
<1>1. CASE prefix = ""
  <2>1. t.d = url /\ t.n = s.n /\ t.x = s.x
    BY <1>1 DEF Redefined
  <2>2. "" \notin DOMAIN s.n
    BY DEF Good
  <2> HIDE DEF t
  <2> QED BY <1>1, <2>1, <2>2 DEF Standing, Defines, t
<1>2. CASE prefix # ""
  <2>1. url # "" /\ url \notin DOMAIN s.x
    BY <1>2 DEF Fresh
  <2>2. t.d = s.d /\ t.n = m /\ t.x = y
    BY <1>2, <2>1 DEF Redefined
  <2>3. /\ DOMAIN m = DOMAIN s.n \cup {prefix} /\ m[prefix] = url
        /\ \A x \in DOMAIN m : x # prefix => m[x] = s.n[x]
    BY DEF With
  <2>4. DOMAIN y = (DOMAIN s.x \ {Standing(s, prefix)}) \cup {url}
    BY DEF With, Deleted
  <2> HIDE DEF t, m, c, y
  <2>5. \A x : Standing(t, x) = IF x = prefix THEN url ELSE Standing(s, x)
    BY <1>2, <2>2, <2>3 DEF Standing, Look
  <2>6. prefix \notin DOMAIN s.n => DOMAIN s.x \subseteq DOMAIN y
    BY <1>2, <2>4 DEF Good, Standing, Look
  <2> QED BY <1>2, <2>2, <2>3, <2>4, <2>5, <2>6 DEF Defines, t
<1> QED BY <1>1, <1>2

\* pushPrefix in a start tag.
LEMMA PushOpens ==
  ASSUME NEW q, NEW s, NEW m, Opening(q, s, m), NEW prefix, NEW url,
         Fresh(Spaces(q), prefix, url), prefix = "xml" => url = XmlURL
  PROVE  Added(q, PushPrefix(q, prefix, url), s, m, prefix, url)
<1> DEFINE r == [prefix |-> prefix, url |-> NsForPrefix(q, prefix), mark |-> FALSE]
           e == Append(q.prefixes, r)
           b == [q EXCEPT !.prefixes = e]
           a == SetAttrPrefix(b, prefix, url)
           u == Spaces(q)
           t == Redefined(u, prefix, url)
           n == Len(q.prefixes)
<1>1. PushPrefix(q, prefix, url) = a
  BY DEF PushPrefix
<1>2. IsPrinter(b) /\ Spaces(b) = Spaces(q) /\ b.prefixes = e /\ b.seq = q.seq
  BY DEF Opening, IsPrinter, Spaces
<1>3. r.prefix = prefix /\ r.mark = FALSE
  OBVIOUS
<1>4. IsSeq(q.prefixes) /\ n \in Nat /\ m \in 1..n
  BY DEF Opening, IsSeq
<1> HIDE DEF r
<1>5. IsSeq(e) /\ Len(e) = n + 1 /\ e[n + 1] = r /\ \A i \in 1..n : e[i] = q.prefixes[i]
  BY <1>4, AppendIsSeq
<1> HIDE DEF b
<1>6. IsPrinter(a) /\ Spaces(a) = t /\ a.prefixes = e /\ a.seq = q.seq
  BY <1>2, SetRedefines
<1> HIDE DEF a
<1>7. Good(u) /\ Tame(u) /\ Fresh(u, prefix, url)
  BY DEF Opening
<1>19. q.attrNS = Spaces(q).n /\ a.attrNS = Spaces(a).n
  BY DEF Spaces
<1>20. /\ \A x : Owned(q, m, x) \/ Standing(u, x) = Standing(s, x)
       /\ \A x : x # "" /\ Owned(q, m, x) => x \in DOMAIN q.attrNS
  BY DEF Opening
<1> HIDE DEF u
<1>21. Good(t)
  BY <1>7, FreshKeepsGood
<1>8. Defines(u, t, prefix, url)
  BY <1>7, RedefinedIs
<1>22. q.attrNS = u.n /\ a.attrNS = t.n
  BY <1>6, <1>19 DEF u
<1> HIDE DEF t, e, n
<1>9. IsFiniteSet(DOMAIN t.n)
  <2>1. IsFiniteSet(DOMAIN u.n)
    BY <1>7 DEF Tame
  <2>2. DOMAIN t.n = DOMAIN u.n \/ DOMAIN t.n = DOMAIN u.n \cup {prefix}
    BY <1>8 DEF Defines
  <2>3. IsFiniteSet(DOMAIN u.n \cup {prefix})
    BY <2>1, FS_AddElement
  <2> QED BY <2>1, <2>2, <2>3
<1>10. Tame(t)
  BY <1>7, <1>8, <1>9 DEF Tame, Defines
<1>11. \A i \in (m + 1)..(n + 1) : i = n + 1 \/ (i \in (m + 1)..n /\ i \in 1..n)
  BY <1>4
<1>12. n + 1 \in (m + 1)..(n + 1) /\ \A i \in (m + 1)..n : i \in (m + 1)..(n + 1) /\ i \in 1..n
  BY <1>4
<1>13. \A x : Owned(a, m, x) <=> Owned(q, m, x) \/ x = prefix
  BY <1>3, <1>5, <1>6, <1>11, <1>12 DEF Owned, n
<1>14. Once(q, m) /\ ~Owned(q, m, prefix) => Once(a, m)
  <2> SUFFICES ASSUME Once(q, m), ~Owned(q, m, prefix),
                      NEW i \in (m + 1)..(n + 1), NEW j \in (m + 1)..(n + 1),
                      e[i].prefix = e[j].prefix
               PROVE  i = j
    BY <1>5, <1>6 DEF Once
  <2> QED BY <1>3, <1>5, <1>11 DEF Once, Owned, n
<1>15. m \in 1..(n + 1) /\ e[m].mark /\ \A i \in (m + 1)..(n + 1) : ~e[i].mark
  <2>1. q.prefixes[m].mark /\ \A i \in (m + 1)..n : ~q.prefixes[i].mark
    BY DEF Opening, n
  <2> QED BY <1>3, <1>4, <1>5, <1>11, <2>1
<1>16. \A x : Owned(a, m, x) \/ Standing(t, x) = Standing(s, x)
  BY <1>8, <1>13, <1>20 DEF Defines
<1>17. \A x : x # "" /\ Owned(a, m, x) => x \in DOMAIN a.attrNS
  <2>1. \A x \in DOMAIN u.n : x \in DOMAIN t.n
    BY <1>8 DEF Defines
  <2>2. prefix # "" => prefix \in DOMAIN t.n
    BY <1>8 DEF Defines
  <2> SUFFICES ASSUME NEW x, x # "", Owned(a, m, x)
               PROVE  x \in DOMAIN t.n
    BY <1>22
  <2>3. CASE x = prefix
    BY <2>2, <2>3
  <2>4. CASE Owned(q, m, x)
    <3>1. x \in DOMAIN u.n
      BY <1>20, <1>22, <2>4
    <3> QED BY <2>1, <3>1
  <2> QED BY <1>13, <2>3, <2>4
<1>18. Opening(a, s, m)
  BY <1>5, <1>6, <1>10, <1>15, <1>16, <1>17, <1>21 DEF Opening
<1> QED BY <1>1, <1>6, <1>13, <1>14, <1>18 DEF Added, t, u

(* In a tag without a name space no default is defined but the empty one.   *)
Bare(q, m, bare) == bare /\ Owned(q, m, "") => q.defaultNS = ""

LeavesXml(decl) == decl.prefix = "xml" => decl.url = XmlURL

\* defineNS for an xmlns attribute.
LEMMA DefineOpens ==
  ASSUME NEW q, NEW s, NEW m, Opening(q, s, m), NEW decl, LeavesXml(decl), NEW bare \in BOOLEAN
  PROVE  LET a == DefineNS(q, decl, bare)
         IN  /\ Opening(a, s, m)
             /\ \A x : Owned(a, m, x) => Owned(q, m, x) \/ x = decl.prefix
             /\ Once(q, m) /\ ~Owned(q, m, decl.prefix) => Once(a, m)
             /\ Bare(q, m, bare) => Bare(a, m, bare)
<1> DEFINE a == DefineNS(q, decl, bare)
           Idle == \/ decl.prefix = "" /\ decl.url = q.defaultNS
                   \/ decl.prefix = "" /\ decl.url # "" /\ bare
                   \/ decl.prefix # "" /\ decl.url = ""
                   \/ decl.prefix # "" /\ decl.url \in DOMAIN q.attrPrefix
<1>1. CASE Idle
  <2>1. a = q
    BY <1>1 DEF DefineNS
  <2> QED BY <2>1
<1>2. CASE ~Idle
  <2>1. Fresh(Spaces(q), decl.prefix, decl.url)
    BY <1>2 DEF Fresh, Spaces
  <2>2. a = PushPrefix(q, decl.prefix, decl.url)
    BY <1>2 DEF DefineNS
  <2>3. bare /\ decl.prefix = "" => decl.url = ""
    BY <1>2
  <2> HIDE DEF a
  <2>4. Added(q, a, s, m, decl.prefix, decl.url)
    BY <2>1, <2>2, PushOpens DEF LeavesXml
  <2>5. /\ Opening(a, s, m) /\ Spaces(a) = Redefined(Spaces(q), decl.prefix, decl.url)
        /\ \A x : Owned(a, m, x) <=> Owned(q, m, x) \/ x = decl.prefix
        /\ Once(q, m) /\ ~Owned(q, m, decl.prefix) => Once(a, m)
    BY <2>4 DEF Added
  <2>6. Bare(q, m, bare) => Bare(a, m, bare)
    <3>1. a.defaultNS = IF decl.prefix = "" THEN decl.url ELSE q.defaultNS
      <4>1. a.defaultNS = Spaces(a).d /\ q.defaultNS = Spaces(q).d
        BY DEF Spaces
      <4>2. Good(Spaces(q))
        BY DEF Opening
      <4>3. Defines(Spaces(q), Spaces(a), decl.prefix, decl.url)
        BY <2>1, <2>5, <4>2, RedefinedIs
      <4>4. Spaces(a).d = IF decl.prefix = "" THEN decl.url ELSE Spaces(q).d
        BY <4>3 DEF Defines
      <4> QED BY <4>1, <4>4
    <3> QED BY <2>3, <2>5, <3>1 DEF Bare
  <2> QED BY <2>5, <2>6 DEF a
<1> QED BY <1>1, <1>2

Distinct(decls) == \A i, j \in 1..Len(decls) : decls[i].prefix = decls[j].prefix => i = j

\* All xmlns attributes of the tag.
LEMMA DeclarationsOpen ==
  ASSUME NEW p, NEW s, NEW m, Opening(p, s, m), m = Len(p.prefixes),
         NEW seq, Len(seq) \in Nat, \A i \in 1..Len(seq) : LeavesXml(seq[i]),
         NEW bare \in BOOLEAN
  PROVE  LET a == Declarations(p, seq, bare)
         IN  Opening(a, s, m) /\ Bare(a, m, bare) /\ (Distinct(seq) => Once(a, m))
<1> DEFINE n == Len(seq)
<1>0. PICK at : DeclarationsStates(p, seq, bare, at)
  BY DeclarationsRun
<1>1. /\ at[0] = p /\ at[n] = Declarations(p, seq, bare)
      /\ \A i \in 1..n : at[i] = DefineNS(at[i - 1], seq[i], bare)
  BY <1>0 DEF DeclarationsStates
<1> DEFINE Defined(i) ==
             /\ Opening(at[i], s, m) /\ Bare(at[i], m, bare)
             /\ Distinct(seq) =>
                  /\ Once(at[i], m)
                  /\ \A x : Owned(at[i], m, x) => \E j \in 1..i : seq[j].prefix = x
           T == {i \in 0..n : Defined(i)}
<1>2. n \in Nat /\ 0 \in 0..n /\ \A i \in 1..n : i \in 0..n /\ i - 1 \in 0..n
  OBVIOUS
<1>3. Defined(0)
  <2>1. m \in Nat
    BY DEF Opening, IsSeq
  <2>2. (m + 1)..Len(p.prefixes) = {}
    BY <2>1
  <2>3. (\A x : ~Owned(p, m, x)) /\ Once(p, m)
    BY <2>2 DEF Owned, Once
  <2> QED BY <1>1, <2>3 DEF Bare
<1>4. ASSUME NEW i \in 1..n, Defined(i - 1)
      PROVE  Defined(i)
  <2> DEFINE q == at[i - 1]
             a == at[i]
             decl == seq[i]
  <2>1. a = DefineNS(q, decl, bare) /\ LeavesXml(decl) /\ Opening(q, s, m) /\ Bare(q, m, bare)
    BY <1>1, <1>4
  <2>2. Distinct(seq) => /\ Once(q, m)
                         /\ \A x : Owned(q, m, x) => \E j \in 1..(i - 1) : seq[j].prefix = x
    BY <1>4
  <2>3. /\ \A j \in 1..(i - 1) : j \in 1..i /\ j \in 1..n /\ j # i
        /\ i \in 1..i
    OBVIOUS
  <2>4. Distinct(seq) => \A j \in 1..(i - 1) : seq[j].prefix # decl.prefix
    BY <2>3 DEF Distinct
  <2> HIDE DEF q, a, n
  <2>5. /\ Opening(a, s, m)
        /\ \A x : Owned(a, m, x) => Owned(q, m, x) \/ x = decl.prefix
        /\ Once(q, m) /\ ~Owned(q, m, decl.prefix) => Once(a, m)
        /\ Bare(q, m, bare) => Bare(a, m, bare)
    <3> HIDE DEF decl
    <3> QED BY <2>1, DefineOpens
  <2>6. Distinct(seq) => /\ Once(a, m)
                         /\ \A x : Owned(a, m, x) => \E j \in 1..i : seq[j].prefix = x
    BY <2>2, <2>3, <2>4, <2>5
  <2> QED BY <2>1, <2>5, <2>6 DEF a
<1> HIDE DEF n, Defined
<1>5. n \in T
  <2>1. 0 \in T /\ \A i \in 1..n : i - 1 \in T => i \in T
    BY <1>2, <1>3, <1>4
  <2> HIDE DEF T
  <2>2. \A i \in 0..n : i \in T
    BY <1>2, <2>1, UpTo
  <2> QED BY <1>2, <2>2
<1> QED BY <1>1, <1>5 DEF Defined

(* The names that a tag may have.                                           *)
Nameable(url) == url \in {"", XmlURL} \cup NameSpaces
NeedsPrefix(url) == url \in NameSpaces \ {"", XmlURL}

\* More names than are in use are not all in use.
LEMMA SomeIsFree ==
  ASSUME NEW used, IsFiniteSet(used), NEW k \in Nat,
         NEW f, \A i, j \in Nat : f[i] = f[j] => i = j
  PROVE  \E n \in k..(k + Cardinality(used)) : f[n] \notin used
<1> DEFINE c == Cardinality(used)
           b == k + c
           I == k..b
<1>1. c \in Nat
  BY FS_CardinalityType
<1>2. b \in Int /\ k \in Int /\ b >= k /\ b - k + 1 > c
  <2> HIDE DEF c
  <2> QED BY <1>1
<1>3. I \subseteq Nat
  OBVIOUS
<1> SUFFICES ASSUME \A n \in I : f[n] \in used
             PROVE  FALSE
  OBVIOUS
<1> HIDE DEF b
<1>4. IsFiniteSet(I) /\ Cardinality(I) = b - k + 1
  BY <1>2, FS_Interval
<1>5. Cardinality(used) < Cardinality(I)
  <2> DEFINE y == Cardinality(I)
  <2> HIDE DEF I
  <2>1. y = b - k + 1
    BY <1>4
  <2> HIDE DEF c, y
  <2>2. c < y
    BY <1>1, <1>2, <2>1
  <2> QED BY <2>2 DEF c, y
<1> HIDE DEF I
<1> DEFINE g == [n \in I |-> f[n]]
<1>6. g \in [I -> used] /\ \A n \in I : g[n] = f[n]
  OBVIOUS
<1> HIDE DEF g
<1>7. \E x, y \in I : x # y /\ g[x] = g[y]
  BY <1>4, <1>5, <1>6, FS_PigeonHole
<1> QED BY <1>3, <1>6, <1>7

\* Of the numbered prefixes one is free, however many are in use.
LEMMA NumberIsFree ==
  ASSUME EveryNumberTells, NEW url, NeedsPrefix(url),
         NEW used, IsFiniteSet(used), NEW k \in Nat
  PROVE  LET free == {n \in (k + 1)..(k + 1 + Cardinality(used)) :
                        Numbered(BasePrefix[url], n) \notin used}
         IN  (CHOOSE i \in free : \A j \in free : i <= j) \in free
<1> DEFINE base == BasePrefix[url]
           l == k + 1
           I == l..(l + Cardinality(used))
           f == [n \in Nat |-> Numbered(base, n)]
           free == {n \in I : Numbered(base, n) \notin used}
<1>1. Cardinality(used) \in Nat
  BY FS_CardinalityType
<1>2. l \in Nat /\ I \subseteq Nat
  <2>1. l \in Nat
    OBVIOUS
  <2> HIDE DEF l
  <2> QED BY <1>1, <2>1
<1>3. \A i, j \in Nat : f[i] = f[j] => i = j
  BY DEF NumbersTell, EveryNumberTells, NeedsPrefix
<1>4. \A n \in Nat : f[n] = Numbered(base, n)
  OBVIOUS
<1> HIDE DEF f, l
<1>5. \E n \in I : f[n] \notin used
  BY <1>2, <1>3, SomeIsFree
<1> HIDE DEF I
<1>6. free \in SUBSET Nat /\ free # {}
  BY <1>2, <1>4, <1>5
<1>7. (CHOOSE i \in free : \A j \in free : i <= j) \in free
  <2> HIDE DEF free
  <2>1. \E i \in free : \A j \in free : i <= j
    BY <1>6, LeastNumber
  <2> QED BY <2>1
<1> QED BY <1>7 DEF free, I, l

\* The sequence number has no part in it.
LEMMA SeqOpens ==
  ASSUME NEW q, NEW s, NEW m, Opening(q, s, m), NEW n \in Nat
  PROVE  LET b == [q EXCEPT !.seq = n]
         IN  /\ Opening(b, s, m) /\ Spaces(b) = Spaces(q) /\ b.prefixes = q.prefixes
             /\ b.attrNS = q.attrNS
<1> DEFINE b == [q EXCEPT !.seq = n]
<1>1. /\ IsPrinter(b) /\ Spaces(b) = Spaces(q) /\ b.prefixes = q.prefixes
      /\ b.attrNS = q.attrNS /\ b.seq = n
  BY DEF Opening, IsPrinter, Spaces
<1> HIDE DEF b
<1>2. \A x : Owned(b, m, x) <=> Owned(q, m, x)
  BY <1>1 DEF Owned
<1>3. Opening(b, s, m)
  BY <1>1, <1>2 DEF Opening
<1> QED BY <1>1, <1>3 DEF b

(* From q to a nothing is undone, and no default is defined.               *)
Grown(q, a, s, m) ==
  /\ Opening(a, s, m) /\ DOMAIN q.attrPrefix \subseteq DOMAIN a.attrPrefix
  /\ a.defaultNS = q.defaultNS /\ (Owned(a, m, "") => Owned(q, m, ""))
  /\ Once(q, m) => Once(a, m)

\* A definition with a prefix that was free.
LEMMA FreeGrows ==
  ASSUME NEW q, NEW s, NEW m, Opening(q, s, m), NEW prefix, prefix \notin {"", "xml"},
         prefix \notin DOMAIN q.attrNS, NEW url, url # "", url \notin DOMAIN q.attrPrefix
  PROVE  LET a == PushPrefix(q, prefix, url)
         IN  Grown(q, a, s, m) /\ url \in DOMAIN a.attrPrefix
<1> DEFINE a == PushPrefix(q, prefix, url)
<1>1. Fresh(Spaces(q), prefix, url)
  BY DEF Fresh, Spaces
<1>2. Added(q, a, s, m, prefix, url)
  BY <1>1, PushOpens
<1> HIDE DEF a
<1>3. Good(Spaces(q)) /\ ~Owned(q, m, prefix)
  BY DEF Opening
<1>4. Defines(Spaces(q), Spaces(a), prefix, url)
  BY <1>1, <1>2, <1>3, RedefinedIs DEF Added
<1>5. /\ a.attrPrefix = Spaces(a).x /\ q.attrPrefix = Spaces(q).x /\ q.attrNS = Spaces(q).n
      /\ a.defaultNS = Spaces(a).d /\ q.defaultNS = Spaces(q).d
  BY DEF Spaces
<1>6. /\ url \in DOMAIN a.attrPrefix /\ DOMAIN q.attrPrefix \subseteq DOMAIN a.attrPrefix
      /\ a.defaultNS = q.defaultNS
  BY <1>4, <1>5 DEF Defines
<1> QED BY <1>2, <1>3, <1>6 DEF Added, Grown, a

\* createNSPrefix for a URL that has no prefix.
LEMMA CreatePrefixOpens ==
  ASSUME EveryNumberTells, NEW q, NEW s, NEW m, Opening(q, s, m),
         NEW url, NeedsPrefix(url), url \notin DOMAIN q.attrPrefix
  PROVE  LET a == CreatePrefix(q, url)
         IN  Grown(q, a, s, m) /\ url \in DOMAIN a.attrPrefix
<1> DEFINE base == BasePrefix[url]
           free == {n \in (q.seq + 1)..(q.seq + 1 + Cardinality(DOMAIN q.attrNS)) :
                      Numbered(base, n) \notin DOMAIN q.attrNS}
           n == CHOOSE i \in free : \A j \in free : i <= j
           b == [q EXCEPT !.seq = n]
           a == CreatePrefix(q, url)
<1>1. a = IF base \notin DOMAIN q.attrNS THEN PushPrefix(q, base, url)
          ELSE PushPrefix(b, Numbered(base, n), url)
  BY DEF CreatePrefix
<1>2. IsFiniteSet(DOMAIN q.attrNS) /\ q.seq \in Nat
  BY DEF Opening, Tame, Spaces
<1>3. n \in free
  BY <1>2, NumberIsFree
<1>4. Cardinality(DOMAIN q.attrNS) \in Nat
  BY <1>2, FS_CardinalityType
<1>5. n \in Nat /\ Numbered(base, n) \notin DOMAIN q.attrNS
  <2> DEFINE lo == q.seq + 1
             hi == q.seq + 1 + Cardinality(DOMAIN q.attrNS)
  <2> HIDE DEF n
  <2>1. n \in lo..hi /\ Numbered(base, n) \notin DOMAIN q.attrNS
    BY <1>3
  <2>2. lo \in Nat
    BY <1>2
  <2> HIDE DEF lo, hi
  <2> QED BY <2>1, <2>2
<1>6. base \notin {"", "xml"} /\ Numbered(base, n) \notin {"", "xml"}
  <2> HIDE DEF n
  <2> QED BY <1>5, BasePrefixAssumption DEF NumbersTell, EveryNumberTells, NeedsPrefix
<1> HIDE DEF n, a
<1>7. Opening(b, s, m) /\ Spaces(b) = Spaces(q) /\ b.prefixes = q.prefixes /\ b.attrNS = q.attrNS
  BY <1>5, SeqOpens
<1>8. b.attrPrefix = q.attrPrefix /\ b.defaultNS = q.defaultNS
  BY <1>7 DEF Spaces
<1> HIDE DEF b, base
<1> DEFINE prefix == Numbered(base, n)
<1>9. prefix \notin {"", "xml"} /\ prefix \notin DOMAIN b.attrNS /\ url \notin DOMAIN b.attrPrefix
  BY <1>5, <1>6, <1>7, <1>8
<1> HIDE DEF prefix
<1>10. LET c == PushPrefix(b, prefix, url)
       IN  Grown(b, c, s, m) /\ url \in DOMAIN c.attrPrefix
  <2>1. url # ""
    BY DEF NeedsPrefix
  <2> QED BY <1>7, <1>9, <2>1, FreeGrows
<1>11. (\A x : Owned(b, m, x) <=> Owned(q, m, x)) /\ (Once(b, m) <=> Once(q, m))
  BY <1>7 DEF Owned, Once
<1>12. CASE base \notin DOMAIN q.attrNS
  <2>1. a = PushPrefix(q, base, url)
    BY <1>1, <1>12
  <2>2. url # ""
    BY DEF NeedsPrefix
  <2> QED BY <1>6, <1>12, <2>1, <2>2, FreeGrows DEF a
<1>13. CASE base \in DOMAIN q.attrNS
  <2>1. a = PushPrefix(b, prefix, url)
    BY <1>1, <1>13 DEF prefix
  <2>2. Grown(b, a, s, m) /\ url \in DOMAIN a.attrPrefix
    BY <1>10, <2>1
  <2> QED BY <1>8, <1>11, <2>2 DEF Grown, a
<1> QED BY <1>12, <1>13

(* The encoder has a prefix for the name space of an attribute, or of an    *)
(* element.                                                                *)
AttrKnown(s, url) == url \in {"", XmlURL} \cup DOMAIN s.x
ElementKnown(s, url) == url \in {s.d, XmlURL} \cup DOMAIN s.x

\* createNSPrefix for a name that is in a name space.
LEMMA CreateOpens ==
  ASSUME EveryNumberTells, NEW q, NEW s, NEW m, Opening(q, s, m),
         NEW url, Nameable(url), url # "", NEW isAttr \in BOOLEAN
  PROVE  LET a == CreateNSPrefix(q, url, isAttr)
         IN  /\ Grown(q, a, s, m) /\ ElementKnown(Spaces(a), url)
             /\ isAttr => AttrKnown(Spaces(a), url)
<1> DEFINE a == CreateNSPrefix(q, url, isAttr)
<1>1. Grown(q, q, s, m)
  BY DEF Grown
<1>2. Spaces(q).x = q.attrPrefix /\ Spaces(q).d = q.defaultNS /\ Spaces(a).x = a.attrPrefix
  BY DEF Spaces
<1>3. CASE url \in DOMAIN q.attrPrefix \/ (~isAttr /\ url = q.defaultNS) \/ url = XmlURL
  <2>1. a = q
    BY <1>3 DEF CreateNSPrefix
  <2> HIDE DEF a
  <2> QED BY <1>1, <1>2, <1>3, <2>1 DEF ElementKnown, AttrKnown, a
<1>4. CASE ~(url \in DOMAIN q.attrPrefix \/ (~isAttr /\ url = q.defaultNS) \/ url = XmlURL)
  <2>1. a = CreatePrefix(q, url)
    BY <1>4 DEF CreateNSPrefix
  <2>2. NeedsPrefix(url)
    BY <1>4 DEF Nameable, NeedsPrefix
  <2> HIDE DEF a
  <2>3. Grown(q, a, s, m) /\ url \in DOMAIN a.attrPrefix
    BY <1>4, <2>1, <2>2, CreatePrefixOpens
  <2> QED BY <1>2, <2>3 DEF ElementKnown, AttrKnown, a
<1> QED BY <1>3, <1>4

\* createNSPrefix for an element without a name space.
LEMMA CreateBareOpens ==
  ASSUME NEW q, NEW s, NEW m, Opening(q, s, m), Bare(q, m, TRUE)
  PROVE  LET a == CreateNSPrefix(q, "", FALSE)
         IN  /\ Opening(a, s, m) /\ ElementKnown(Spaces(a), "")
             /\ DOMAIN q.attrPrefix \subseteq DOMAIN a.attrPrefix
             /\ Once(q, m) => Once(a, m)
<1> DEFINE a == CreateNSPrefix(q, "", FALSE)
<1>1. "" \notin DOMAIN q.attrPrefix /\ "" # XmlURL
  BY DEF Opening, Good, Spaces, XmlURL
<1>2. CASE q.defaultNS = ""
  <2>1. a = q
    BY <1>2 DEF CreateNSPrefix
  <2> HIDE DEF a
  <2> QED BY <1>2, <2>1 DEF ElementKnown, Spaces, a
<1>3. CASE q.defaultNS # ""
  <2>1. a = PushPrefix(q, "", "")
    BY <1>1, <1>3 DEF CreateNSPrefix
  <2> HIDE DEF a
  <2>2. Added(q, a, s, m, "", "")
    BY <2>1, PushOpens DEF Fresh
  <2>3. Defines(Spaces(q), Spaces(a), "", "")
    BY <2>2, RedefinedIs DEF Added, Fresh, Opening
  <2>4. Spaces(a).d = "" /\ Spaces(a).x = Spaces(q).x
    BY <2>3 DEF Defines
  <2>5. a.attrPrefix = q.attrPrefix
    BY <2>4 DEF Spaces
  <2>6. ~Owned(q, m, "")
    BY <1>3 DEF Bare
  <2> QED BY <2>2, <2>4, <2>5, <2>6 DEF Added, ElementKnown, a
<1> QED BY <1>2, <1>3

\* One of the other attributes.
LEMMA ImplyOpens ==
  ASSUME EveryNumberTells, NEW q, NEW s, NEW m, Opening(q, s, m), NEW attr, Nameable(attr.space)
  PROVE  LET a == ImplyAttr(q, attr)
         IN  Grown(q, a, s, m) /\ AttrKnown(Spaces(a), attr.space)
<1>1. CASE attr.space = ""
  <2>1. ImplyAttr(q, attr) = q
    BY <1>1 DEF ImplyAttr
  <2> QED BY <1>1, <2>1 DEF Grown, AttrKnown
<1>2. CASE attr.space # ""
  <2>1. ImplyAttr(q, attr) = CreateNSPrefix(q, attr.space, TRUE)
    BY <1>2 DEF ImplyAttr
  <2> QED BY <1>2, <2>1, CreateOpens
<1> QED BY <1>1, <1>2

\* What has grown has so in any number of steps.
LEMMA GrownAgain ==
  ASSUME NEW p, NEW q, NEW a, NEW s, NEW m, Grown(p, q, s, m), Grown(q, a, s, m)
  PROVE  Grown(p, a, s, m)
BY DEF Grown

\* The encoder knows what it knew when nothing is undone.
LEMMA KnownStays ==
  ASSUME NEW q, NEW a, DOMAIN q.attrPrefix \subseteq DOMAIN a.attrPrefix,
         NEW url, AttrKnown(Spaces(q), url)
  PROVE  AttrKnown(Spaces(a), url)
<1>1. Spaces(q).x = q.attrPrefix /\ Spaces(a).x = a.attrPrefix
  BY DEF Spaces
<1> QED BY <1>1 DEF AttrKnown

\* All other attributes of the tag.
LEMMA ImpliedOpens ==
  ASSUME EveryNumberTells, NEW p, NEW s, NEW m, Opening(p, s, m),
         NEW seq, Len(seq) \in Nat, \A i \in 1..Len(seq) : Nameable(seq[i].space)
  PROVE  LET a == Implied(p, seq)
         IN  Grown(p, a, s, m) /\ \A i \in 1..Len(seq) : AttrKnown(Spaces(a), seq[i].space)
<1> DEFINE n == Len(seq)
<1>0. PICK at : ImpliedStates(p, seq, at)
  BY ImpliedRun
<1>1. /\ at[0] = p /\ at[n] = Implied(p, seq)
      /\ \A i \in 1..n : at[i] = ImplyAttr(at[i - 1], seq[i])
  BY <1>0 DEF ImpliedStates
<1> DEFINE Knows(i) == /\ Grown(p, at[i], s, m)
                       /\ \A j \in 1..i : AttrKnown(Spaces(at[i]), seq[j].space)
           T == {i \in 0..n : Knows(i)}
<1>2. n \in Nat /\ 0 \in 0..n /\ \A i \in 1..n : i \in 0..n /\ i - 1 \in 0..n
  OBVIOUS
<1>3. Knows(0)
  <2>1. Grown(p, p, s, m)
    BY DEF Grown
  <2> QED BY <1>1, <2>1
<1>4. ASSUME NEW i \in 1..n, Knows(i - 1)
      PROVE  Knows(i)
  <2> DEFINE q == at[i - 1]
             a == at[i]
             attr == seq[i]
  <2>1. /\ a = ImplyAttr(q, attr) /\ Nameable(attr.space) /\ Grown(p, q, s, m)
        /\ \A j \in 1..(i - 1) : AttrKnown(Spaces(q), seq[j].space)
    BY <1>1, <1>4
  <2>2. \A j \in 1..i : j = i \/ j \in 1..(i - 1)
    OBVIOUS
  <2> HIDE DEF q, a
  <2>3. Grown(q, a, s, m) /\ AttrKnown(Spaces(a), attr.space)
    <3>1. Opening(q, s, m)
      BY <2>1 DEF Grown
    <3> HIDE DEF attr
    <3> QED BY <2>1, <3>1, ImplyOpens
  <2>4. Grown(p, a, s, m)
    BY <2>1, <2>3, GrownAgain
  <2>5. ASSUME NEW j \in 1..(i - 1)
        PROVE  AttrKnown(Spaces(a), seq[j].space)
    BY <2>1, <2>3, KnownStays DEF Grown
  <2> QED BY <2>2, <2>3, <2>4, <2>5 DEF a
<1> HIDE DEF n, Knows
<1>5. n \in T
  <2>1. 0 \in T /\ \A i \in 1..n : i - 1 \in T => i \in T
    BY <1>2, <1>3, <1>4
  <2> HIDE DEF T
  <2>2. \A i \in 0..n : i \in T
    BY <1>2, <2>1, UpTo
  <2> QED BY <1>2, <2>2
<1> QED BY <1>1, <1>5 DEF Knows, n

(* A start token as a decoder returns it.                                   *)
IsAttrs(attrs) ==
  /\ DOMAIN attrs = 1..Len(attrs)
  /\ attrs = [i \in DOMAIN attrs |-> [space |-> attrs[i].space, local |-> attrs[i].local]]

Sendable(t) ==
  /\ IsStart(t) /\ IsName(t.name) /\ Nameable(t.name.space) /\ IsAttrs(t.attrs)
  /\ \A i \in 1..Len(t.attrs) : Nameable(t.attrs[i].space)
  /\ \A i \in 1..Len(t.decls) : LeavesXml(t.decls[i])

(* What writeStart has made of the printer p for the start token t.         *)
Opened(p, t, q) ==
  LET m == Len(p.prefixes) + 1
  IN  /\ Opening(q, Spaces(p), m) /\ (Distinct(t.decls) => Once(q, m))
      /\ ElementKnown(Spaces(q), t.name.space)
      /\ \A i \in 1..Len(t.attrs) : AttrKnown(Spaces(q), t.attrs[i].space)

\* writeStart has prefixes for all names of the tag.
LEMMA TagOpens ==
  ASSUME EveryNumberTells, NEW p, EncInv(p), p.seq \in Nat, Tame(Spaces(p)), NEW t, Sendable(t)
  PROVE  Opened(p, t, WriteStart(p, t).p)
<1> DEFINE tags == Append(p.tags, t.name)
           e == Append(p.prefixes, Mark)
           bare == t.name.space = ""
           marked == [p EXCEPT !.tags = tags, !.prefixes = Append(@, Mark)]
           declared == Declarations(marked, t.decls, bare)
           implied == Implied(declared, t.attrs)
           q == CreateNSPrefix(implied, t.name.space, FALSE)
           m == Len(p.prefixes) + 1
           s == Spaces(p)
<1>1. WriteStart(p, t).p = q
  BY DEF WriteStart, Declarations, Implied
<1>2. /\ IsPrinter(marked) /\ Spaces(marked) = Spaces(p) /\ marked.prefixes = e
      /\ marked.seq = p.seq
  BY DEF EncInv, IsPrinter, Spaces
<1> HIDE DEF marked
<1>3. IsSeq(p.prefixes) /\ Len(p.prefixes) \in Nat /\ Good(s)
  BY TracedIsGood DEF EncInv, Traced, IsSeq
<1>4. IsSeq(e) /\ Len(e) = m /\ e[m] = Mark
  BY <1>3, AppendIsSeq
<1>5. Mark.mark
  BY DEF Mark
<1> HIDE DEF e, m, s
<1>6. m \in Nat /\ m \in 1..m /\ (m + 1)..m = {}
  BY <1>3 DEF m
<1>7. \A x : ~Owned(marked, m, x)
  BY <1>2, <1>4, <1>6 DEF Owned
<1>8. Opening(marked, s, m)
  <2>1. Tame(s) /\ Spaces(marked) = s /\ marked.seq \in Nat
    BY <1>2 DEF s
  <2> QED BY <1>2, <1>3, <1>4, <1>5, <1>6, <1>7, <2>1 DEF Opening
<1>9. /\ Len(t.decls) \in Nat /\ Len(t.attrs) \in Nat /\ Nameable(t.name.space)
      /\ \A i \in 1..Len(t.attrs) : Nameable(t.attrs[i].space)
      /\ \A i \in 1..Len(t.decls) : LeavesXml(t.decls[i])
  BY DEF Sendable, IsStart
<1>10. Opening(declared, s, m) /\ Bare(declared, m, bare) /\ (Distinct(t.decls) => Once(declared, m))
  <2>1. m = Len(marked.prefixes) /\ bare \in BOOLEAN
    BY <1>2, <1>4
  <2> HIDE DEF bare
  <2> QED BY <1>8, <1>9, <2>1, DeclarationsOpen
<1> HIDE DEF declared
<1>11. /\ Grown(declared, implied, s, m)
       /\ \A i \in 1..Len(t.attrs) : AttrKnown(Spaces(implied), t.attrs[i].space)
  BY <1>9, <1>10, ImpliedOpens
<1> HIDE DEF implied
<1>12. /\ Opening(implied, s, m) /\ (Distinct(t.decls) => Once(implied, m))
       /\ Bare(implied, m, bare)
  BY <1>10, <1>11 DEF Grown, Bare
<1>13. /\ Opening(q, s, m) /\ ElementKnown(Spaces(q), t.name.space)
       /\ DOMAIN implied.attrPrefix \subseteq DOMAIN q.attrPrefix
       /\ Distinct(t.decls) => Once(q, m)
  <2>1. CASE t.name.space = ""
    <3>1. Bare(implied, m, TRUE) /\ q = CreateNSPrefix(implied, "", FALSE)
      BY <1>12, <2>1 DEF Bare
    <3> HIDE DEF q
    <3> QED BY <1>12, <2>1, <3>1, CreateBareOpens
  <2>2. CASE t.name.space # ""
    <3>1. Grown(implied, q, s, m) /\ ElementKnown(Spaces(q), t.name.space)
      BY <1>9, <1>12, <2>2, CreateOpens
    <3> QED BY <1>12, <3>1 DEF Grown
  <2> QED BY <2>1, <2>2
<1> HIDE DEF q
<1>14. \A i \in 1..Len(t.attrs) : AttrKnown(Spaces(q), t.attrs[i].space)
  BY <1>11, <1>13, KnownStays
<1> QED BY <1>1, <1>13, <1>14 DEF Opened, m, s

(* decls are the xmlns attributes for what is defined above m.               *)
Declared(q, m, decls) ==
  /\ IsSeq(decls)
  /\ \A i \in 1..Len(decls) : decls[i].url = Standing(Spaces(q), decls[i].prefix)
  /\ \A x : Owned(q, m, x) <=> \E i \in 1..Len(decls) : decls[i].prefix = x
  /\ Once(q, m) => Distinct(decls)

(* The other attributes, as they are written and as they are read.           *)
WrittenAttrs(p, attrs) ==
  [i \in DOMAIN attrs |-> [prefix |-> PrefixForNS(p, attrs[i].space, TRUE),
                           local  |-> attrs[i].local]]
ReadAttrs(ns, attrs) ==
  [i \in DOMAIN attrs |-> [space |-> Translate(ns, attrs[i].prefix, FALSE),
                           local |-> attrs[i].local]]

\* What writeStart writes of the definitions and of the other attributes.
LEMMA TagWritten ==
  ASSUME NEW p, EncInv(p), NEW t, IsStart(t), NEW s, NEW m, Opening(WriteStart(p, t).p, s, m)
  PROVE  LET w == WriteStart(p, t)
         IN  Declared(w.p, m, w.raw.decls) /\ w.raw.attrs = WrittenAttrs(w.p, t.attrs)
<1> DEFINE w == WriteStart(p, t)
           q == w.p
           own == OwnPrefixes(q)
           decls == [i \in DOMAIN own |-> [prefix |-> own[i].prefix,
                                           url |-> NsForPrefix(q, own[i].prefix)]]
           l == Len(q.prefixes)
           n == Len(own)
<1>1. w.raw.decls = decls /\ w.raw.attrs = WrittenAttrs(q, t.attrs)
  BY DEF WriteStart, WrittenAttrs
<1>2. IsSeq(w.raw.decls) /\ Opening(q, s, m)
  BY StartIsWritten
<1> HIDE DEF w
<1>3. /\ IsSeq(q.prefixes) /\ l \in Nat /\ m \in 1..l /\ q.prefixes[m].mark
      /\ \A i \in (m + 1)..l : ~q.prefixes[i].mark
  BY <1>2 DEF Opening, IsSeq
<1>4. PICK k \in 0..l :
        /\ n = l - k /\ (k # 0 => q.prefixes[k].mark)
        /\ \A i \in 1..(l - k) : /\ own[i] = q.prefixes[(l - i) + 1]
                                 /\ ~q.prefixes[(l - i) + 1].mark
  BY <1>3, OwnAre
<1> HIDE DEF l, n, own
<1>5. k = m
  <2>1. ~(k < m)
    <3>1. k < m => (l - m) + 1 \in 1..(l - k) /\ (l - ((l - m) + 1)) + 1 = m
      BY <1>3, <1>4
    <3> QED BY <1>3, <1>4, <3>1
  <2>2. ~(m < k)
    <3>1. m < k => k \in (m + 1)..l /\ k # 0
      BY <1>3, <1>4
    <3> QED BY <1>3, <1>4, <3>1
  <2> QED BY <1>3, <1>4, <2>1, <2>2
<1>6. n = l - m /\ n \in Nat
  BY <1>3, <1>4, <1>5
<1>7. \A i \in 1..n : (l - i) + 1 \in (m + 1)..l /\ own[i] = q.prefixes[(l - i) + 1]
  BY <1>3, <1>4, <1>5, <1>6
<1>8. DOMAIN decls = DOMAIN own /\ \A i \in DOMAIN own :
        decls[i].prefix = own[i].prefix /\ decls[i].url = NsForPrefix(q, own[i].prefix)
  OBVIOUS
<1>9. IsSeq(decls)
  BY <1>1, <1>2
<1> HIDE DEF decls
<1>10. Len(decls) = n /\ DOMAIN own = 1..n
  <2>1. DOMAIN decls = 1..Len(decls) /\ Len(decls) \in Nat
    BY <1>9 DEF IsSeq
  <2>2. IsSeq(own)
    <3> DEFINE x == q.prefixes
               j == SelectLastInSeq(x, LAMBDA r : r.mark)
               sub == SubSeq(x, j + 1, Len(x))
    <3>1. j \in 0..Len(x)
      BY <1>3, LastMark
    <3>2. own = Reverse(sub)
      BY DEF OwnPrefixes, own
    <3>3. Len(x) \in Nat
      BY <1>3 DEF IsSeq
    <3> HIDE DEF j
    <3>4. j + 1 \in Nat \ {0} /\ j + 1 <= Len(x) + 1 /\ Len(x) <= Len(x)
      BY <3>1, <3>3
    <3>5. IsSeq(sub)
      BY <1>3, <3>3, <3>4, SubSeqIsSeq
    <3> HIDE DEF sub
    <3> QED BY <3>2, <3>5, ReverseIsSeq
  <2>3. DOMAIN own = 1..n
    BY <2>2 DEF IsSeq, n
  <2> DEFINE y == Len(decls)
  <2>4. 1..y = 1..n /\ y \in Nat
    BY <1>8, <2>1, <2>3
  <2> HIDE DEF y
  <2>5. y = n
    <3>1. y \in 1..y \/ y = 0
      BY <2>4
    <3>2. n \in 1..n \/ n = 0
      BY <1>6
    <3> QED BY <1>6, <2>4, <3>1, <3>2
  <2> QED BY <2>3, <2>5 DEF y
<1>11. \A i \in 1..n : /\ decls[i].prefix = q.prefixes[(l - i) + 1].prefix
                       /\ decls[i].url = Standing(Spaces(q), decls[i].prefix)
  BY <1>7, <1>8, <1>10 DEF NsForPrefix, Standing, Spaces
<1>12. ASSUME NEW x
       PROVE  Owned(q, m, x) <=> \E i \in 1..n : decls[i].prefix = x
  <2>1. \A j \in (m + 1)..l : (l - j) + 1 \in 1..n /\ (l - ((l - j) + 1)) + 1 = j
    BY <1>3, <1>6
  <2>2. Owned(q, m, x) <=> \E j \in (m + 1)..l : q.prefixes[j].prefix = x
    BY DEF Owned, l
  <2>3. ASSUME NEW j \in (m + 1)..l, q.prefixes[j].prefix = x
        PROVE  \E i \in 1..n : decls[i].prefix = x
    <3>1. decls[(l - j) + 1].prefix = x
      BY <1>11, <2>1, <2>3
    <3> QED BY <2>1, <3>1
  <2>4. ASSUME NEW i \in 1..n, decls[i].prefix = x
        PROVE  \E j \in (m + 1)..l : q.prefixes[j].prefix = x
    BY <1>7, <1>11, <2>4
  <2> QED BY <2>2, <2>3, <2>4
<1>13. Once(q, m) => Distinct(decls)
  <2> SUFFICES ASSUME Once(q, m), NEW i \in 1..n, NEW j \in 1..n, decls[i].prefix = decls[j].prefix
               PROVE  i = j
    BY <1>10 DEF Distinct
  <2>1. \A x, y \in (m + 1)..l : q.prefixes[x].prefix = q.prefixes[y].prefix => x = y
    BY DEF Once, l
  <2>2. q.prefixes[(l - i) + 1].prefix = q.prefixes[(l - j) + 1].prefix
    BY <1>11
  <2>3. (l - i) + 1 = (l - j) + 1
    BY <1>7, <2>1, <2>2
  <2> QED BY <1>3, <2>3
<1> QED BY <1>1, <1>9, <1>10, <1>11, <1>12, <1>13 DEF Declared, w

(* From old to ns the prefixes of the first k declarations are given what    *)
(* stands for them in s, and no others.                                     *)
Given(ns, old, seq, k, s) ==
  \A x : \/ (\E i \in 1..k : seq[i].prefix = x) /\ x \in DOMAIN ns /\ ns[x] = Standing(s, x)
         \/ /\ ~\E i \in 1..k : seq[i].prefix = x
            /\ x \in DOMAIN ns <=> x \in DOMAIN old
            /\ x \in DOMAIN old => ns[x] = old[x]

\* A decoder that reads such declarations.
LEMMA InsideNs ==
  ASSUME NEW d, IsDecoder(d), NEW seq, Len(seq) \in Nat, NEW s,
         \A i \in 1..Len(seq) : seq[i].url = Standing(s, seq[i].prefix)
  PROVE  Given(Inside(d, seq).ns, d.ns, seq, Len(seq), s)
<1> DEFINE n == Len(seq)
<1>0. PICK at : InsideStates(d, seq, at)
  BY InsideRun
<1>1. at[0] = d /\ at[n] = Inside(d, seq) /\ \A i \in 1..n : at[i] = DeclareNs(at[i - 1], seq[i])
  BY <1>0 DEF InsideStates
<1> DEFINE Here(i) == IsDecoder(at[i]) /\ Given(at[i].ns, d.ns, seq, i, s)
           T == {i \in 0..n : Here(i)}
<1>2. n \in Nat /\ 0 \in 0..n /\ \A i \in 1..n : i \in 0..n /\ i - 1 \in 0..n
  OBVIOUS
<1>3. Here(0)
  <2>1. 1..0 = {}
    OBVIOUS
  <2> QED BY <1>1, <2>1 DEF Given
<1>4. ASSUME NEW i \in 1..n, Here(i - 1)
      PROVE  Here(i)
  <2> DEFINE a == at[i - 1]
             b == at[i]
             ns == With(a.ns, seq[i].prefix, seq[i].url)
  <2>1. IsDecoder(a) /\ Given(a.ns, d.ns, seq, i - 1, s) /\ b = DeclareNs(a, seq[i])
    BY <1>1, <1>4
  <2> HIDE DEF a, b
  <2>2. IsDecoder(b) /\ b.ns = ns
    BY <2>1 DEF DeclareNs, IsDecoder
  <2>3. /\ DOMAIN ns = DOMAIN a.ns \cup {seq[i].prefix} /\ ns[seq[i].prefix] = seq[i].url
        /\ \A x \in DOMAIN a.ns : x # seq[i].prefix => ns[x] = a.ns[x]
    BY DEF With
  <2> HIDE DEF ns
  <2>4. seq[i].url = Standing(s, seq[i].prefix) /\ \A j \in 1..i : j = i \/ j \in 1..(i - 1)
    OBVIOUS
  <2>5. i \in 1..i /\ \A j \in 1..(i - 1) : j \in 1..i
    OBVIOUS
  <2> SUFFICES ASSUME NEW x
               PROVE  \/ /\ \E j \in 1..i : seq[j].prefix = x
                         /\ x \in DOMAIN ns /\ ns[x] = Standing(s, x)
                      \/ /\ ~\E j \in 1..i : seq[j].prefix = x
                         /\ x \in DOMAIN ns <=> x \in DOMAIN d.ns
                         /\ x \in DOMAIN d.ns => ns[x] = d.ns[x]
    BY <2>2 DEF Given, b
  <2>6. CASE x = seq[i].prefix
    BY <2>3, <2>4, <2>5, <2>6
  <2>7. CASE x # seq[i].prefix
    <3>1. (\E j \in 1..i : seq[j].prefix = x) <=> \E j \in 1..(i - 1) : seq[j].prefix = x
      BY <2>4, <2>5, <2>7
    <3>2. (x \in DOMAIN ns <=> x \in DOMAIN a.ns) /\ (x \in DOMAIN a.ns => ns[x] = a.ns[x])
      BY <2>3, <2>7
    <3>3. \/ (\E j \in 1..(i - 1) : seq[j].prefix = x) /\ x \in DOMAIN a.ns /\ a.ns[x] = Standing(s, x)
          \/ /\ ~\E j \in 1..(i - 1) : seq[j].prefix = x
             /\ x \in DOMAIN a.ns <=> x \in DOMAIN d.ns
             /\ x \in DOMAIN d.ns => a.ns[x] = d.ns[x]
      BY <2>1 DEF Given
    <3> QED BY <3>1, <3>2, <3>3
  <2> QED BY <2>6, <2>7
<1> HIDE DEF n, Here
<1>5. n \in T
  <2>1. 0 \in T /\ \A i \in 1..n : i - 1 \in T => i \in T
    BY <1>2, <1>3, <1>4
  <2> HIDE DEF T
  <2>2. \A i \in 0..n : i \in T
    BY <1>2, <2>1, UpTo
  <2> QED BY <1>2, <2>2
<1> QED BY <1>1, <1>5 DEF Here, n

(* The reader has what the encoder has, and perhaps a default base where the *)
(* encoder has none.                                                        *)
Agree(s, ns, base) ==
  /\ \A prefix \in DOMAIN s.n : prefix \in DOMAIN ns /\ ns[prefix] = s.n[prefix]
  /\ IF s.d = "" THEN Look(ns, "") \in {"", base} ELSE Look(ns, "") = s.d

\* So they agree after a start tag when they did before it.
LEMMA AgreesAfter ==
  ASSUME NEW q, NEW s, NEW m, Opening(q, s, m), NEW decls, Declared(q, m, decls),
         NEW old, NEW base, Agree(s, old, base),
         NEW ns, Given(ns, old, decls, Len(decls), Spaces(q))
  PROVE  Agree(Spaces(q), ns, base)
<1> DEFINE u == Spaces(q)
<1>1. ASSUME NEW x
      PROVE  \/ Owned(q, m, x) /\ x \in DOMAIN ns /\ ns[x] = Standing(u, x)
             \/ /\ Standing(u, x) = Standing(s, x)
                /\ x \in DOMAIN ns <=> x \in DOMAIN old
                /\ x \in DOMAIN old => ns[x] = old[x]
  BY DEF Declared, Given, Opening
<1>2. Good(u)
  BY DEF Opening
<1> HIDE DEF u
<1>3. ASSUME NEW x \in DOMAIN u.n
      PROVE  x \in DOMAIN ns /\ ns[x] = u.n[x]
  <2>1. x # "" /\ u.n[x] # "" /\ Standing(u, x) = u.n[x]
    BY <1>2 DEF Good, Into, Standing, Look
  <2>2. Standing(s, x) = u.n[x] => x \in DOMAIN s.n /\ s.n[x] = u.n[x]
    BY <2>1 DEF Standing, Look
  <2> QED BY <1>1, <2>1, <2>2 DEF Agree
<1>4. IF u.d = "" THEN Look(ns, "") \in {"", base} ELSE Look(ns, "") = u.d
  <2>1. Standing(u, "") = u.d /\ Standing(s, "") = s.d
    BY DEF Standing
  <2>2. Look(ns, "") = u.d \/ (u.d = s.d /\ Look(ns, "") = Look(old, ""))
    BY <1>1, <2>1 DEF Look
  <2> QED BY <2>2 DEF Agree
<1> QED BY <1>3, <1>4 DEF Agree, u

\* The name of an element is read as it was sent.
LEMMA NameIsRead ==
  ASSUME NEW s, Good(s), Tame(s), NEW ns, NEW base, Agree(s, ns, base),
         NEW name, IsName(name), ElementKnown(s, name.space), base = "" \/ name.space # ""
  PROVE  ReadName(s, ns, name) = name
<1> DEFINE url == name.space
           prefix == PrefixIn(s, url)
<1>1. name = [space |-> url, local |-> name.local]
  BY DEF IsName
<1>2. CASE url = XmlURL
  BY <1>1, <1>2 DEF PrefixIn, ReadName, Translate
<1>3. CASE url # XmlURL /\ url = s.d
  <2>1. prefix = ""
    BY <1>3 DEF PrefixIn
  <2>2. Look(ns, "") = url
    BY <1>3 DEF Agree
  <2>3. Translate(ns, "", TRUE) = url
    BY <2>2 DEF Translate, Look
  <2> QED BY <1>1, <2>1, <2>3 DEF ReadName
<1>4. CASE url # XmlURL /\ url # s.d
  <2>1. url \in DOMAIN s.x
    BY <1>4 DEF ElementKnown
  <2>2. prefix = s.x[url]
    BY <1>4, <2>1 DEF PrefixIn, Look
  <2> HIDE DEF prefix, url
  <2>3. prefix \in DOMAIN s.n /\ s.n[prefix] = url /\ prefix # ""
    BY <2>1, <2>2 DEF Good, Into
  <2>4. prefix # "xml" /\ prefix \in DOMAIN ns /\ ns[prefix] = url
    BY <1>4, <2>3 DEF Tame, Agree
  <2>5. Translate(ns, prefix, TRUE) = url
    BY <2>3, <2>4 DEF Translate
  <2> QED BY <1>1, <2>5 DEF ReadName, prefix, url
<1> QED BY <1>2, <1>3, <1>4

\* So is the name space of an attribute.
LEMMA AttrIsRead ==
  ASSUME NEW p, Good(Spaces(p)), Tame(Spaces(p)), NEW ns, NEW base, Agree(Spaces(p), ns, base),
         NEW url, AttrKnown(Spaces(p), url)
  PROVE  Translate(ns, PrefixForNS(p, url, TRUE), FALSE) = url
<1> DEFINE s == Spaces(p)
           prefix == PrefixForNS(p, url, TRUE)
<1>1. prefix = IF url = XmlURL THEN "xml" ELSE Look(s.x, url)
  BY DEF PrefixForNS, Spaces
<1> HIDE DEF prefix, s
<1>2. Good(s) /\ Tame(s) /\ Agree(s, ns, base) /\ url \in {"", XmlURL} \cup DOMAIN s.x
  BY DEF s, AttrKnown
<1>3. CASE url = XmlURL
  BY <1>1, <1>3 DEF Translate, prefix
<1>4. CASE url # XmlURL /\ url \notin DOMAIN s.x
  <2>1. url = "" /\ prefix = ""
    BY <1>1, <1>2, <1>4 DEF Look
  <2> QED BY <2>1 DEF Translate, prefix
<1>5. CASE url # XmlURL /\ url \in DOMAIN s.x
  <2>1. prefix = s.x[url]
    BY <1>1, <1>5 DEF Look
  <2>2. prefix \in DOMAIN s.n /\ s.n[prefix] = url /\ prefix # ""
    BY <1>2, <1>5, <2>1 DEF Good, Into
  <2>3. prefix # "xml" /\ prefix \in DOMAIN ns /\ ns[prefix] = url
    BY <1>2, <1>5, <2>2 DEF Tame, Agree
  <2> QED BY <2>2, <2>3 DEF Translate, prefix
<1> QED BY <1>3, <1>4, <1>5

\* What a decoder makes of the attributes of a start tag.
LEMMA ReadyReads ==
  ASSUME NEW r, NEW sc, Ready(r, sc),
         NEW raw, raw.kind = "start", raw.empty = FALSE, IsSeq(raw.decls)
  PROVE  LET rd == Token(r, raw)
         IN  /\ rd.d.ns = Inside(NotClosing(r), raw.decls).ns /\ rd.t.decls = raw.decls
             /\ rd.t.attrs = ReadAttrs(rd.d.ns, raw.attrs)
<1> DEFINE e == NotClosing(r)
           rd == Token(r, raw)
           ns == Inside(e, raw.decls).ns
<1>1. StartAs(e, sc, raw, rd)
  BY ReadyTakes
<1>2. IsSeq(r.stk)
  BY DEF Ready, Stands, Layered
<1>3. TopKind(r) # "eof"
  BY <1>2, TopKindIs DEF Ready
<1>4. RawToken(r, raw) = [d |-> e, raw |-> raw]
  BY DEF RawToken, RawStart, Ready, NotClosing
<1>5. rd = StartToken(e, raw)
  <2> HIDE DEF e
  <2> QED BY <1>3, <1>4 DEF Token
<1> HIDE DEF e, rd
<1>6. rd.d.ns = ns
  BY <1>1 DEF StartAs
<1>7. StartToken(e, raw).t =
        [kind |-> "start",
         name |-> [space |-> Translate(ns, raw.prefix, TRUE), local |-> raw.local],
         decls |-> raw.decls,
         attrs |-> ReadAttrs(ns, raw.attrs)]
  BY Zenon DEF StartToken, Inside, ReadAttrs
<1> HIDE DEF ns
<1>8. rd.t.decls = raw.decls /\ rd.t.attrs = ReadAttrs(ns, raw.attrs)
  BY <1>5, <1>7
<1> QED BY <1>6, <1>8 DEF rd, e, ns

(* What the encoder has in e, and the reader has where it stands, agree.     *)
Clear(s, ns, base) == Tame(s) /\ Agree(s, ns, base)

(* rd is what is read of the start token t, from the printer p.             *)
TagRead(p, t, base, rd) ==
  /\ p.seq \in Nat /\ Clear(Spaces(p), rd.d.ns, base)
  /\ base = "" \/ t.name.space # "" => ReadName(Spaces(p), rd.d.ns, t.name) = t.name
  /\ rd.t.attrs = t.attrs /\ IsSeq(rd.t.decls) /\ (Distinct(t.decls) => Distinct(rd.t.decls))

\* A start tag as it is read again.
LEMMA TagIsRead ==
  ASSUME EveryNumberTells, NEW e, EncInv(e), e.seq \in Nat, NEW r, NEW sc, Ready(r, sc),
         NEW base, Clear(Spaces(e), r.ns, base), NEW t, Sendable(t)
  PROVE  LET w == WriteStart(e, t)
         IN  TagRead(w.p, t, base, Token(r, w.raw))
<1> DEFINE w == WriteStart(e, t)
           rd == Token(r, w.raw)
           m == Len(e.prefixes) + 1
           q == w.p
           decls == w.raw.decls
           s == Spaces(q)
<1>1. IsStart(t) /\ IsName(t.name) /\ IsAttrs(t.attrs)
  BY DEF Sendable
<1>2. Opened(e, t, q)
  BY TagOpens DEF Clear
<1>3. /\ Opening(q, Spaces(e), m) /\ (Distinct(t.decls) => Once(q, m))
      /\ ElementKnown(Spaces(q), t.name.space)
      /\ \A i \in 1..Len(t.attrs) : AttrKnown(Spaces(q), t.attrs[i].space)
  BY <1>2 DEF Opened
<1> HIDE DEF m
<1>4. Declared(q, m, decls) /\ w.raw.attrs = WrittenAttrs(q, t.attrs)
  BY <1>1, <1>3, TagWritten
<1>5. w.raw.kind = "start" /\ w.raw.empty = FALSE /\ IsSeq(decls)
  BY <1>1, StartIsWritten
<1> HIDE DEF w
<1>6. /\ rd.d.ns = Inside(NotClosing(r), decls).ns /\ rd.t.decls = decls
      /\ rd.t.attrs = ReadAttrs(rd.d.ns, w.raw.attrs)
  BY <1>5, ReadyReads
<1>7. IsDecoder(NotClosing(r)) /\ NotClosing(r).ns = r.ns
  BY <1>5, ReadyTakes
<1> HIDE DEF rd
<1>8. Given(rd.d.ns, r.ns, decls, Len(decls), s)
  <2>1. Len(decls) \in Nat /\ \A i \in 1..Len(decls) : decls[i].url = Standing(s, decls[i].prefix)
    BY <1>4, <1>5 DEF Declared, IsSeq
  <2> DEFINE c == NotClosing(r)
  <2> HIDE DEF c, decls, s
  <2>2. Given(Inside(c, decls).ns, c.ns, decls, Len(decls), s)
    BY <1>7, <2>1, InsideNs DEF c
  <2> QED BY <1>6, <1>7, <2>2 DEF c
<1>9. q.seq \in Nat /\ Good(s) /\ Tame(s)
  BY <1>3 DEF Opening
<1>10. Agree(s, rd.d.ns, base)
  BY <1>3, <1>4, <1>8, AgreesAfter DEF Clear
<1>11. base = "" \/ t.name.space # "" => ReadName(s, rd.d.ns, t.name) = t.name
  BY <1>1, <1>3, <1>9, <1>10, NameIsRead
<1>12. rd.t.attrs = t.attrs
  <2> DEFINE n == Len(t.attrs)
             Attr(i) == [space |-> Translate(rd.d.ns, PrefixForNS(q, t.attrs[i].space, TRUE), FALSE),
                         local |-> t.attrs[i].local]
  <2>1. DOMAIN t.attrs = 1..n
    BY <1>1 DEF IsAttrs
  <2>2. rd.t.attrs = [i \in 1..n |-> Attr(i)]
    <3> DEFINE y == w.raw.attrs
    <3>1. y = [i \in 1..n |-> [prefix |-> PrefixForNS(q, t.attrs[i].space, TRUE),
                               local  |-> t.attrs[i].local]]
      BY <1>4, <2>1 DEF WrittenAttrs
    <3> HIDE DEF y
    <3>2. DOMAIN y = 1..n /\ \A i \in 1..n : /\ y[i].prefix = PrefixForNS(q, t.attrs[i].space, TRUE)
                                            /\ y[i].local = t.attrs[i].local
      BY <3>1
    <3>3. rd.t.attrs = [i \in 1..n |-> [space |-> Translate(rd.d.ns, y[i].prefix, FALSE),
                                        local |-> y[i].local]]
      BY <1>6, <3>2 DEF ReadAttrs, y
    <3> QED BY <3>2, <3>3
  <2>3. ASSUME NEW i \in 1..n
        PROVE  Attr(i) = t.attrs[i]
    <3>1. Translate(rd.d.ns, PrefixForNS(q, t.attrs[i].space, TRUE), FALSE) = t.attrs[i].space
      BY <1>3, <1>9, <1>10, AttrIsRead
    <3>2. t.attrs[i] = [space |-> t.attrs[i].space, local |-> t.attrs[i].local]
      <4>1. /\ DOMAIN t.attrs = 1..n
            /\ t.attrs = [j \in DOMAIN t.attrs |-> [space |-> t.attrs[j].space,
                                                    local |-> t.attrs[j].local]]
        BY <1>1 DEF IsAttrs
      <4> QED BY <4>1
    <3> QED BY <3>1, <3>2
  <2> HIDE DEF Attr
  <2>4. rd.t.attrs = [i \in 1..n |-> t.attrs[i]]
    BY <2>2, <2>3
  <2>5. t.attrs = [i \in 1..n |-> t.attrs[i]]
    <3>1. t.attrs = [j \in DOMAIN t.attrs |-> [space |-> t.attrs[j].space,
                                               local |-> t.attrs[j].local]]
      BY <1>1 DEF IsAttrs
    <3> QED BY <2>1, <3>1
  <2> QED BY <2>4, <2>5
<1>13. IsSeq(rd.t.decls) /\ (Distinct(t.decls) => Distinct(rd.t.decls))
  BY <1>3, <1>4, <1>6 DEF Declared
<1> QED BY <1>9, <1>10, <1>11, <1>12, <1>13 DEF TagRead, Clear, w, rd

-----------------------------------------------------------------------------
(* The names of a value, level by level                                    *)

InAnswer(stk) == \E i \in 1..Len(stk) : stk[i] = StartFrame(Multistatus.name)

(* At every level encoder and reader agree, and the names that are open can  *)
(* be read; a default that the encoder knows nothing of is that of an       *)
(* answer.                                                                 *)
Named(z, n, base, tags) ==
  /\ \A i \in 0..n : Clear(z[i].s, z[i].ns, base) /\ (base # "" => InAnswer(z[i].r))
  /\ \A i \in 1..n : base = "" \/ tags[i].space # "" =>
                       ReadName(z[i].s, z[i].ns, tags[i]) = tags[i]

\* What stands in an answer does so when an element has started in it.
LEMMA AnswerStays ==
  ASSUME NEW stk, Len(stk) \in Nat, NEW new, NEW name, Rises(stk, new, name), InAnswer(stk)
  PROVE  InAnswer(new)
<1> DEFINE l == Len(stk)
           n == Len(new)
<1>1. PICK i \in 1..l : stk[i] = StartFrame(Multistatus.name)
  BY DEF InAnswer
<1>2. l \in Nat /\ n \in Nat /\ l < n /\ new[i] = stk[i]
  BY DEF Rises
<1> HIDE DEF l, n
<1>3. i \in 1..n
  BY <1>2
<1> QED BY <1>1, <1>2, <1>3 DEF InAnswer, n

(* What the start token t, and the end of the element called name, mean to   *)
(* the names at all levels.                                                *)
NamesOpen(e, r, z, base, t, f) ==
  LET w == WriteStart(e, t)
      rd == Token(r, w.raw)
  IN  /\ TagRead(w.p, t, base, rd) /\ (base # "" => InAnswer(rd.d.stk))
      /\ rd.t.name = ReadName(Spaces(w.p), rd.d.ns, t.name)
      /\ Named(Pushed(z, Len(e.tags), Snapshot(w.p, rd.d, f)), Len(w.p.tags), base, w.p.tags)

NamesClose(e, r, z, base, name) ==
  LET w == WriteEnd(e, name)
      rd == Token(r, w.raw)
  IN  /\ (base = "" \/ name.space # "" => rd.t.name = name)
      /\ (base # "" => InAnswer(rd.d.stk)) /\ w.p.seq = e.seq
      /\ Named(z, Len(w.p.tags), base, w.p.tags)

\* An element starts.
LEMMA NamesUp ==
  ASSUME EveryNumberTells, NEW e, NEW r, NEW d, NEW z, NEW sc, Paired(e, r, d, z, sc),
         e.seq \in Nat, NEW base, Named(z, Len(e.tags), base, e.tags),
         NEW t, Sendable(t), NEW f, IsSeq(f), TopIsElement(f), Rises(d, f, t.name)
  PROVE  NamesOpen(e, r, z, base, t, f)
<1> DEFINE w == WriteStart(e, t)
           rd == Token(r, w.raw)
           n == Len(e.tags)
           tags == Append(e.tags, t.name)
           a == Snapshot(w.p, rd.d, f)
           y == Pushed(z, n, a)
<1>1. /\ EncInv(e) /\ IsSeq(e.tags) /\ Ready(r, sc) /\ n \in Nat /\ z[n] = Snapshot(e, r, d)
      /\ IsStart(t)
  BY DEF Paired, IsSeq, Sendable
<1>2. z[n].s = Spaces(e) /\ z[n].ns = r.ns /\ z[n].r = r.stk
  BY <1>1 DEF Snapshot
<1>3. n \in 0..n /\ Clear(Spaces(e), r.ns, base) /\ (base # "" => InAnswer(r.stk))
  <2>1. n \in 0..n
    BY <1>1
  <2> QED BY <1>2, <2>1 DEF Named
<1>4. TagRead(w.p, t, base, rd)
  BY <1>1, <1>3, TagIsRead
<1>5. /\ StartAs(NotClosing(r), sc, w.raw, rd) /\ NotClosing(r).stk = r.stk
      /\ rd.t.name = ReadName(Spaces(w.p), rd.d.ns, t.name) /\ w.p.tags = tags
  BY <1>1, LevelUp
<1> HIDE DEF w, rd
<1>6. base # "" => InAnswer(rd.d.stk)
  <2>1. Rises(r.stk, rd.d.stk, rd.t.name)
    BY <1>5 DEF StartAs
  <2>2. Len(r.stk) \in Nat
    BY <1>1 DEF Ready, Stands, Layered, IsSeq
  <2> QED BY <1>3, <2>1, <2>2, AnswerStays
<1>7. Len(tags) = n + 1 /\ tags[n + 1] = t.name /\ \A i \in 1..n : tags[i] = e.tags[i]
  BY <1>1, AppendIsSeq
<1> HIDE DEF tags
<1>8. a.s = Spaces(w.p) /\ a.ns = rd.d.ns /\ a.r = rd.d.stk
  BY DEF Snapshot
<1> HIDE DEF a
<1>9. y[n + 1] = a /\ \A i \in 0..n : y[i] = z[i]
  <2>1. n + 1 \in 0..(n + 1) /\ ~(n + 1 <= n)
    BY <1>1
  <2>2. \A i \in 0..n : i \in 0..(n + 1) /\ i <= n
    BY <1>1
  <2> QED BY <2>1, <2>2 DEF Pushed
<1> HIDE DEF y
<1>10. /\ Clear(a.s, a.ns, base) /\ (base # "" => InAnswer(a.r))
       /\ base = "" \/ t.name.space # "" => ReadName(a.s, a.ns, t.name) = t.name
  BY <1>4, <1>6, <1>8 DEF TagRead
<1>11. /\ \A i \in 0..n : Clear(z[i].s, z[i].ns, base) /\ (base # "" => InAnswer(z[i].r))
       /\ \A i \in 1..n : base = "" \/ e.tags[i].space # "" =>
                            ReadName(z[i].s, z[i].ns, e.tags[i]) = e.tags[i]
  BY DEF Named
<1> HIDE DEF n
<1>12. /\ \A i \in 0..(n + 1) : i = n + 1 \/ i \in 0..n
       /\ \A i \in 1..(n + 1) : i = n + 1 \/ (i \in 1..n /\ i \in 0..n)
  BY <1>1
<1>13. ASSUME NEW i \in 0..(n + 1)
       PROVE  Clear(y[i].s, y[i].ns, base) /\ (base # "" => InAnswer(y[i].r))
  BY <1>9, <1>10, <1>11, <1>12
<1>14. ASSUME NEW i \in 1..(n + 1), base = "" \/ tags[i].space # ""
       PROVE  ReadName(y[i].s, y[i].ns, tags[i]) = tags[i]
  <2>1. CASE i = n + 1
    BY <1>7, <1>9, <1>10, <1>14, <2>1
  <2>2. CASE i # n + 1
    <3>1. i \in 1..n /\ i \in 0..n
      BY <1>12, <2>2
    <3> QED BY <1>7, <1>9, <1>11, <1>14, <3>1
  <2> QED BY <2>1, <2>2
<1>15. Named(y, n + 1, base, tags)
  BY <1>13, <1>14 DEF Named
<1> QED BY <1>4, <1>5, <1>6, <1>7, <1>15 DEF NamesOpen, w, rd, n, y, a

\* An element ends.
LEMMA NamesDown ==
  ASSUME NEW e, NEW r, NEW d, NEW z, NEW sc, Paired(e, r, d, z, sc), Len(e.tags) # 0,
         NEW base, Named(z, Len(e.tags), base, e.tags),
         NEW name, NEW f, IsSeq(f), Falls(d, f, name)
  PROVE  NamesClose(e, r, z, base, name)
<1> DEFINE w == WriteEnd(e, name)
           rd == Token(r, w.raw)
           n == Len(e.tags)
           m == n - 1
           tags == Front(e.tags)
<1>1. IsSeq(e.tags) /\ n \in Nat /\ n # 0
  BY DEF Paired, IsSeq
<1>2. /\ name = e.tags[n] /\ rd.t.name = ReadName(z[n].s, z[n].ns, name)
      /\ w.p.tags = tags /\ w.p.seq = e.seq /\ Paired(w.p, rd.d, f, z, Front(sc))
  BY LevelDown
<1> HIDE DEF w, rd
<1>3. IsSeq(tags) /\ Len(tags) = m /\ \A i \in 1..m : e.tags[i] = tags[i]
  BY <1>1, FrontSame
<1>4. z[m].r = rd.d.stk
  <2>1. z[m] = Snapshot(w.p, rd.d, f)
    BY <1>2, <1>3 DEF Paired
  <2> QED BY <2>1 DEF Snapshot
<1>5. /\ \A i \in 0..n : Clear(z[i].s, z[i].ns, base) /\ (base # "" => InAnswer(z[i].r))
      /\ \A i \in 1..n : base = "" \/ e.tags[i].space # "" =>
                           ReadName(z[i].s, z[i].ns, e.tags[i]) = e.tags[i]
  BY DEF Named
<1> HIDE DEF tags, n
<1>6. m \in 0..n /\ n \in 1..n /\ (\A i \in 0..m : i \in 0..n) /\ \A i \in 1..m : i \in 1..n
  BY <1>1
<1> HIDE DEF m
<1>7. Named(z, m, base, tags)
  BY <1>3, <1>5, <1>6 DEF Named
<1> QED BY <1>2, <1>3, <1>4, <1>5, <1>6, <1>7 DEF NamesClose, w, rd, n

\* The start of multistatus can be sent.
LEMMA MultistatusIsSendable == Sendable(Multistatus)
<1> DEFINE name == [space |-> "DAV:", local |-> "multistatus"]
           decl == [prefix |-> "D", url |-> "DAV:"]
<1>1. Multistatus = [kind |-> "start", name |-> name, decls |-> <<decl>>, attrs |-> << >>]
  BY DEF Multistatus
<1>2. Multistatus.name = name /\ Multistatus.decls = <<decl>> /\ Multistatus.attrs = << >>
  BY <1>1
<1>3. Len(<<decl>>) = 1 /\ \A i \in 1..1 : <<decl>>[i] = decl
  OBVIOUS
<1>4. LeavesXml(decl)
  BY DEF LeavesXml
<1> HIDE DEF decl
<1>5. \A i \in 1..Len(<<decl>>) : LeavesXml(<<decl>>[i])
  BY <1>3, <1>4
<1>6. Len(<< >>) = 0 /\ 1..0 = {} /\ DOMAIN << >> = {}
  OBVIOUS
<1>7. IsAttrs(<< >>)
  <2>1. << >> = [i \in {} |-> [space |-> (<< >>)[i].space, local |-> (<< >>)[i].local]]
    OBVIOUS
  <2> QED BY <1>6, <2>1 DEF IsAttrs
<1>8. IsName(name) /\ Nameable(name.space)
  BY DEF IsName, Nameable, NameSpaces
<1> QED BY <1>2, <1>3, <1>5, <1>6, <1>7, <1>8 DEF Sendable, IsStart

\* An answer to PROPFIND is a multistatus, to its reader too.
LEMMA AnswerIsRead ==
  ASSUME EveryNumberTells, NEW name
  PROVE  InAnswer(InResponse(name).stk)
<1> DEFINE w == WriteStart(NewPrinter, Multistatus)
           r0 == Token(NewDecoder, w.raw)
           sc == Append(<< >>, w.raw)
           raw == RawProperty(name)
<1>1. Ready(NewDecoder, << >>) /\ NewDecoder.ns = << >>
  <2>1. /\ NewDecoder.stk = << >> /\ NewDecoder.err = "none" /\ NewDecoder.toClose = << >>
        /\ NewDecoder.ns = << >> /\ Len(<< >>) = 0 /\ 1..0 = {}
    BY DEF NewDecoder
  <2> QED BY <2>1, NewStands DEF Ready, TopIsEOF
<1>2. IsStart(Multistatus)
  BY DEF IsStart, Multistatus
<1>3. Clear(Spaces(NewPrinter), << >>, "") /\ NewPrinter.seq \in Nat
  <2>1. DOMAIN << >> = {} /\ IsFiniteSet({})
    BY FS_EmptySet
  <2> DEFINE s == Spaces(NewPrinter)
  <2>2. s.n = << >> /\ s.d = "" /\ NewPrinter.seq \in Nat
    BY DEF Spaces, NewPrinter
  <2>3. Look(<< >>, "") = ""
    BY <2>1 DEF Look
  <2> HIDE DEF s
  <2>4. Clear(s, << >>, "")
    BY <2>1, <2>2, <2>3 DEF Clear, Tame, Agree
  <2> QED BY <2>2, <2>4 DEF s
<1>4. TagRead(w.p, Multistatus, "", r0)
  BY <1>1, <1>3, NewKeeps, MultistatusIsSendable, TagIsRead
<1>5. /\ w.raw.kind = "start" /\ w.raw.empty = FALSE /\ IsSeq(w.raw.decls)
      /\ w.raw.prefix = PrefixForNS(w.p, Multistatus.name.space, FALSE)
      /\ w.raw.local = Multistatus.name.local
  BY <1>2, NewKeeps, StartIsWritten
<1>6. EncInv(w.p)
  <2>1. Inner(w.p, NewPrinter, Append(NewPrinter.tags, Multistatus.name))
    BY <1>2, NewKeeps, StartKeeps
  <2> QED BY <2>1, InnerIsInv
<1>7. InResponse(name) = Token(r0.d, raw).d
  BY DEF InResponse
<1>8. raw.kind = "start" /\ raw.empty = FALSE /\ IsSeq(raw.decls)
  BY <1>6, PropertyIsWritten
<1> HIDE DEF w, raw
<1>9. Ready(r0.d, sc) /\ StartAs(NotClosing(NewDecoder), << >>, w.raw, r0)
  BY <1>1, <1>5, ReadyTakes
<1> HIDE DEF r0, sc
<1>10. r0.t.name = Multistatus.name
  <2>1. PrefixForNS(w.p, Multistatus.name.space, FALSE) = PrefixIn(Spaces(w.p), Multistatus.name.space)
    BY DEF PrefixForNS, PrefixIn, Spaces
  <2>2. r0.t.name = ReadName(Spaces(w.p), r0.d.ns, Multistatus.name)
    BY <1>5, <1>9, <2>1 DEF StartAs, ReadName
  <2> QED BY <1>4, <2>2 DEF TagRead
<1>11. InAnswer(r0.d.stk) /\ Len(r0.d.stk) \in Nat
  <2> DEFINE n == Len(r0.d.stk)
  <2>1. /\ n \in Nat /\ Len(NotClosing(NewDecoder).stk) < n
        /\ r0.d.stk[n] = StartFrame(r0.t.name)
    BY <1>9 DEF StartAs, Rises
  <2>2. NotClosing(NewDecoder).stk = << >> /\ Len(<< >>) = 0
    BY DEF NotClosing, NewDecoder
  <2> HIDE DEF n
  <2>3. n \in 1..n
    BY <2>1, <2>2
  <2> QED BY <1>10, <2>1, <2>3 DEF InAnswer, n
<1>12. Rises(r0.d.stk, InResponse(name).stk, Token(r0.d, raw).t.name)
  <2>1. StartAs(NotClosing(r0.d), sc, raw, Token(r0.d, raw)) /\ NotClosing(r0.d).stk = r0.d.stk
    BY <1>8, <1>9, ReadyTakes
  <2> QED BY <1>7, <2>1 DEF StartAs
<1> QED BY <1>11, <1>12, AnswerStays

\* When nothing was written encoder and reader agree.
LEMMA NamesStart ==
  ASSUME EveryNumberTells, NEW name, NEW r \in {NewDecoder, InResponse(name)},
         NEW d, IsSeq(d), TopIsElement(d)
  PROVE  \E z, sc, base : /\ Paired(NewPrinter, r, d, z, sc) /\ z[0].d = d
                          /\ Named(z, 0, base, << >>)
<1>1. PICK z, sc : Paired(NewPrinter, r, d, z, sc) /\ z[0].d = d
  BY ReadingStarts
<1> DEFINE base == Look(r.ns, "")
<1>2. NewPrinter.tags = << >> /\ Len(<< >>) = 0
  BY DEF NewPrinter
<1>3. z[0] = Snapshot(NewPrinter, r, d)
  BY <1>1, <1>2 DEF Paired
<1>4. z[0].s = NoSpaces /\ z[0].ns = r.ns /\ z[0].r = r.stk
  BY <1>3 DEF Snapshot, NoSpaces
<1>5. Clear(NoSpaces, r.ns, base)
  <2>1. DOMAIN << >> = {} /\ IsFiniteSet({})
    BY FS_EmptySet
  <2>2. NoSpaces.n = << >> /\ NoSpaces.d = ""
    BY DEF NoSpaces, Spaces, NewPrinter
  <2> QED BY <2>1, <2>2 DEF Clear, Tame, Agree
<1>6. base # "" => InAnswer(r.stk)
  <2>1. CASE r = NewDecoder
    <3>1. r.ns = << >> /\ DOMAIN << >> = {}
      BY <2>1 DEF NewDecoder
    <3> QED BY <3>1 DEF Look
  <2>2. CASE r = InResponse(name)
    BY <2>2, AnswerIsRead
  <2> QED BY <2>1, <2>2
<1> HIDE DEF base
<1>7. 0..0 = {0} /\ 1..0 = {}
  OBVIOUS
<1>8. Named(z, 0, base, << >>)
  BY <1>4, <1>5, <1>6, <1>7 DEF Named
<1> QED BY <1>1, <1>8

-----------------------------------------------------------------------------
(* The names of the document                                               *)

(* The open tags are such as a client sends.                                *)
Sent(sc) == \A i \in 1..Len(sc) : sc[i] \in RawStarts

\* They stay so with each token.
LEMMA ScopeIsSent ==
  ASSUME IsSeq(scope), Sent(scope), NEW raw \in Raws
  PROVE  Sent(ScopeAfter(dec, raw))
<1> DEFINE sd == ScopeAfter(dec, raw)
           l == Len(scope)
<1>1. l \in Nat
  BY DEF IsSeq
<1>2. CASE ReadsInput(dec) /\ raw.kind = "start"
  <2>1. sd = Append(scope, raw)
    BY <1>2 DEF ScopeAfter
  <2>2. Len(sd) = l + 1 /\ sd[l + 1] = raw /\ \A i \in 1..l : sd[i] = scope[i]
    BY <2>1, AppendIsSeq
  <2>3. raw \in RawStarts
    BY <1>2, RawsAssumption DEF Raws, Text
  <2> HIDE DEF sd
  <2>4. \A i \in 1..(l + 1) : i = l + 1 \/ i \in 1..l
    BY <1>1
  <2>5. \A i \in 1..l : scope[i] \in RawStarts
    BY DEF Sent
  <2> QED BY <2>2, <2>3, <2>4, <2>5 DEF Sent, sd
<1>3. CASE ~ReadsInput(dec) \/ (raw.kind = "end" /\ scope # << >>)
  <2>1. sd = Front(scope)
    BY <1>3 DEF ScopeAfter
  <2>2. CASE l = 0
    <3>1. scope = << >>
      <4>1. scope = [i \in 1..0 |-> scope[i]]
        BY <2>2 DEF IsSeq
      <4> QED BY <4>1
    <3>2. SubSeq(<< >>, 1, 0 - 1) = << >>
      BY SubSeqEmpty
    <3>3. Len(<< >>) = 0 /\ 1..0 = {}
      OBVIOUS
    <3>4. Front(<< >>) = << >>
      BY <3>2, <3>3 DEF Front
    <3>5. sd = << >>
      BY <2>1, <3>1, <3>4
    <3> HIDE DEF sd
    <3> QED BY <3>3, <3>5 DEF Sent, sd
  <2>3. CASE l # 0
    <3>1. Len(sd) = l - 1 /\ \A i \in 1..(l - 1) : scope[i] = sd[i]
      BY <2>1, <2>3, FrontSame
    <3> HIDE DEF sd
    <3>2. \A i \in 1..(l - 1) : i \in 1..l
      BY <1>1
    <3> QED BY <3>1, <3>2 DEF Sent, sd
  <2> QED BY <2>2, <2>3
<1>4. CASE /\ ~(ReadsInput(dec) /\ raw.kind = "start")
           /\ ~(~ReadsInput(dec) \/ (raw.kind = "end" /\ scope # << >>))
  <2>1. sd = scope
    BY <1>4 DEF ScopeAfter
  <2> QED BY <2>1
<1> QED BY <1>2, <1>3, <1>4

\* Whose prefixes and name spaces may be sent.
LEMMA SpacesOfTag ==
  ASSUME NEW raw \in RawStarts
  PROVE  /\ raw.prefix \in NameSpaces
         /\ \A i \in DOMAIN raw.decls : raw.decls[i].url \in NameSpaces
         /\ \A i \in DOMAIN raw.attrs : raw.attrs[i].prefix \in NameSpaces
<1> DEFINE A == {tag.prefix : tag \in RawStarts}
           B == UNION {{tag.decls[j].url : j \in DOMAIN tag.decls} : tag \in RawStarts}
           C == UNION {{tag.attrs[j].prefix : j \in DOMAIN tag.attrs} : tag \in RawStarts}
<1>1. raw.prefix \in A
  OBVIOUS
<1>2. ASSUME NEW i \in DOMAIN raw.decls
      PROVE  raw.decls[i].url \in B
  <2> DEFINE Urls(tag) == {tag.decls[j].url : j \in DOMAIN tag.decls}
  <2>1. raw.decls[i].url \in Urls(raw)
    OBVIOUS
  <2> HIDE DEF Urls
  <2>2. raw.decls[i].url \in UNION {Urls(tag) : tag \in RawStarts}
    BY <2>1
  <2> QED BY <2>2 DEF Urls
<1>3. ASSUME NEW i \in DOMAIN raw.attrs
      PROVE  raw.attrs[i].prefix \in C
  <2> DEFINE AttrPrefixes(tag) == {tag.attrs[j].prefix : j \in DOMAIN tag.attrs}
  <2>1. raw.attrs[i].prefix \in AttrPrefixes(raw)
    OBVIOUS
  <2> HIDE DEF AttrPrefixes
  <2>2. raw.attrs[i].prefix \in UNION {AttrPrefixes(tag) : tag \in RawStarts}
    BY <2>1
  <2> QED BY <2>2 DEF AttrPrefixes
<1>4. NameSpaces = {"DAV:"} \cup A \cup B \cup C
  BY DEF NameSpaces
<1> HIDE DEF A, B, C
<1> QED BY <1>1, <1>2, <1>3, <1>4

\* The name spaces in force are some that a client declares.
LEMMA DeclaredUrls ==
  ASSUME NEW d, NEW sc, Stands(d, sc), Sent(sc), NEW prefix \in DOMAIN d.ns
  PROVE  d.ns[prefix] \in NameSpaces
<1> DEFINE A == Among(sc, Len(sc))
           ns == d.ns
<1>1. Len(sc) \in Nat /\ Exact(ns, sc, A)
  BY TopIsExact DEF Stands, IsSeq
<1>2. \A i \in 1..Len(sc) : sc[i] \in RawStarts /\ IsSeq(sc[i].decls)
  <2> SUFFICES ASSUME NEW i \in 1..Len(sc)
               PROVE  sc[i] \in RawStarts /\ IsSeq(sc[i].decls)
    OBVIOUS
  <2>1. sc[i] \in RawStarts
    BY DEF Sent
  <2>2. sc[i].decls \in Seq([prefix : STRING, url : STRING])
    BY <2>1, RawsAssumption
  <2> QED BY <2>1, <2>2, SeqIsSeq
<1>3. PICK a \in A : /\ DeclIn(sc, a).prefix = prefix
                     /\ \A b \in A : LaterIn(b, a) => DeclIn(sc, b).prefix # prefix
  <2>1. \E a \in A : DeclIn(sc, a).prefix = prefix
    BY <1>1 DEF Exact
  <2> QED BY <1>1, <1>2, <2>1, LastDeclared
<1>4. ns[prefix] = DeclIn(sc, a).url
  <2> HIDE DEF A
  <2> QED BY <1>1, <1>3 DEF Exact
<1>5. PICK i \in 1..Len(sc) : \E j \in DOMAIN sc[i].decls : a = <<i, j>>
  BY DEF Among
<1>6. PICK j \in DOMAIN sc[i].decls : a = <<i, j>>
  BY <1>5
<1>7. DeclIn(sc, a).url = sc[i].decls[j].url
  BY <1>6 DEF DeclIn
<1>8. sc[i].decls[j].url \in NameSpaces
  BY <1>2, <1>6, SpacesOfTag
<1> QED BY <1>4, <1>7, <1>8

\* A prefix stands for a name space that can be sent.
LEMMA PrefixIsNameable ==
  ASSUME NEW ns, \A x \in DOMAIN ns : ns[x] \in NameSpaces,
         NEW prefix, prefix = "" \/ prefix \in NameSpaces, NEW isElement \in BOOLEAN
  PROVE  Nameable(Translate(ns, prefix, isElement))
<1>1. Translate(ns, prefix, isElement) \in {"", XmlURL, prefix}
      \/ (prefix \in DOMAIN ns /\ Translate(ns, prefix, isElement) = ns[prefix])
  BY DEF Translate
<1> QED BY <1>1 DEF Nameable

(* t is a start token of the tag raw.                                       *)
TokenOf(raw, t) == Sendable(t) /\ (TagsDeclareOnce => Distinct(t.decls))

\* A start token of the document can be sent.
LEMMA TokenIsSendable ==
  ASSUME XmlIsXml, Stands(dec, scope), ~TopIsEOF(dec.stk), Sent(scope),
         NEW raw \in Raws, Token(dec, raw).t.kind = "start"
  PROVE  TokenOf(raw, Token(dec, raw).t)
<1> DEFINE q == RawToken(dec, raw)
           r == Token(dec, raw)
           e == q.d
           sd == Append(scope, raw)
           ns == Inside(e, raw.decls).ns
<1>1. TopKind(dec) # "eof" /\ IsDecoder(dec) /\ IsSeq(scope)
  BY TopKindIs DEF Stands, Layered
<1>2. q.raw = raw \/ (q.raw.kind # "start" /\ q.raw.kind \in {"end", "error"})
  BY RawTokenIs
<1>3. q.raw.kind = "start"
  <2> HIDE DEF q
  <2>1. CASE q.raw.kind = "end"
    <3>1. r = EndToken(q.d, q.raw)
      BY <1>1, <2>1 DEF Token, q
    <3> QED BY <3>1 DEF EndToken, Failed
  <2>2. CASE q.raw.kind \notin {"start", "end"}
    <3>1. r = [d |-> q.d, t |-> q.raw]
      BY <1>1, <2>2 DEF Token, q
    <3> QED BY <2>2, <3>1
  <2> QED BY <2>1, <2>2
<1>4. q.raw = raw /\ raw.kind = "start"
  BY <1>2, <1>3
<1>5. raw \in RawStarts
  BY <1>4, RawsAssumption DEF Raws, Text
<1>6. e.stk = dec.stk /\ e.ns = dec.ns /\ IsDecoder(e)
  <2>1. CASE dec.err # "none"
    <3>1. q = [d |-> dec, raw |-> Failed(dec.err)]
      BY <2>1 DEF RawToken
    <3> QED BY <1>1, <3>1
  <2>2. CASE dec.err = "none" /\ dec.toClose # << >>
    <3>1. q.d = [dec EXCEPT !.toClose = << >>]
      BY <2>2 DEF RawToken
    <3> QED BY <1>1, <3>1 DEF IsDecoder
  <2>3. CASE dec.err = "none" /\ dec.toClose = << >>
    <3>1. q.d = [dec EXCEPT !.toClose = IF raw.empty THEN <<raw>> ELSE << >>]
      BY <1>4, <2>3 DEF RawToken, RawStart
    <3> HIDE DEF q
    <3> QED BY <1>1, <3>1 DEF IsDecoder
  <2> QED BY <2>1, <2>2, <2>3
<1>7. r = StartToken(e, raw)
  BY <1>1, <1>4 DEF Token
<1> HIDE DEF q, e
<1>8. Stands(e, scope)
  BY <1>6 DEF Stands
<1>9. raw.decls \in Seq([prefix : STRING, url : STRING])
      /\ raw.attrs \in Seq([prefix : STRING, local : STRING])
  BY <1>5, RawsAssumption
<1>10. IsSeq(raw.decls) /\ IsSeq(raw.attrs)
  BY <1>9, SeqIsSeq
<1>11. StartAs(e, scope, raw, r)
  BY <1>7, <1>8, <1>10, StartSteps
<1>12. Stands(r.d, sd) /\ r.d.ns = ns
       /\ r.t.name = [space |-> Translate(ns, raw.prefix, TRUE), local |-> raw.local]
  BY <1>11 DEF StartAs
<1>13. r.t.decls = raw.decls /\ r.t.attrs = ReadAttrs(ns, raw.attrs)
  <2>1. StartToken(e, raw).t =
          [kind |-> "start",
           name |-> [space |-> Translate(ns, raw.prefix, TRUE), local |-> raw.local],
           decls |-> raw.decls, attrs |-> ReadAttrs(ns, raw.attrs)]
    BY Zenon DEF StartToken, Inside, ReadAttrs
  <2> HIDE DEF ns
  <2> QED BY <1>7, <2>1
<1> HIDE DEF r, ns
<1>14. Sent(sd)
  <2> DEFINE l == Len(scope)
  <2>1. l \in Nat /\ Len(sd) = l + 1 /\ sd[l + 1] = raw /\ \A i \in 1..l : sd[i] = scope[i]
    BY <1>1, AppendIsSeq DEF IsSeq
  <2> HIDE DEF sd
  <2>2. \A i \in 1..l : scope[i] \in RawStarts
    BY DEF Sent
  <2> HIDE DEF l
  <2>3. \A i \in 1..(l + 1) : i = l + 1 \/ i \in 1..l
    BY <2>1
  <2> QED BY <1>5, <2>1, <2>2, <2>3 DEF Sent
<1> HIDE DEF sd
<1>15. \A x \in DOMAIN ns : ns[x] \in NameSpaces
  BY <1>12, <1>14, DeclaredUrls
<1>16. IsName(r.t.name) /\ Nameable(r.t.name.space)
  <2>1. raw.prefix \in NameSpaces
    BY <1>5, SpacesOfTag
  <2>2. Nameable(Translate(ns, raw.prefix, TRUE))
    BY <1>15, <2>1, PrefixIsNameable
  <2> DEFINE space == Translate(ns, raw.prefix, TRUE)
  <2>3. r.t.name = [space |-> space, local |-> raw.local]
    BY <1>12
  <2> HIDE DEF space
  <2>4. r.t.name.space = space /\ IsName(r.t.name)
    BY <2>3 DEF IsName
  <2> QED BY <2>2, <2>4 DEF space
<1> DEFINE n == Len(raw.attrs)
           attrs == r.t.attrs
<1>17. n \in Nat /\ DOMAIN raw.attrs = 1..n
  BY <1>10 DEF IsSeq
<1>18. attrs = [i \in 1..n |-> [space |-> Translate(ns, raw.attrs[i].prefix, FALSE),
                                local |-> raw.attrs[i].local]]
  BY <1>13, <1>17 DEF ReadAttrs
<1> HIDE DEF n, attrs
<1>19. Len(attrs) = n /\ DOMAIN attrs = 1..n
  <2> DEFINE Attr(i) == [space |-> Translate(ns, raw.attrs[i].prefix, FALSE),
                         local |-> raw.attrs[i].local]
  <2>1. attrs \in Seq({Attr(i) : i \in 1..n})
    <3>1. attrs = [i \in 1..n |-> Attr(i)]
      BY <1>18
    <3> HIDE DEF Attr
    <3> QED BY <1>17, <3>1
  <2>2. DOMAIN attrs = 1..n
    BY <1>18
  <2>3. DOMAIN attrs = 1..Len(attrs) /\ Len(attrs) \in Nat
    BY <2>1
  <2> QED BY <1>17, <2>2, <2>3
<1>20. /\ \A i \in 1..n : attrs[i].space = Translate(ns, raw.attrs[i].prefix, FALSE)
       /\ attrs = [i \in 1..n |-> [space |-> attrs[i].space, local |-> attrs[i].local]]
  BY <1>18
<1>21. IsAttrs(attrs)
  BY <1>19, <1>20 DEF IsAttrs
<1>22. ASSUME NEW i \in 1..n
       PROVE  Nameable(attrs[i].space)
  <2>1. raw.attrs[i].prefix \in NameSpaces
    BY <1>5, <1>17, SpacesOfTag
  <2>2. Nameable(Translate(ns, raw.attrs[i].prefix, FALSE))
    BY <1>15, <2>1, PrefixIsNameable
  <2> QED BY <1>20, <2>2
<1>23. /\ Len(r.t.decls) \in Nat /\ DOMAIN raw.decls = 1..Len(r.t.decls)
       /\ \A i \in 1..Len(r.t.decls) : LeavesXml(r.t.decls[i])
  <2>1. DOMAIN raw.decls = 1..Len(raw.decls) /\ Len(raw.decls) \in Nat
    BY <1>10 DEF IsSeq
  <2>2. \A i \in DOMAIN raw.decls : LeavesXml(raw.decls[i])
    BY <1>5 DEF XmlIsXml, LeavesXml
  <2> QED BY <1>13, <2>1, <2>2
<1>24. TagsDeclareOnce => Distinct(r.t.decls)
  BY <1>5, <1>13, <1>23 DEF TagsDeclareOnce, Distinct
<1>25. Sendable(r.t)
  BY <1>16, <1>17, <1>19, <1>21, <1>22, <1>23 DEF Sendable, IsStart, attrs
<1> QED BY <1>24, <1>25 DEF TokenOf, r

-----------------------------------------------------------------------------
(* In a value encoder and reader agree at every level, the names that went   *)
(* through last are the same, and no prefix was declared twice.            *)
NamesInvariant ==
  /\ Sent(scope) /\ enc.seq \in Nat
  /\ \E z, sc, d, base : /\ Paired(enc, reader, d, z, sc)
                         /\ Named(z, Len(enc.tags), base, enc.tags)
                         /\ phase = "value" => d = dec.stk /\ StartsWith(z[0].d, start)
  /\ ReadAsSent /\ (TagsDeclareOnce => DeclaredOnce)

\* No name has come through where no tag has.
LEMMA NoNames ==
  ASSUME passed = NoTokens
  PROVE  ReadAsSent /\ DeclaredOnce
<1>1. passed.sent.kind = "text" /\ passed.read.kind = "text"
  BY DEF NoTokens, Text
<1> QED BY <1>1 DEF ReadAsSent, DeclaredOnce

\* Nor where the last step brought none.
LEMMA NoNamesNext ==
  ASSUME passed' = NoTokens
  PROVE  ReadAsSent' /\ DeclaredOnce'
<1>1. passed'.sent.kind = "text" /\ passed'.read.kind = "text"
  BY DEF NoTokens, Text
<1> QED BY <1>1 DEF ReadAsSent, DeclaredOnce

\* At first nothing was written or read.
LEMMA NamesInit ==
  ASSUME EveryNumberTells, Init
  PROVE  NamesInvariant
<1>1. /\ enc = NewPrinter /\ reader = NewDecoder /\ phase = "props" /\ passed = NoTokens
      /\ scope = << >>
  BY DEF Init
<1>2. << >> \in Seq({}) /\ Len(<< >>) = 0 /\ 1..0 = {}
  OBVIOUS
<1>3. IsSeq(<< >>) /\ TopIsElement(<< >>)
  BY <1>2, SeqIsSeq DEF TopIsElement
<1>4. NewDecoder \in {NewDecoder, InResponse(NoName)}
  OBVIOUS
<1>5. PICK z, sc, base : Paired(NewPrinter, NewDecoder, << >>, z, sc) /\ Named(z, 0, base, << >>)
  BY <1>3, <1>4, NamesStart
<1>6. NewPrinter.tags = << >> /\ NewPrinter.seq \in Nat
  BY DEF NewPrinter
<1>7. Sent(<< >>)
  BY <1>2 DEF Sent
<1>8. ReadAsSent /\ DeclaredOnce
  BY <1>1, NoNames
<1> QED BY <1>1, <1>2, <1>5, <1>6, <1>7, <1>8 DEF NamesInvariant

\* Between properties.
LEMMA NamesProps ==
  ASSUME EveryNumberTells, DecoderInvariant, NamesInvariant, NEW raw \in Raws, BetweenProps(raw)
  PROVE  NamesInvariant'
<1> DEFINE r == Token(dec, raw)
           sd == ScopeAfter(dec, raw)
<1>1. phase = "props" /\ passed' = NoTokens /\ scope' = sd
  BY DEF BetweenProps
<1>2. \/ phase' # "value" /\ enc' = enc /\ reader' = reader
      \/ /\ r.t.kind = "start" /\ phase' = "value" /\ start' = r.t.name /\ dec' = PushEOF(r.d)
         /\ enc' = NewPrinter /\ reader' \in {NewDecoder, InResponse(r.t.name)}
  BY <1>1, Zenon DEF BetweenProps
<1>3. ReadAsSent' /\ DeclaredOnce'
  BY <1>1, NoNamesNext
<1>4. dec.err = "none" /\ Stands(dec, scope) /\ NoEOF(dec.stk) /\ IsSeq(scope)
  BY <1>1 DEF DecoderInvariant, Stands
<1>5. Sent(scope) /\ enc.seq \in Nat
  BY DEF NamesInvariant
<1>6. Sent(sd)
  BY <1>4, <1>5, ScopeIsSent
<1>7. CASE phase' # "value" /\ enc' = enc /\ reader' = reader
  <2>1. PICK z, sc, d, base : /\ Paired(enc, reader, d, z, sc)
                              /\ Named(z, Len(enc.tags), base, enc.tags)
    BY DEF NamesInvariant
  <2> HIDE DEF sd
  <2> QED BY <1>1, <1>3, <1>5, <1>6, <1>7, <2>1 DEF NamesInvariant
<1>8. CASE /\ r.t.kind = "start" /\ phase' = "value" /\ start' = r.t.name /\ dec' = PushEOF(r.d)
           /\ enc' = NewPrinter /\ reader' \in {NewDecoder, InResponse(r.t.name)}
  <2>2. Len(dec.stk) \in Nat
    BY <1>4 DEF Stands, Layered, IsSeq
  <2>3. ~TopIsEOF(dec.stk)
    BY <1>4, <2>2 DEF TopIsEOF, NoEOF
  <2>4. Errs(dec, r, sd) \/ Opens(dec, r, sd) \/ Closes(dec, r, sd) \/ Passes(dec, r, sd)
    BY <1>4, <2>3, TokenSteps
  <2> DEFINE d == r.d
             name == r.t.name
             e == PushEOF(d)
  <2> HIDE DEF r, sd
  <2>5. Stands(d, sd) /\ Rises(dec.stk, d.stk, name)
    BY <1>8, <2>4 DEF Errs, Opens, Closes, Passes
  <2>6. dec' = e /\ start' = name /\ reader' \in {NewDecoder, InResponse(name)}
    BY <1>8
  <2> HIDE DEF d, name
  <2>7. Stands(e, sd) /\ StartsWith(e.stk, name)
    BY <1>4, <2>2, <2>5, PushEOFSteps DEF StartsWith
  <2> HIDE DEF e
  <2>8. IsSeq(e.stk) /\ TopIsElement(e.stk)
    BY <2>7 DEF Stands, Layered
  <2>9. PICK z, sc, base : /\ Paired(NewPrinter, reader', e.stk, z, sc) /\ z[0].d = e.stk
                           /\ Named(z, 0, base, << >>)
    BY <2>6, <2>8, NamesStart
  <2>10. NewPrinter.tags = << >> /\ NewPrinter.seq \in Nat /\ Len(<< >>) = 0
    BY DEF NewPrinter
  <2> QED BY <1>1, <1>3, <1>6, <1>8, <2>6, <2>7, <2>9, <2>10 DEF NamesInvariant
<1> QED BY <1>2, <1>7, <1>8

\* What a start tag brings through.
LEMMA StartIsKept ==
  ASSUME NEW t, t.kind = "start", NEW p, NEW base, NEW rd, TagRead(p, t, base, rd),
         rd.t.name = ReadName(Spaces(p), rd.d.ns, t.name),
         base # "" => InAnswer(rd.d.stk), IsSeq(rd.d.stk),
         reader' = rd.d, passed' = [sent |-> t, read |-> rd.t],
         TagsDeclareOnce => Distinct(t.decls)
  PROVE  ReadAsSent' /\ (TagsDeclareOnce => DeclaredOnce')
<1>1. passed'.sent = t /\ passed'.read = rd.t
  OBVIOUS
<1>2. /\ base = "" \/ t.name.space # "" => rd.t.name = t.name
      /\ rd.t.attrs = t.attrs /\ (Distinct(t.decls) => Distinct(rd.t.decls))
  BY DEF TagRead
<1>3. Alone' => base = ""
  <2>1. DOMAIN rd.d.stk = 1..Len(rd.d.stk)
    BY DEF IsSeq
  <2> QED BY <2>1 DEF Alone, InAnswer
<1>4. ReadAsSent'
  BY <1>1, <1>2, <1>3 DEF ReadAsSent
<1>5. TagsDeclareOnce => DeclaredOnce'
  <2>1. DOMAIN rd.t.decls = 1..Len(rd.t.decls)
    BY DEF TagRead, IsSeq
  <2>2. TagsDeclareOnce => Distinct(rd.t.decls)
    BY <1>2
  <2> QED BY <1>1, <2>1, <2>2 DEF DeclaredOnce, Distinct
<1> QED BY <1>4, <1>5

\* What an end tag, or a text, brings through.
LEMMA EndIsKept ==
  ASSUME NEW t, t.kind # "start", NEW rd, rd.t.kind = t.kind, NEW base,
         t.kind = "end" /\ (base = "" \/ t.name.space # "") => rd.t.name = t.name,
         base # "" => InAnswer(rd.d.stk), IsSeq(rd.d.stk),
         reader' = rd.d, passed' = [sent |-> t, read |-> rd.t]
  PROVE  ReadAsSent' /\ DeclaredOnce'
<1>1. passed'.sent = t /\ passed'.read = rd.t
  OBVIOUS
<1>2. Alone' => base = ""
  <2>1. DOMAIN rd.d.stk = 1..Len(rd.d.stk)
    BY DEF IsSeq
  <2> QED BY <2>1 DEF Alone, InAnswer
<1> QED BY <1>1, <1>2 DEF ReadAsSent, DeclaredOnce

\* In a value.
LEMMA NamesValue ==
  ASSUME XmlIsXml, EveryNumberTells, DecoderInvariant, NamesInvariant,
         NEW raw \in Raws, InValue(raw)
  PROVE  NamesInvariant'
<1> DEFINE r == Token(dec, raw)
           sd == ScopeAfter(dec, raw)
           w == EncodeToken(enc, r.t)
           rd == Token(reader, w.raw)
<1>1. phase = "value" /\ scope' = sd
  BY DEF InValue
<1>2. \/ phase' = "refused" /\ enc' = enc /\ reader' = reader /\ passed' = NoTokens
      \/ phase' = "props" /\ enc' = NewPrinter /\ reader' = NewDecoder /\ passed' = NoTokens
      \/ /\ r.t.kind = "comment" /\ dec' = r.d /\ phase' = phase /\ start' = start
         /\ enc' = enc /\ reader' = reader /\ passed' = passed
      \/ /\ r.t.kind \notin {"error", "comment"} /\ ~(r.t.kind = "end" /\ r.t.name = start)
         /\ dec' = r.d /\ phase' = phase /\ start' = start
         /\ enc' = w.p /\ reader' = rd.d /\ passed' = [sent |-> r.t, read |-> rd.t]
  BY Zenon DEF InValue
<1>3. dec.err = "none" /\ Stands(dec, scope) /\ ValueOpen(dec.stk, start) /\ IsSeq(scope)
  BY <1>1 DEF DecoderInvariant, Stands
<1>4. Len(dec.stk) \in Nat
  BY <1>3 DEF Stands, Layered, IsSeq
<1>5. ~TopIsEOF(dec.stk)
  BY <1>3, <1>4 DEF TopIsEOF, ValueOpen
<1>6. Errs(dec, r, sd) \/ Opens(dec, r, sd) \/ Closes(dec, r, sd) \/ Passes(dec, r, sd)
  BY <1>3, <1>5, TokenSteps
<1>7. Sent(scope) /\ enc.seq \in Nat /\ ReadAsSent /\ (TagsDeclareOnce => DeclaredOnce)
  BY DEF NamesInvariant
<1>8. Sent(sd)
  BY <1>3, <1>7, ScopeIsSent
<1>9. r.t.kind = "start" => TokenOf(raw, r.t)
  BY <1>3, <1>5, <1>7, TokenIsSendable
<1> DEFINE d == dec.stk
           t == r.t
           f == r.d.stk
<1>10. w = IF t.kind = "start" THEN WriteStart(enc, t)
           ELSE IF t.kind = "end" THEN WriteEnd(enc, t.name) ELSE [p |-> enc, raw |-> t]
  BY DEF EncodeToken
<1> HIDE DEF w
<1>11. PICK z, sc, base : /\ Paired(enc, reader, d, z, sc) /\ StartsWith(z[0].d, start)
                          /\ Named(z, Len(enc.tags), base, enc.tags)
  BY <1>1 DEF NamesInvariant
<1> HIDE DEF r, sd
<1>12. CASE phase' = "refused" /\ enc' = enc /\ reader' = reader /\ passed' = NoTokens
  <2>1. ReadAsSent' /\ DeclaredOnce'
    BY <1>12, NoNamesNext
  <2> QED BY <1>1, <1>7, <1>8, <1>11, <1>12, <2>1 DEF NamesInvariant
<1>13. CASE phase' = "props" /\ enc' = NewPrinter /\ reader' = NewDecoder /\ passed' = NoTokens
  <2>1. << >> \in Seq({}) /\ Len(<< >>) = 0
    OBVIOUS
  <2>2. IsSeq(<< >>) /\ TopIsElement(<< >>)
    BY <2>1, SeqIsSeq DEF TopIsElement
  <2>3. NewDecoder \in {NewDecoder, InResponse(NoName)}
    OBVIOUS
  <2>4. PICK y, sb, other : /\ Paired(NewPrinter, NewDecoder, << >>, y, sb)
                            /\ Named(y, 0, other, << >>)
    BY <2>2, <2>3, NamesStart
  <2>5. NewPrinter.tags = << >> /\ NewPrinter.seq \in Nat
    BY DEF NewPrinter
  <2>6. ReadAsSent' /\ DeclaredOnce'
    BY <1>13, NoNamesNext
  <2> QED BY <1>1, <1>8, <1>13, <2>1, <2>4, <2>5, <2>6 DEF NamesInvariant
<1>14. CASE /\ r.t.kind = "comment" /\ dec' = r.d /\ phase' = phase /\ start' = start
            /\ enc' = enc /\ reader' = reader /\ passed' = passed
  <2>1. r.d = dec
    BY <1>6, <1>14 DEF Errs, Opens, Closes, Passes
  <2>2. ReadAsSent' /\ (TagsDeclareOnce => DeclaredOnce')
    BY <1>7, <1>14 DEF ReadAsSent, DeclaredOnce, Alone
  <2> QED BY <1>1, <1>7, <1>8, <1>11, <1>14, <2>1, <2>2 DEF NamesInvariant
<1>15. CASE /\ r.t.kind \notin {"error", "comment"} /\ ~(r.t.kind = "end" /\ r.t.name = start)
            /\ dec' = r.d /\ phase' = phase /\ start' = start
            /\ enc' = w.p /\ reader' = rd.d /\ passed' = [sent |-> r.t, read |-> rd.t]
  <2>1. SUFFICES \E y, sb : /\ Paired(w.p, rd.d, f, y, sb) /\ StartsWith(y[0].d, start)
                            /\ Named(y, Len(w.p.tags), base, w.p.tags) /\ w.p.seq \in Nat
                            /\ ReadAsSent' /\ (TagsDeclareOnce => DeclaredOnce')
    BY <1>1, <1>8, <1>15 DEF NamesInvariant
  <2>2. reader' = rd.d /\ passed' = [sent |-> t, read |-> rd.t]
    BY <1>15
  <2>3. CASE t.kind = "start"
    <3>1. Opens(dec, r, sd)
      BY <1>6, <2>3 DEF Errs, Opens, Closes, Passes
    <3>2. Rises(d, f, t.name) /\ IsSeq(f) /\ TopIsElement(f)
      BY <3>1 DEF Opens, Stands, Layered
    <3>3. w = WriteStart(enc, t) /\ Sendable(t) /\ IsStart(t) /\ (TagsDeclareOnce => Distinct(t.decls))
      BY <1>9, <1>10, <2>3 DEF TokenOf, Sendable
    <3> DEFINE y == Pushed(z, Len(enc.tags), Snapshot(w.p, rd.d, f))
               sb == Append(sc, w.raw)
    <3> HIDE DEF d, f, t
    <3>4. Paired(w.p, rd.d, f, y, sb)
      BY <1>11, <3>2, <3>3, LevelUp
    <3>5. /\ TagRead(w.p, t, base, rd) /\ (base # "" => InAnswer(rd.d.stk))
          /\ rd.t.name = ReadName(Spaces(w.p), rd.d.ns, t.name)
          /\ Named(y, Len(w.p.tags), base, w.p.tags)
      <4>1. Paired(enc, reader, d, z, sc) /\ Named(z, Len(enc.tags), base, enc.tags)
        BY <1>11
      <4>2. NamesOpen(enc, reader, z, base, t, f)
        BY <1>7, <3>2, <3>3, <4>1, NamesUp
      <4> QED BY <3>3, <4>2 DEF NamesOpen
    <3>6. y[0] = z[0]
      <4>1. Len(enc.tags) \in Nat
        BY <1>11 DEF Paired, IsSeq
      <4>2. 0 \in 0..(Len(enc.tags) + 1) /\ 0 <= Len(enc.tags)
        BY <4>1
      <4> QED BY <4>2 DEF Pushed
    <3>7. IsSeq(rd.d.stk)
      BY <3>4 DEF Paired, Ready, Stands, Layered
    <3>8. t.kind = "start"
      BY <2>3 DEF t
    <3> HIDE DEF rd, y, sb
    <3>9. ReadAsSent' /\ (TagsDeclareOnce => DeclaredOnce')
      BY <2>2, <3>3, <3>5, <3>7, <3>8, StartIsKept
    <3>10. w.p.seq \in Nat
      BY <3>5 DEF TagRead
    <3> QED BY <1>11, <3>4, <3>5, <3>6, <3>9, <3>10
  <2>4. CASE t.kind = "end"
    <3>1. Closes(dec, r, sd)
      BY <1>6, <2>4 DEF Errs, Opens, Closes, Passes
    <3>2. Falls(d, f, t.name) /\ IsSeq(f)
      BY <3>1 DEF Closes, Stands, Layered
    <3>3. w = WriteEnd(enc, t.name) /\ t.name # start
      BY <1>10, <1>15, <2>4
    <3>4. Len(enc.tags) # 0
      <4>1. SUFFICES ASSUME Len(enc.tags) = 0
                     PROVE  FALSE
        OBVIOUS
      <4>2. z[0] = Snapshot(enc, reader, d)
        BY <1>11, <4>1 DEF Paired
      <4>3. z[0].d = d
        BY <4>2 DEF Snapshot
      <4>4. d[Len(d)] = StartFrame(start) /\ IsName(start)
        BY <1>3, <1>11, <4>3 DEF StartsWith, ValueOpen
      <4>5. d[Len(d)] = StartFrame(t.name) /\ IsName(t.name)
        BY <3>2 DEF Falls, Rises
      <4>6. t.name = start
        <5> HIDE DEF d, t
        <5> QED BY <4>4, <4>5, FrameOnce
      <4> QED BY <3>3, <4>6
    <3> HIDE DEF d, f
    <3> DEFINE name == t.name
    <3> HIDE DEF t
    <3>5. rd.t.kind = "end" /\ Paired(w.p, rd.d, f, z, Front(sc))
      BY <1>11, <3>2, <3>3, <3>4, LevelDown
    <3>6. /\ (base = "" \/ t.name.space # "" => rd.t.name = t.name)
          /\ (base # "" => InAnswer(rd.d.stk)) /\ w.p.seq = enc.seq
          /\ Named(z, Len(w.p.tags), base, w.p.tags)
      <4>1. Paired(enc, reader, d, z, sc) /\ Named(z, Len(enc.tags), base, enc.tags)
        BY <1>11
      <4>2. NamesClose(enc, reader, z, base, name)
        <5> HIDE DEF name
        <5> QED BY <3>2, <3>4, <4>1, NamesDown DEF name
      <4> QED BY <3>3, <4>2 DEF NamesClose
    <3>7. IsSeq(rd.d.stk)
      BY <3>5 DEF Paired, Ready, Stands, Layered
    <3>8. t.kind = "end" /\ rd.t.kind = t.kind
      BY <2>4, <3>5 DEF t
    <3> HIDE DEF rd
    <3>9. ReadAsSent' /\ DeclaredOnce'
      BY <2>2, <3>6, <3>7, <3>8, EndIsKept
    <3> QED BY <1>7, <1>11, <3>5, <3>6, <3>9
  <2>5. CASE t.kind = "text"
    <3>1. Passes(dec, r, sd)
      BY <1>6, <2>5 DEF Errs, Opens, Closes, Passes
    <3>2. r.d = dec /\ w = [p |-> enc, raw |-> t]
      BY <1>10, <2>5, <3>1 DEF Passes
    <3>3. rd = [d |-> reader, t |-> t]
      <4>1. Ready(reader, sc)
        BY <1>11 DEF Paired
      <4>2. IsSeq(reader.stk) /\ ~TopIsEOF(reader.stk) /\ reader.err = "none" /\ reader.toClose = << >>
        BY <4>1 DEF Ready, Stands, Layered
      <4>3. TopKind(reader) # "eof"
        BY <4>2, TopKindIs
      <4>4. RawToken(reader, t) = [d |-> reader, raw |-> t]
        BY <2>5, <4>2 DEF RawToken
      <4> HIDE DEF t
      <4> QED BY <2>5, <3>2, <4>3, <4>4 DEF Token
    <3>4. ReadAsSent' /\ DeclaredOnce'
      <4>1. passed'.sent.kind = "text" /\ passed'.read.kind = "text"
        BY <2>2, <2>5, <3>3
      <4> QED BY <4>1 DEF ReadAsSent, DeclaredOnce
    <3> QED BY <1>7, <1>11, <3>2, <3>3, <3>4
  <2>6. t.kind \in {"start", "end", "text"}
    BY <1>6, <1>15 DEF Errs, Opens, Closes, Passes
  <2> QED BY <2>3, <2>4, <2>5, <2>6
<1> QED BY <1>2, <1>12, <1>13, <1>14, <1>15

\* With such documents, whatever they are, encoder and reader agree at every
\* level, and so the names go through.
THEOREM NamesAgree ==
  ASSUME XmlIsXml, EveryNumberTells
  PROVE  Spec => []NamesInvariant
<1>1. Init => NamesInvariant
  BY NamesInit
<1>2. DecoderInvariant /\ NamesInvariant /\ [Next]_vars => NamesInvariant'
  <2> SUFFICES ASSUME DecoderInvariant, NamesInvariant, [Next]_vars
               PROVE  NamesInvariant'
    OBVIOUS
  <2>1. CASE \E raw \in Raws : BetweenProps(raw) \/ InValue(raw)
    BY <2>1, NamesProps, NamesValue
  <2>2. CASE UNCHANGED vars
    BY <2>2 DEF NamesInvariant, vars, ReadAsSent, DeclaredOnce, Alone
  <2> QED BY <2>1, <2>2 DEF Next, Stopped
<1> QED BY <1>1, <1>2, StackFollowsTags, PTL DEF Spec

\* Every name of a value, of elements and of attributes, is read again as the
\* name it was sent with: by itself, and in an answer if it is in a name space.
THEOREM NamesAreReadAsSent ==
  ASSUME XmlIsXml, EveryNumberTells
  PROVE  Spec => []ReadAsSent
<1>1. NamesInvariant => ReadAsSent
  BY DEF NamesInvariant
<1> QED BY <1>1, NamesAgree, PTL

\* And no tag that is written declares a prefix twice, when none that is sent
\* does.
THEOREM NamesAreKept ==
  ASSUME XmlIsXml, TagsDeclareOnce, EveryNumberTells
  PROVE  Spec => []NamesKept
<1>1. NamesInvariant => NamesKept
  BY DEF NamesInvariant, NamesKept
<1> QED BY <1>1, NamesAgree, PTL
=============================================================================

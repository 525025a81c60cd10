------------------------- MODULE QueryResultsProofs -------------------------
(* What holds of the output of a tab for any queries, documents and parts, and *)
(* any number of operations and requests under way.                            *)
EXTENDS QueryResults, FiniteSetTheorems, FunctionTheorems, SequenceTheorems, WellFoundedInduction, TLAPS

DocSeq == Seq(Doc \cup {0})
Thread == [docs : DocSeq, next : Nat \ {0}]
View == {"tree", "table"}

Item == [query : Source, docs : DocSeq, hasDocs : BOOLEAN, info : Info, view : Mode,
         ready : SUBSET {"text", "tree", "table", "custom"}, text : DocSeq,
         thread : Thread \cup {NULL}, old : SUBSET Thread]

Change == {"insert", "save", "remove"}

Dialog == [part : Nat, op : Change, docs : SUBSET Doc, query : Query, idle : BOOLEAN]

Request == {ExecuteScriptRequest}
  \cup [type : {"query"}, index : Nat, info : Info]
  \cup [type : Change, query : Query, doc : Doc, index : Nat]

Result == [query : Source, docs : DocSeq]

Reply ==
       [type : {"results"}, error : BOOLEAN, results : Seq(Result)]
  \cup [type : {"page"}, index : Nat, info : Info, error : BOOLEAN, docs : DocSeq]
  \cup [type : Change, index : Nat, error : BOOLEAN]

\* The notifiers are those of the trees and tables there are.
NotifiersOf(parts) == {n \in (DOMAIN parts) \X View : n[2] \in parts[n[1]].ready}

Typed ==
  /\ items \in Seq(Item) /\ prevViewModes \in Seq(Mode)
  /\ notifiers \in Seq(Nat \X View) /\ ToSet(notifiers) = NotifiersOf(items)
  /\ progress \in BOOLEAN /\ crashed \in BOOLEAN /\ clean \in BOOLEAN /\ strayed \in BOOLEAN
  /\ dialog \in Dialog \cup {NULL}
  /\ requests \in Seq(Request) /\ replies \in Seq(Reply)
  /\ store \in [Query -> SUBSET Doc] /\ ops \in Nat

\* A text that is shown is what the current thread has handed over of the page.
TextSound(item) ==
  "text" \in item.ready /\ item.docs # <<>> =>
    /\ item.thread \in Thread /\ item.thread.docs = item.docs
    /\ item.thread.next <= Len(item.docs) + 1
    /\ item.text = SubSeq(item.docs, 1, item.thread.next - 1)

\* A part that can be paged through shows a page of its own query.
PageSound(item) ==
  item.info # NULL => item.hasDocs /\ item.info.query = item.query /\ Within(item.info)

\* A page asked for, or on its way to the tab, lies within the text of its query.
AskedSound(message) == message.type \in {"query", "page"} /\ message.info # NULL => Within(message.info)

AllAsked(messages) == \A i \in DOMAIN messages : AskedSound(messages[i])

PagesSound ==
  ~ strayed => /\ \A k \in DOMAIN items : PageSound(items[k])
               /\ AllAsked(requests) /\ AllAsked(replies)

\* A message of one of the types is in a queue.
Pending(messages, types) == \E i \in DOMAIN messages : messages[i].type \in types

ProgressSound == progress => Pending(requests, {"script", "query"}) \/ Pending(replies, {"results", "page"})

\* While a dialog is open that was opened in an idle tab, the tab stays idle.
DialogSound ==
  /\ dialog # NULL /\ dialog.idle => requests = <<>> /\ replies = <<>>
  /\ DialogKeepsView

\* The inductive invariant.
IInv == /\ Typed
        /\ \A k \in DOMAIN items : TextSound(items[k])
        /\ PagesSound
        /\ ProgressSound
        /\ DialogSound

-----------------------------------------------------------------------------
(* Sequences: concatenation, and the listings of a set.                       *)

Less == {p \in Nat \X Nat : p[1] < p[2]}

\* Every set of numbers that is not empty has a least one.
LEMMA LeastNumber == ASSUME NEW T, T \subseteq Nat, T # {} PROVE \E n \in T : \A m \in T : n <= m
<1>1. IsWellFoundedOn(Less, Nat)
  BY NatLessThanWellFounded DEF Less, OpToRel
<1>2. PICK n \in T : \A m \in T : ~ (<<m, n>> \in Less)
  BY <1>1, WFMin
<1>3. ASSUME NEW m \in T PROVE n <= m
  <2>1. m \in Nat /\ n \in Nat /\ ~ (<<m, n>> \in Less)
    BY <1>2
  <2> QED BY <2>1 DEF Less
<1> QED BY <1>3

\* The elements of a concatenation are those of its parts.
LEMMA ConcatElements ==
  ASSUME NEW S, NEW s \in Seq(S), NEW t \in Seq(S) PROVE ToSet(s \o t) = ToSet(s) \cup ToSet(t)
<1>1. /\ s \o t \in Seq(S) /\ Len(s) \in Nat /\ Len(t) \in Nat
      /\ DOMAIN s = 1 .. Len(s) /\ DOMAIN t = 1 .. Len(t)
      /\ DOMAIN (s \o t) = 1 .. Len(s) + Len(t)
      /\ \A i \in 1 .. Len(s) + Len(t) : (s \o t)[i] = IF i <= Len(s) THEN s[i] ELSE t[i - Len(s)]
  BY ConcatProperties, LenProperties
<1>2. ASSUME NEW x \in ToSet(s \o t) PROVE x \in ToSet(s) \cup ToSet(t)
  <2>1. PICK i \in 1 .. Len(s) + Len(t) : x = (s \o t)[i]
    BY <1>1 DEF ToSet
  <2>2. CASE i <= Len(s)
    BY <1>1, <2>1, <2>2 DEF ToSet
  <2>3. CASE ~ (i <= Len(s))
    <3>1. i - Len(s) \in 1 .. Len(t) /\ x = t[i - Len(s)]
      BY <1>1, <2>1, <2>3
    <3> QED BY <1>1, <3>1 DEF ToSet
  <2> QED BY <2>2, <2>3
<1>3. ASSUME NEW x \in ToSet(s) PROVE x \in ToSet(s \o t)
  <2>1. PICK i \in 1 .. Len(s) : x = s[i]
    BY <1>1 DEF ToSet
  <2>2. i \in 1 .. Len(s) + Len(t) /\ x = (s \o t)[i]
    BY <1>1, <2>1
  <2> QED BY <1>1, <2>2 DEF ToSet
<1>4. ASSUME NEW x \in ToSet(t) PROVE x \in ToSet(s \o t)
  <2>1. PICK i \in 1 .. Len(t) : x = t[i]
    BY <1>1 DEF ToSet
  <2>2. i + Len(s) \in 1 .. Len(s) + Len(t) /\ x = (s \o t)[i + Len(s)]
    BY <1>1, <2>1
  <2> QED BY <1>1, <2>2 DEF ToSet
<1> QED BY <1>2, <1>3, <1>4

\* f[i] is the concatenation of the first i sequences of ss, for i up to n.
Joins(ss, f, n) == f = [i \in 1 .. n |-> IF i = 1 THEN ss[i] ELSE f[i - 1] \o ss[i]]

LEMMA JoinsExist == ASSUME NEW ss, NEW len \in Nat PROVE \E f : Joins(ss, f, len)
<1> DEFINE T == {n \in Nat : n <= len /\ ~ \E f : Joins(ss, f, n)}
<1>2. SUFFICES ASSUME T # {} PROVE FALSE
  OBVIOUS
<1>3. PICK n \in T : \A m \in T : n <= m
  <2>1. T \subseteq Nat
    OBVIOUS
  <2> HIDE DEF T
  <2> QED BY <2>1, <1>2, LeastNumber
<1>4. n \in Nat /\ n <= len /\ ~ \E f : Joins(ss, f, n)
  OBVIOUS
<1>5. n # 0
  <2> SUFFICES ASSUME n = 0 PROVE FALSE
    OBVIOUS
  <2>1. Joins(ss, << >>, 0)
    BY DEF Joins
  <2> QED BY <2>1, <1>4
<1>6. PICK f : Joins(ss, f, n - 1)
  <2>1. n - 1 \in Nat /\ n - 1 <= len /\ ~ (n <= n - 1)
    BY <1>4, <1>5
  <2> QED BY <2>1, <1>3
<1> DEFINE g == [i \in 1 .. n |-> IF i = n THEN (IF n = 1 THEN ss[n] ELSE f[n - 1] \o ss[n]) ELSE f[i]]
<1>7. Joins(ss, g, n)
  <2>1. ASSUME NEW i \in 1 .. n PROVE g[i] = IF i = 1 THEN ss[i] ELSE g[i - 1] \o ss[i]
    <3>1. CASE i = n
      BY <1>4, <1>5, <3>1
    <3>2. CASE i # n
      <4>1. i \in 1 .. n - 1
        BY <1>4, <3>2
      <4>2. f[i] = IF i = 1 THEN ss[i] ELSE f[i - 1] \o ss[i]
        BY <1>6, <4>1 DEF Joins
      <4>3. i # 1 => i - 1 \in 1 .. n /\ i - 1 # n
        BY <1>4, <4>1
      <4> QED BY <1>4, <3>2, <4>1, <4>2, <4>3
    <3> QED BY <3>1, <3>2
  <2> HIDE DEF g
  <2>2. g = [i \in 1 .. n |-> g[i]]
    BY DEF g
  <2> QED BY <2>1, <2>2 DEF Joins
<1> QED BY <1>4, <1>7

\* The elements of s are those of the first n sequences of ss.
ElementsOf(s, ss, n) == \A x : x \in ToSet(s) <=> \E j \in 1 .. n : x \in ToSet(ss[j])

\* A joined sequence has the elements of the sequences joined.
LEMMA JoinsElements ==
  ASSUME NEW S, NEW len \in Nat, NEW ss \in [1 .. len -> Seq(S)], NEW f, Joins(ss, f, len)
  PROVE  \A i \in 1 .. len : f[i] \in Seq(S) /\ ElementsOf(f[i], ss, i)
<1> DEFINE P(i) == f[i] \in Seq(S) /\ ElementsOf(f[i], ss, i)
           T == {i \in Nat : i \in 1 .. len /\ ~ P(i)}
<1>2. SUFFICES ASSUME T # {} PROVE FALSE
  OBVIOUS
<1>3. PICK n \in T : \A m \in T : n <= m
  <2>1. T \subseteq Nat
    OBVIOUS
  <2> HIDE DEF T
  <2> QED BY <2>1, <1>2, LeastNumber
<1>4. n \in 1 .. len /\ ~ P(n)
  OBVIOUS
<1>5. f[n] = IF n = 1 THEN ss[n] ELSE f[n - 1] \o ss[n]
  BY <1>4 DEF Joins
<1>6. n # 1
  <2> SUFFICES ASSUME n = 1 PROVE P(n)
    BY <1>4
  <2>1. f[n] = ss[1] /\ ss[1] \in Seq(S) /\ 1 .. n = {1}
    BY <1>4, <1>5
  <2> QED BY <2>1 DEF ElementsOf
<1>7. P(n - 1)
  <2>1. n - 1 \in Nat /\ n - 1 \in 1 .. len /\ ~ (n <= n - 1)
    BY <1>4, <1>6
  <2>2. n - 1 \notin T
    BY <2>1, <1>3
  <2> QED BY <2>1, <2>2
<1>8. f[n] = f[n - 1] \o ss[n] /\ ss[n] \in Seq(S) /\ f[n - 1] \in Seq(S)
  BY <1>4, <1>5, <1>6, <1>7
<1>9. f[n] \in Seq(S) /\ ToSet(f[n]) = ToSet(f[n - 1]) \cup ToSet(ss[n])
  BY <1>8, ConcatElements, ConcatProperties
<1>10. 1 .. n = (1 .. n - 1) \cup {n}
  BY <1>4
<1>11. \A x : x \in ToSet(f[n - 1]) <=> \E j \in 1 .. n - 1 : x \in ToSet(ss[j])
  BY <1>7 DEF ElementsOf
<1>12. ElementsOf(f[n], ss, n)
  <2> HIDE DEF P, T
  <2> QED BY <1>9, <1>10, <1>11 DEF ElementsOf
<1> QED BY <1>4, <1>9, <1>12

\* FlattenSeq: a sequence of the elements of the sequences joined.
LEMMA FlattenElements ==
  ASSUME NEW S, NEW ss, ss \in Seq(Seq(S))
  PROVE  /\ FlattenSeq(ss) \in Seq(S)
         /\ ToSet(FlattenSeq(ss)) = UNION {ToSet(ss[j]) : j \in DOMAIN ss}
<1> DEFINE len == Len(ss)
           f == CHOOSE f : Joins(ss, f, len)
<1>1. len \in Nat /\ DOMAIN ss = 1 .. len /\ ss \in [1 .. len -> Seq(S)]
  OBVIOUS
<1>2. CASE len = 0
  <2>1. FlattenSeq(ss) = ss /\ ss = << >> /\ DOMAIN ss = {}
    BY <1>1, <1>2 DEF FlattenSeq
  <2>2. ss \in Seq(S) /\ ToSet(ss) = {}
    BY <2>1 DEF ToSet
  <2> QED BY <2>1, <2>2
<1>3. CASE len # 0
  <2>1. Joins(ss, f, len)
    BY <1>1, JoinsExist
  <2>2. FlattenSeq(ss) = f[len]
    BY <1>3 DEF FlattenSeq, Joins
  <2> HIDE DEF f, len
  <2>3. len \in 1 .. len
    BY <1>1, <1>3
  <2>4. \A i \in 1 .. len : f[i] \in Seq(S) /\ ElementsOf(f[i], ss, i)
    BY <1>1, <2>1, JoinsElements
  <2>5. f[len] \in Seq(S) /\ ElementsOf(f[len], ss, len)
    BY <2>3, <2>4
  <2>6. ToSet(f[len]) = UNION {ToSet(ss[j]) : j \in 1 .. len}
    BY <2>5 DEF ElementsOf
  <2> QED BY <1>1, <2>2, <2>5, <2>6
<1> QED BY <1>2, <1>3

\* SetToSeq: a sequence of the elements of a finite set.
LEMMA SetToSeqElements ==
  ASSUME NEW S, IsFiniteSet(S) PROVE SetToSeq(S) \in Seq(S) /\ ToSet(SetToSeq(S)) = S
<1> DEFINE n == Cardinality(S)
           s == SetToSeq(S)
<1>1. n \in Nat /\ ExistsBijection(1 .. n, S)
  BY FS_CardinalityType
<1>2. \E f \in [1 .. n -> S] : IsInjective(f)
  BY <1>1 DEF ExistsBijection, Bijection, Injection
<1>3. s \in [1 .. n -> S] /\ IsInjective(s)
  BY <1>2 DEF SetToSeq
<1>4. s \in Injection(1 .. n, S) /\ IsFiniteSet(1 .. n) /\ Cardinality(1 .. n) = n
  BY <1>1, <1>3, FS_Interval DEF Injection
<1>5. s \in Surjection(1 .. n, S)
  BY <1>4, FS_Injection
<1>6. DOMAIN s = 1 .. n /\ \A x \in S : \E i \in 1 .. n : s[i] = x
  BY <1>3, <1>5 DEF Surjection
<1>7. s \in Seq(S)
  BY <1>1, <1>3
<1>8. ToSet(s) = S
  BY <1>3, <1>6 DEF ToSet
<1> QED BY <1>7, <1>8

\* s lists the numbers of S in their order.
Lists(s, S) == s \in [1 .. Cardinality(S) -> S] /\ \A i, j \in DOMAIN s : i < j => s[i] < s[j]

\* A finite set of numbers can be listed in order: its least number, then the others.
LEMMA ListExists ==
  ASSUME NEW S, S \subseteq Nat, IsFiniteSet(S) PROVE \E s : Lists(s, S)
<1> DEFINE Unlisted(U) == U \subseteq Nat /\ IsFiniteSet(U) /\ ~ \E s : Lists(s, U)
           T == {n \in Nat : \E U : Unlisted(U) /\ Cardinality(U) = n}
<1>1. SUFFICES ASSUME Unlisted(S) PROVE FALSE
  OBVIOUS
<1>2. Cardinality(S) \in T
  BY <1>1, FS_CardinalityType
<1>3. PICK n \in T : \A m \in T : n <= m
  <2>1. T \subseteq Nat /\ T # {}
    BY <1>2
  <2> HIDE DEF T
  <2> QED BY <2>1, LeastNumber
<1>4. PICK U : Unlisted(U) /\ Cardinality(U) = n
  BY <1>3
<1>5. U # {}
  <2> SUFFICES ASSUME U = {} PROVE FALSE
    OBVIOUS
  <2>1. Cardinality(U) = 0
    BY FS_EmptySet
  <2>2. Lists(<< >>, U)
    BY <2>1 DEF Lists
  <2> QED BY <2>2, <1>4
<1>6. PICK m \in U : \A x \in U : m <= x
  BY <1>4, <1>5, LeastNumber
<1> DEFINE V == U \ {m}
<1>7. n \in Nat /\ IsFiniteSet(V) /\ Cardinality(V) = n - 1 /\ V \subseteq Nat
  BY <1>3, <1>4, <1>6, FS_RemoveElement
<1>8. n - 1 \in Nat /\ ~ (n <= n - 1)
  BY <1>7, FS_CardinalityType
<1>9. ~ Unlisted(V)
  <2> SUFFICES ASSUME Unlisted(V) PROVE n - 1 \in T
    BY <1>3, <1>8
  <2> QED BY <1>7, <1>8
<1>10. PICK g : Lists(g, V)
  BY <1>7, <1>9
<1> DEFINE s == [i \in 1 .. n |-> IF i = 1 THEN m ELSE g[i - 1]]
<1>11. ASSUME NEW i \in 1 .. n, i # 1 PROVE i - 1 \in 1 .. n - 1 /\ s[i] = g[i - 1] /\ g[i - 1] \in V
  <2>1. i - 1 \in 1 .. n - 1 /\ s[i] = g[i - 1]
    BY <1>7, <1>8, <1>11
  <2>2. g \in [1 .. n - 1 -> V]
    BY <1>7, <1>10 DEF Lists
  <2> HIDE DEF V, s
  <2> QED BY <2>1, <2>2
<1>12. s \in [1 .. n -> U]
  BY <1>6, <1>11
<1>13. ASSUME NEW i \in 1 .. n, NEW j \in 1 .. n, i < j PROVE s[i] < s[j]
  <2>1. j # 1 /\ j - 1 \in 1 .. n - 1 /\ s[j] = g[j - 1] /\ g[j - 1] \in V
    BY <1>11, <1>13
  <2>2. CASE i = 1
    <3>1. s[i] = m
      BY <2>2
    <3>2. m <= g[j - 1] /\ m # g[j - 1] /\ m \in Nat /\ g[j - 1] \in Nat
      BY <1>4, <1>6, <2>1
    <3> QED BY <2>1, <3>1, <3>2
  <2>3. CASE i # 1
    <3>1. i - 1 \in 1 .. n - 1 /\ s[i] = g[i - 1]
      BY <1>11, <2>3
    <3>2. DOMAIN g = 1 .. n - 1 /\ i - 1 < j - 1
      BY <1>7, <1>10, <1>13 DEF Lists
    <3> QED BY <1>10, <2>1, <3>1, <3>2 DEF Lists
  <2> QED BY <2>2, <2>3
<1>14. Lists(s, U)
  BY <1>4, <1>12, <1>13 DEF Lists
<1> QED BY <1>4, <1>14

\* The listing the model takes.
LEMMA InOrderLists ==
  ASSUME NEW S, S \subseteq Doc PROVE InOrder(S) \in Seq(S) /\ Lists(InOrder(S), S)
<1>1. S \subseteq Nat /\ IsFiniteSet(S) /\ Cardinality(S) \in Nat
  BY ResultsAssumption, FS_Subset, FS_CardinalityType
<1>2. Lists(InOrder(S), S)
  BY <1>1, ListExists DEF Lists, InOrder
<1> QED BY <1>1, <1>2 DEF Lists

LEMMA MinOfTwo ==
  ASSUME NEW a \in Int, NEW b \in Int
  PROVE  Min({a, b}) \in {a, b} /\ Min({a, b}) <= a /\ Min({a, b}) <= b
<1>1. \E x \in {a, b} : \A y \in {a, b} : x =< y
  OBVIOUS
<1> QED BY <1>1 DEF Min

LEMMA MaxOfTwo ==
  ASSUME NEW a \in Int, NEW b \in Int
  PROVE  Max({a, b}) \in {a, b} /\ Max({a, b}) >= a /\ Max({a, b}) >= b
<1>1. \E x \in {a, b} : \A y \in {a, b} : x >= y
  OBVIOUS
<1> QED BY <1>1 DEF Max

\* A page is a sequence of documents.
LEMMA PageTyped ==
  ASSUME NEW docs, docs \subseteq Doc, NEW skip \in Nat, NEW limit \in Nat \cup {-1}
  PROVE  Page(docs, skip, limit) \in DocSeq
<1> DEFINE all == InOrder(docs)
           end == IF limit = 0 THEN Len(all) ELSE Min({skip + limit, Len(all)})
<1>1. all \in Seq(Doc) /\ Len(all) \in Nat
  BY InOrderLists
<1>2. end \in Int /\ end <= Len(all)
  <2>1. skip + limit \in Int /\ Len(all) \in Int
    BY <1>1
  <2>2. Min({skip + limit, Len(all)}) \in Int /\ Min({skip + limit, Len(all)}) <= Len(all)
    <3> HIDE DEF all
    <3> QED BY <2>1, MinOfTwo
  <2> QED BY <1>1, <2>2
<1>3. \A i \in skip + 1 .. end : all[i] \in Doc \cup {0}
  BY <1>1, <1>2
<1>4. SubSeq(all, skip + 1, end) \in DocSeq
  <2> HIDE DEF all, end
  <2> QED BY <1>2, <1>3, SubSeqProperties DEF DocSeq
<1>5. << >> \in DocSeq
  BY DEF DocSeq
<1> QED BY <1>4, <1>5 DEF Page

-----------------------------------------------------------------------------
(* One part of the output.                                                    *)

\* res is item with another view shown: the page and its documents are the same.
SamePage(item, res) ==
  /\ res.query = item.query /\ res.docs = item.docs /\ res.hasDocs = item.hasDocs
  /\ res.info = item.info /\ item.ready \subseteq res.ready

LEMMA ShowTextSound ==
  ASSUME NEW item \in Item, TextSound(item)
  PROVE  /\ showText(item) \in Item /\ TextSound(showText(item)) /\ SamePage(item, showText(item))
         /\ showText(item).ready \subseteq item.ready \cup {"text"}
<1> DEFINE shown == [item EXCEPT !.view = "text", !.ready = @ \cup {"text"}, !.text = <<>>]
           res == PrepareText(shown)
<1>1. "text" \in Mode /\ <<>> \in DocSeq
  BY DEF Mode, DocSeq
<1>2. CASE "text" \in item.ready
  <2>1. showText(item) = [item EXCEPT !.view = "text"]
    BY <1>2 DEF showText
  <2> QED BY <1>1, <2>1 DEF Item, TextSound, SamePage
<1>3. /\ shown \in Item /\ SamePage(item, shown) /\ shown.text = <<>>
      /\ shown.ready = item.ready \cup {"text"}
  BY <1>1 DEF Item, SamePage
<1>4. CASE "text" \notin item.ready /\ item.docs = <<>>
  <2>1. showText(item) = shown
    BY <1>4 DEF showText
  <2>2. shown.docs = <<>>
    BY <1>3, <1>4 DEF SamePage
  <2> QED BY <1>3, <2>1, <2>2 DEF TextSound
<1>5. CASE "text" \notin item.ready /\ item.docs # <<>>
  <2>1. showText(item) = res
    BY <1>5 DEF showText
  <2> HIDE DEF shown
  <2>2. [docs |-> shown.docs, next |-> 1] \in Thread
    BY <1>3 DEF Item, Thread
  <2>3. res \in Item /\ res.thread = [docs |-> shown.docs, next |-> 1]
    BY <1>3, <2>2 DEF Item, PrepareText
  <2>4. /\ res.query = shown.query /\ res.docs = shown.docs /\ res.hasDocs = shown.hasDocs
        /\ res.info = shown.info /\ res.ready = shown.ready /\ res.text = shown.text
    BY <1>3 DEF Item, PrepareText
  <2>5. shown.docs \in DocSeq
    BY <1>3 DEF Item
  <2>6. SubSeq(shown.docs, 1, 0) = <<>> /\ Len(shown.docs) \in Nat
    BY <2>5, SubSeqEmpty DEF DocSeq
  <2>7. TextSound(res)
    BY <1>3, <2>2, <2>3, <2>4, <2>6 DEF TextSound
  <2> QED BY <1>3, <2>1, <2>3, <2>4, <2>7 DEF SamePage
<1> QED BY <1>2, <1>4, <1>5

LEMMA ShowViewSound ==
  ASSUME NEW item \in Item, TextSound(item), NEW mode \in Mode
  PROVE  showView(item, mode) \in Item /\ TextSound(showView(item, mode)) /\ SamePage(item, showView(item, mode))
<1> DEFINE view == ViewOf(item, mode)
<1>1. /\ showText(item) \in Item /\ TextSound(showText(item)) /\ SamePage(item, showText(item))
  BY ShowTextSound
<1>2. CASE view = "text"
  BY <1>1, <1>2 DEF showView
<1>3. CASE view # "text" /\ ~ item.hasDocs
  <2>1. showView(item, mode) = [showText(item) EXCEPT !.view = mode]
    BY <1>3 DEF showView
  <2> QED BY <1>1, <2>1 DEF Item, TextSound, SamePage
<1>4. CASE view # "text" /\ item.hasDocs
  <2>1. showView(item, mode) = [item EXCEPT !.view = mode, !.ready = @ \cup {view}]
    BY <1>4 DEF showView
  <2>2. view \in View \cup {"custom"}
    BY <1>4 DEF Mode, View, ViewOf
  <2> HIDE DEF view
  <2>3. showView(item, mode) \in Item
    <3>1. item.ready \cup {view} \in SUBSET {"text", "tree", "table", "custom"}
      BY <2>2 DEF Item, View
    <3> QED BY <2>1, <3>1 DEF Item
  <2>4. /\ showView(item, mode).docs = item.docs /\ showView(item, mode).thread = item.thread
        /\ showView(item, mode).text = item.text
        /\ showView(item, mode).ready = item.ready \cup {view} /\ view # "text"
    BY <2>1, <2>2 DEF Item, View
  <2>5. TextSound(showView(item, mode))
    BY <2>4 DEF TextSound
  <2>6. SamePage(item, showView(item, mode))
    BY <2>1 DEF Item, SamePage
  <2> QED BY <2>3, <2>5, <2>6
<1> QED BY <1>2, <1>3, <1>4

\* Another view of a part leaves its page sound.
LEMMA SamePageSound ==
  ASSUME NEW item, NEW res, SamePage(item, res), PageSound(item) PROVE PageSound(res)
  BY DEF SamePage, PageSound

LEMMA UpdatedSound ==
  ASSUME NEW item \in Item, NEW info \in Info, NEW docs \in DocSeq
  PROVE  /\ Updated(item, info, docs) \in Item /\ TextSound(Updated(item, info, docs))
         /\ ShowsQuery(item, info) /\ PageSound(item) /\ Within(info) => PageSound(Updated(item, info, docs))
<1> DEFINE new == [item EXCEPT !.info = info, !.docs = docs, !.ready = {}]
<1>1. new \in Item /\ new.ready = {} /\ item.view \in Mode
  BY DEF Item
<1>2. new.query = item.query /\ new.hasDocs = item.hasDocs /\ new.info = info
  BY DEF Item
<1>3. TextSound(new)
  BY <1>1 DEF TextSound
<1>4. ShowsQuery(item, info) /\ PageSound(item) /\ Within(info) => PageSound(new)
  BY <1>2 DEF PageSound, ShowsQuery
<1>5. Updated(item, info, docs) = showView(new, item.view)
  BY DEF Updated
<1> HIDE DEF new
<1>6. showView(new, item.view) \in Item /\ TextSound(showView(new, item.view)) /\ SamePage(new, showView(new, item.view))
  BY <1>1, <1>3, ShowViewSound
<1> QED BY <1>4, <1>5, <1>6, SamePageSound

LEMMA PartSound ==
  ASSUME NEW result \in Result, NEW mode \in Mode
  PROVE  Part(result, mode) \in Item /\ TextSound(Part(result, mode)) /\ PageSound(Part(result, mode))
<1> DEFINE q == result.query
           info == FirstInfo(q)
           own == IF q \in Query /\ result.docs # <<>> THEN info ELSE NULL
           new == [query |-> q, docs |-> result.docs, hasDocs |-> result.docs # <<>>, info |-> own,
                   view |-> mode, ready |-> {}, text |-> <<>>, thread |-> NULL, old |-> {}]
<1>1. q \in Source /\ result.docs \in DocSeq /\ <<>> \in DocSeq
  BY DEF Result, DocSeq
<1>2. ASSUME q \in Query PROVE info \in Info /\ Within(info)
  <2>1. TextSkip[q] \in Nat /\ TextLimit[q] \in Nat /\ DefaultLimit \in Nat
    BY <1>2, ResultsAssumption
  <2>2. info.limit \in Nat /\ info.skip = TextSkip[q] /\ info.query = q
        /\ (TextLimit[q] = 0 \/ info.limit = TextLimit[q])
    BY <2>1 DEF FirstInfo
  <2>3. info \in Info
    BY <1>2, <2>1, <2>2 DEF Info, FirstInfo
  <2>4. Within(info)
    BY <2>1, <2>2 DEF Within
  <2> QED BY <2>3, <2>4
<1>3. own \in Info /\ (own # NULL => q \in Query /\ result.docs # <<>> /\ own = info)
  BY <1>2 DEF Info
<1>4. new \in Item
  <2> HIDE DEF own, q
  <2> QED BY <1>1, <1>3 DEF Item
<1>5. TextSound(new)
  BY DEF TextSound
<1>6. PageSound(new)
  <2>1. new.info = own /\ new.query = q /\ new.hasDocs = (result.docs # <<>>) /\ info.query = q
    BY DEF FirstInfo
  <2> HIDE DEF own, info, q, new
  <2> QED BY <1>2, <1>3, <2>1 DEF PageSound
<1>7. Part(result, mode) = showView(new, mode)
  BY DEF Part
<1> HIDE DEF new
<1>8. showView(new, mode) \in Item /\ TextSound(showView(new, mode)) /\ SamePage(new, showView(new, mode))
  BY <1>4, <1>5, ShowViewSound
<1> QED BY <1>6, <1>7, <1>8, SamePageSound

\* refresh(): a page asked for from a sound part lies within the text of its query.
LEMMA RefreshWithin ==
  ASSUME NEW q \in Query, NEW initial, initial \in [skip : Nat, limit : Nat], NEW skip \in Nat, NEW batchSize \in Nat
  PROVE  /\ RefreshInfo(q, initial, skip, batchSize) \in Info
         /\ initial = [skip |-> TextSkip[q], limit |-> TextLimit[q]] =>
              Within(RefreshInfo(q, initial, skip, batchSize))
<1> DEFINE from == Max({skip, initial.skip})
           left == initial.limit - (from - initial.skip)
           rest == IF left <= 0 THEN -1 ELSE left
           least == Min({rest, batchSize})
           info == RefreshInfo(q, initial, skip, batchSize)
<1>1. initial.skip \in Nat /\ initial.limit \in Nat
  OBVIOUS
<1>2. from \in Nat /\ from >= initial.skip
  <2>1. from \in {skip, initial.skip} /\ from >= initial.skip
    BY <1>1, MaxOfTwo
  <2> QED BY <1>1, <2>1
<1>3. info = [query |-> q, skip |-> from, batch |-> batchSize,
              limit |-> IF initial.limit = 0 THEN batchSize ELSE least]
  BY DEF RefreshInfo
<1> HIDE DEF from, info
<1>4. left \in Int /\ rest \in Nat \cup {-1} /\ (rest = -1 \/ rest = left)
  BY <1>1, <1>2
<1> HIDE DEF left, rest
<1>5. least \in {rest, batchSize} /\ least <= rest
  <2>1. rest \in Int /\ batchSize \in Int
    BY <1>4
  <2> QED BY <2>1, MinOfTwo
<1> HIDE DEF least
<1>6. info.query = q /\ info.skip = from /\ info.limit = IF initial.limit = 0 THEN batchSize ELSE least
  BY <1>3
<1>7. info.limit \in Nat \cup {-1}
  BY <1>4, <1>5, <1>6
<1>8. info \in Info
  BY <1>2, <1>3, <1>6, <1>7 DEF Info
<1>9. ASSUME initial = [skip |-> TextSkip[q], limit |-> TextLimit[q]] PROVE Within(info)
  <2>1. initial.skip = TextSkip[q] /\ initial.limit = TextLimit[q]
    BY <1>9
  <2>2. TextLimit[q] = 0 \/ info.limit \in {0, -1} \/ info.limit <= left
    BY <1>4, <1>5, <1>6, <2>1
  <2>3. info.limit <= left => info.skip + info.limit <= TextSkip[q] + TextLimit[q]
    BY <1>1, <1>2, <1>6, <1>7, <2>1 DEF left
  <2> QED BY <1>2, <1>6, <2>1, <2>2, <2>3 DEF Within
<1> QED BY <1>8, <1>9 DEF info

-----------------------------------------------------------------------------
(* Notifiers.                                                                 *)

Ready == SUBSET {"text", "tree", "table", "custom"}

\* The Notifiers of part k for the trees and tables in after that are not in before.
New(k, before, after) == {<<k, v>> : v \in (after \ before) \cap View}

LEMMA CreatedElements ==
  ASSUME NEW k \in Nat, NEW before \in Ready, NEW after \in Ready
  PROVE  /\ Created(k, before, after) \in Seq(Nat \X View)
         /\ ToSet(Created(k, before, after)) = New(k, before, after)
<1> DEFINE S == New(k, before, after)
           all == {<<k, "tree">>} \cup {<<k, "table">>}
<1>1. IsFiniteSet(all)
  BY FS_Singleton, FS_AddElement
<1>2. S \subseteq all /\ S \subseteq Nat \X View
  BY DEF New, View
<1>3. Created(k, before, after) = SetToSeq(S)
  BY DEF Created, New, View
<1> HIDE DEF S
<1>4. IsFiniteSet(S)
  <2> HIDE DEF all
  <2> QED BY <1>1, <1>2, FS_Subset
<1>5. SetToSeq(S) \in Seq(S) /\ ToSet(SetToSeq(S)) = S
  BY <1>4, SetToSeqElements
<1>6. SetToSeq(S) \in Seq(Nat \X View)
  BY <1>2, <1>5
<1> QED BY <1>3, <1>5, <1>6 DEF S

\* The Notifiers created when all parts of a tab show another view.
LEMMA CreatedAll ==
  ASSUME NEW n \in Nat, NEW before \in [1 .. n -> Ready], NEW after \in [1 .. n -> Ready], NEW created,
         created = FlattenSeq([k \in 1 .. n |-> Created(k, before[k], after[k])])
  PROVE  /\ created \in Seq(Nat \X View)
         /\ ToSet(created) = UNION {New(k, before[k], after[k]) : k \in 1 .. n}
<1> DEFINE ss == [k \in 1 .. n |-> Created(k, before[k], after[k])]
<1>1. ASSUME NEW k \in 1 .. n
      PROVE  ss[k] \in Seq(Nat \X View) /\ ToSet(ss[k]) = New(k, before[k], after[k])
  <2>1. k \in Nat /\ before[k] \in Ready /\ after[k] \in Ready /\ ss[k] = Created(k, before[k], after[k])
    OBVIOUS
  <2> QED BY <2>1, CreatedElements
<1>2. ss \in Seq(Seq(Nat \X View)) /\ DOMAIN ss = 1 .. n
  BY <1>1
<1>3. created = FlattenSeq(ss)
  OBVIOUS
<1> HIDE DEF ss
<1>4. FlattenSeq(ss) \in Seq(Nat \X View) /\ ToSet(FlattenSeq(ss)) = UNION {ToSet(ss[j]) : j \in DOMAIN ss}
  BY <1>2, FlattenElements
<1> QED BY <1>1, <1>2, <1>3, <1>4

\* The Notifiers left when those of one part are destroyed.
LEMMA NotifiersLeft ==
  ASSUME notifiers \in Seq(Nat \X View), NEW p
  PROVE  Without(p) \in Seq(Nat \X View) /\ ToSet(Without(p)) = {x \in ToSet(notifiers) : x[1] # p}
<1> DEFINE ss == [i \in DOMAIN notifiers |-> IF notifiers[i][1] = p THEN <<>> ELSE <<notifiers[i]>>]
<1>1. ASSUME NEW i \in DOMAIN notifiers
      PROVE  ss[i] \in Seq(Nat \X View) /\ ToSet(ss[i]) = {x \in {notifiers[i]} : x[1] # p}
  <2>1. notifiers[i] \in Nat \X View
    OBVIOUS
  <2>2. CASE notifiers[i][1] = p
    <3>1. ss[i] = <<>> /\ <<>> \in Seq(Nat \X View)
      BY <2>2
    <3>2. ToSet(<<>>) = {}
      BY DEF ToSet
    <3> QED BY <2>2, <3>1, <3>2
  <2>3. CASE notifiers[i][1] # p
    <3>1. ss[i] = <<notifiers[i]>> /\ <<notifiers[i]>> \in Seq(Nat \X View)
      BY <2>1, <2>3
    <3>2. ToSet(<<notifiers[i]>>) = {notifiers[i]}
      BY DEF ToSet
    <3> QED BY <2>3, <3>1, <3>2
  <2> QED BY <2>2, <2>3
<1>2. ss \in Seq(Seq(Nat \X View)) /\ DOMAIN ss = DOMAIN notifiers
  <2>1. Len(notifiers) \in Nat /\ DOMAIN notifiers = 1 .. Len(notifiers)
    OBVIOUS
  <2> QED BY <1>1, <2>1
<1>3. Without(p) = FlattenSeq(ss)
  BY DEF Without
<1> HIDE DEF ss
<1>4. FlattenSeq(ss) \in Seq(Nat \X View) /\ ToSet(FlattenSeq(ss)) = UNION {ToSet(ss[j]) : j \in DOMAIN ss}
  BY <1>2, FlattenElements
<1>5. ToSet(notifiers) = {notifiers[i] : i \in DOMAIN notifiers}
  BY DEF ToSet
<1>6. UNION {ToSet(ss[j]) : j \in DOMAIN ss} = {x \in ToSet(notifiers) : x[1] # p}
  BY <1>1, <1>2, <1>5
<1> QED BY <1>3, <1>4, <1>6

-----------------------------------------------------------------------------
(* The queues.                                                                *)

LEMMA AppendMessage ==
  ASSUME NEW S, NEW ms \in Seq(S), NEW m \in S
  PROVE  /\ Append(ms, m) \in Seq(S)
         /\ AllAsked(ms) /\ AskedSound(m) => AllAsked(Append(ms, m))
         /\ \A types : Pending(ms, types) => Pending(Append(ms, m), types)
         /\ \A types : m.type \in types => Pending(Append(ms, m), types)
<1>1. /\ Append(ms, m) \in Seq(S) /\ Len(ms) \in Nat
      /\ DOMAIN ms = 1 .. Len(ms) /\ DOMAIN Append(ms, m) = 1 .. Len(ms) + 1
      /\ \A i \in 1 .. Len(ms) : Append(ms, m)[i] = ms[i]
      /\ Append(ms, m)[Len(ms) + 1] = m
  BY AppendProperties, LenProperties
<1>2. \A i \in DOMAIN Append(ms, m) : i \in DOMAIN ms \/ i = Len(ms) + 1
  BY <1>1
<1>3. DOMAIN ms \subseteq DOMAIN Append(ms, m) /\ Len(ms) + 1 \in DOMAIN Append(ms, m)
  BY <1>1
<1>4. \A i \in DOMAIN ms : Append(ms, m)[i] = ms[i]
  BY <1>1
<1>5. AllAsked(ms) /\ AskedSound(m) => AllAsked(Append(ms, m))
  BY <1>1, <1>2, <1>4 DEF AllAsked
<1>6. \A types : Pending(ms, types) => Pending(Append(ms, m), types)
  BY <1>3, <1>4 DEF Pending
<1>7. \A types : m.type \in types => Pending(Append(ms, m), types)
  BY <1>1, <1>3 DEF Pending
<1> QED BY <1>1, <1>5, <1>6, <1>7

LEMMA ConcatMessages ==
  ASSUME NEW S, NEW a \in Seq(S), NEW b \in Seq(S)
  PROVE  /\ a \o b \in Seq(S)
         /\ AllAsked(a) /\ AllAsked(b) => AllAsked(a \o b)
         /\ \A types : Pending(a, types) => Pending(a \o b, types)
<1>1. /\ a \o b \in Seq(S) /\ Len(a) \in Nat /\ Len(b) \in Nat
      /\ DOMAIN a = 1 .. Len(a) /\ DOMAIN b = 1 .. Len(b) /\ DOMAIN (a \o b) = 1 .. Len(a) + Len(b)
      /\ \A i \in 1 .. Len(a) + Len(b) : (a \o b)[i] = IF i <= Len(a) THEN a[i] ELSE b[i - Len(a)]
  BY ConcatProperties, LenProperties
<1>2. ASSUME NEW i \in DOMAIN (a \o b)
      PROVE  \/ i \in DOMAIN a /\ (a \o b)[i] = a[i]
             \/ i - Len(a) \in DOMAIN b /\ (a \o b)[i] = b[i - Len(a)]
  BY <1>1
<1>3. \A i \in DOMAIN a : i \in DOMAIN (a \o b) /\ (a \o b)[i] = a[i]
  BY <1>1
<1>4. AllAsked(a) /\ AllAsked(b) => AllAsked(a \o b)
  BY <1>2 DEF AllAsked
<1>5. \A types : Pending(a, types) => Pending(a \o b, types)
  BY <1>3 DEF Pending
<1> QED BY <1>1, <1>4, <1>5

LEMMA TailMessages ==
  ASSUME NEW S, NEW ms \in Seq(S), ms # <<>>
  PROVE  /\ Head(ms) \in S /\ Tail(ms) \in Seq(S)
         /\ AllAsked(ms) => AllAsked(Tail(ms)) /\ AskedSound(Head(ms))
         /\ \A types : Pending(ms, types) /\ Head(ms).type \notin types => Pending(Tail(ms), types)
<1>1. /\ Head(ms) \in S /\ Tail(ms) \in Seq(S) /\ Len(ms) \in Nat /\ Len(ms) > 0 /\ Head(ms) = ms[1]
      /\ DOMAIN ms = 1 .. Len(ms) /\ DOMAIN Tail(ms) = 1 .. Len(ms) - 1
      /\ \A i \in 1 .. Len(ms) - 1 : Tail(ms)[i] = ms[i + 1]
  BY HeadTailProperties, LenProperties
<1>2. \A i \in DOMAIN Tail(ms) : i + 1 \in DOMAIN ms /\ Tail(ms)[i] = ms[i + 1]
  BY <1>1
<1>3. AllAsked(ms) => AllAsked(Tail(ms)) /\ AskedSound(Head(ms))
  BY <1>1, <1>2 DEF AllAsked
<1>4. ASSUME NEW types, Pending(ms, types), Head(ms).type \notin types PROVE Pending(Tail(ms), types)
  <2>1. PICK i \in DOMAIN ms : ms[i].type \in types
    BY <1>4 DEF Pending
  <2>2. i # 1
    BY <1>1, <1>4, <2>1
  <2>3. i - 1 \in DOMAIN Tail(ms) /\ Tail(ms)[i - 1] = ms[i]
    BY <1>1, <2>2
  <2> QED BY <2>1, <2>3 DEF Pending
<1> QED BY <1>1, <1>3, <1>4

-----------------------------------------------------------------------------
(* The initial state.                                                         *)

LEMMA InitSound == Init => IInv
<1> SUFFICES ASSUME Init PROVE IInv
  OBVIOUS
<1>1. /\ <<>> \in Seq(Item) /\ <<>> \in Seq(Mode) /\ <<>> \in Seq(Nat \X View) /\ <<>> \in Seq(Reply)
      /\ DOMAIN <<>> = {}
  OBVIOUS
<1>2. ToSet(<<>>) = {} /\ NotifiersOf(<<>>) = {}
  BY DEF ToSet, NotifiersOf
<1>3. <<ExecuteScriptRequest>> \in Seq(Request)
  BY DEF Request
<1>4. Typed
  BY <1>1, <1>2, <1>3, ResultsAssumption DEF Init, Typed
<1>5. PagesSound
  BY <1>1 DEF Init, PagesSound, AllAsked, AskedSound, ExecuteScriptRequest
<1>6. ProgressSound
  BY DEF Init, ProgressSound, Pending, ExecuteScriptRequest
<1>7. DialogSound
  BY DEF Init, DialogSound, DialogKeepsView
<1> QED BY <1>1, <1>4, <1>5, <1>6, <1>7 DEF IInv, Init

-----------------------------------------------------------------------------
(* The user.                                                                  *)

LEMMA executeSound == IInv /\ execute => IInv'
<1> SUFFICES ASSUME IInv, execute PROVE IInv'
  OBVIOUS
<1>1. ExecuteScriptRequest \in Request /\ AskedSound(ExecuteScriptRequest) /\ ExecuteScriptRequest.type = "script"
  BY DEF Request, AskedSound, ExecuteScriptRequest
<1>2. /\ requests' \in Seq(Request)
      /\ AllAsked(requests) => AllAsked(requests')
      /\ Pending(requests', {"script", "query"})
  BY <1>1, AppendMessage DEF IInv, Typed, execute
<1>3. Typed'
  BY <1>2 DEF IInv, Typed, execute, tabVars
<1>4. PagesSound'
  BY <1>2 DEF IInv, PagesSound, execute, tabVars
<1>5. ProgressSound'
  BY <1>2 DEF ProgressSound
<1>6. DialogSound'
  BY DEF IInv, DialogSound, DialogKeepsView, execute, MayAsk, UserMay
<1> QED BY <1>3, <1>4, <1>5, <1>6 DEF IInv, execute, tabVars

\* _initialSkip and _initialLimit are numbers, and in a sound part those of its text.
LEMMA InitialSound ==
  ASSUME NEW item \in Item, NEW initial \in Initial(item)
  PROVE  /\ initial \in [skip : Nat, limit : Nat]
         /\ item.info # NULL /\ PageSound(item) =>
              initial = [skip |-> TextSkip[item.info.query], limit |-> TextLimit[item.info.query]]
<1>1. item.query \in Query => item.query \notin {"value", "stats"} /\ TextSkip[item.query] \in Nat /\ TextLimit[item.query] \in Nat
  BY ResultsAssumption
<1>2. CASE item.query \in Query /\ item.hasDocs
  <2>1. initial = [skip |-> TextSkip[item.query], limit |-> TextLimit[item.query]]
    BY <1>1, <1>2 DEF Initial
  <2> QED BY <1>1, <1>2, <2>1 DEF PageSound
<1>3. CASE ~ (item.query \in Query /\ item.hasDocs)
  <2>1. initial \in [skip : Skip, limit : Batch] \/ initial = [skip |-> 0, limit |-> 0]
    BY <1>1, <1>3 DEF Initial
  <2>2. initial \in [skip : Nat, limit : Nat]
    <3>1. Skip \subseteq Nat /\ Batch \subseteq Nat
      BY ResultsAssumption
    <3>2. ASSUME initial \in [skip : Skip, limit : Batch] PROVE initial \in [skip : Nat, limit : Nat]
      BY <3>1, <3>2
    <3>3. [skip |-> 0, limit |-> 0] \in [skip : Nat, limit : Nat]
      OBVIOUS
    <3> QED BY <2>1, <3>2, <3>3
  <2>3. item.info # NULL => item.info.query \in Query
    BY DEF Item, Info
  <2> QED BY <1>3, <2>2, <2>3 DEF PageSound
<1> QED BY <1>2, <1>3

LEMMA refreshSound ==
  ASSUME IInv, NEW k \in DOMAIN items, NEW skip \in Nat, NEW batchSize \in Nat, refresh(k, skip, batchSize)
  PROVE  IInv'
<1>1. items[k] \in Item /\ items[k].info # NULL /\ k \in Nat
  BY DEF IInv, Typed, refresh
<1>2. items[k].info.query \in Query
  BY <1>1 DEF Item, Info
<1>3. PICK initial \in Initial(items[k]) :
        requests' = Append(requests,
          ExecuteQueryRequest(k, RefreshInfo(items[k].info.query, initial, skip, batchSize)))
  BY DEF refresh
<1> DEFINE info == RefreshInfo(items[k].info.query, initial, skip, batchSize)
           r == ExecuteQueryRequest(k, info)
<1>4. initial \in [skip : Nat, limit : Nat]
  BY <1>1, InitialSound
<1>5. info \in Info
  BY <1>2, <1>4, RefreshWithin
<1>6. PageSound(items[k]) => Within(info)
  BY <1>1, <1>2, <1>4, InitialSound, RefreshWithin
<1> HIDE DEF info
<1>7. r \in Request /\ r.type = "query" /\ r.info = info
  BY <1>1, <1>5 DEF Request, ExecuteQueryRequest
<1>8. PageSound(items[k]) => AskedSound(r)
  BY <1>6, <1>7 DEF AskedSound
<1>9. requests' = Append(requests, r)
  BY <1>3 DEF info
<1> HIDE DEF r
<1>10. /\ requests' \in Seq(Request)
       /\ AllAsked(requests) /\ PageSound(items[k]) => AllAsked(requests')
       /\ Pending(requests', {"script", "query"})
  BY <1>7, <1>8, <1>9, AppendMessage DEF IInv, Typed
<1>11. Typed'
  BY <1>10 DEF IInv, Typed, refresh, MayAsk, UserMay, tabVars
<1>12. PagesSound'
  BY <1>10 DEF IInv, PagesSound, refresh, tabVars
<1>13. ProgressSound'
  BY <1>10 DEF ProgressSound
<1>14. DialogSound'
  BY DEF IInv, DialogSound, DialogKeepsView, refresh, MayAsk, UserMay
<1> QED BY <1>11, <1>12, <1>13, <1>14 DEF IInv, refresh, tabVars

LEMMA pagingSound ==
  ASSUME IInv, NEW k \in DOMAIN items, paging_leftClicked(k) \/ paging_rightClicked(k) PROVE IInv'
<1>1. items[k] \in Item /\ items[k].info # NULL
  BY DEF IInv, Typed, paging_leftClicked, paging_rightClicked
<1>2. items[k].info.skip \in Nat /\ items[k].info.batch \in Nat
  BY <1>1 DEF Item, Info
<1>3. ShownBatch(items[k]) \in Nat
  BY <1>2, ResultsAssumption DEF ShownBatch
<1>4. CASE paging_leftClicked(k)
  <2> DEFINE less == items[k].info.skip - ShownBatch(items[k])
  <2>1. Max({less, 0}) \in Nat
    <3>1. less \in Int /\ 0 \in Int
      BY <1>2, <1>3
    <3> HIDE DEF less
    <3>2. Max({less, 0}) \in {less, 0} /\ Max({less, 0}) >= 0
      BY <3>1, MaxOfTwo
    <3> QED BY <3>1, <3>2
  <2> QED BY <1>3, <1>4, <2>1, refreshSound DEF paging_leftClicked
<1>5. CASE paging_rightClicked(k)
  BY <1>2, <1>3, <1>5, refreshSound DEF paging_rightClicked
<1> QED BY <1>4, <1>5

\* Parts may show other views or more text, with the Notifiers of their trees and tables.
LEMMA ViewsSound ==
  ASSUME IInv, items' \in Seq(Item), DOMAIN items' = DOMAIN items,
         \A k \in DOMAIN items : TextSound(items'[k]) /\ SamePage(items[k], items'[k]),
         notifiers' \in Seq(Nat \X View), ToSet(notifiers') = NotifiersOf(items'),
         UNCHANGED <<prevViewModes, progress, dialog, crashed, requests, replies, store, clean, strayed>>,
         ops' \in Nat
  PROVE  IInv'
<1>1. Typed'
  BY DEF IInv, Typed
<1>2. PagesSound'
  <2> SUFFICES ASSUME ~ strayed PROVE \A k \in DOMAIN items' : PageSound(items'[k])
    BY DEF IInv, PagesSound
  <2>1. \A k \in DOMAIN items : PageSound(items[k]) /\ SamePage(items[k], items'[k])
    BY DEF IInv, PagesSound
  <2> QED BY <2>1, SamePageSound
<1>3. ProgressSound'
  BY DEF IInv, ProgressSound
<1>4. DialogSound'
  BY DEF IInv, DialogSound, DialogKeepsView
<1>5. \A k \in DOMAIN items' : TextSound(items'[k])
  OBVIOUS
<1> QED BY <1>1, <1>2, <1>3, <1>4, <1>5 DEF IInv

LEMMA clickViewSound ==
  ASSUME IInv, NEW k \in DOMAIN items, NEW mode \in Mode, clickView(k, mode) PROVE IInv'
<1> DEFINE new == showView(items[k], mode)
<1>1. /\ items \in Seq(Item) /\ items[k] \in Item /\ TextSound(items[k]) /\ k \in Nat
      /\ notifiers \in Seq(Nat \X View) /\ ToSet(notifiers) = NotifiersOf(items)
  BY DEF IInv, Typed
<1>2. new \in Item /\ TextSound(new) /\ SamePage(items[k], new)
  BY <1>1, ShowViewSound
<1>3. items' = [items EXCEPT ![k] = new]
  BY DEF clickView
<1> HIDE DEF new
<1>4. items' \in Seq(Item) /\ DOMAIN items' = DOMAIN items /\ items'[k] = new
  BY <1>1, <1>2, <1>3
<1>5. \A j \in DOMAIN items : j # k => items'[j] = items[j]
  BY <1>1, <1>3
<1>6. ASSUME NEW j \in DOMAIN items PROVE TextSound(items'[j]) /\ SamePage(items[j], items'[j])
  BY <1>2, <1>4, <1>5 DEF IInv, SamePage
<1> DEFINE c == Created(k, items[k].ready, items'[k].ready)
<1>7. items[k].ready \in Ready /\ new.ready \in Ready
  BY <1>1, <1>2 DEF Item, Ready
<1>8. c \in Seq(Nat \X View) /\ ToSet(c) = New(k, items[k].ready, new.ready)
  BY <1>1, <1>4, <1>7, CreatedElements
<1>9. notifiers' = notifiers \o c
  BY DEF clickView
<1> HIDE DEF c
<1>10. notifiers' \in Seq(Nat \X View) /\ ToSet(notifiers') = ToSet(notifiers) \cup ToSet(c)
  BY <1>1, <1>8, <1>9, ConcatElements, ConcatProperties
<1>11. items[k].ready \subseteq new.ready
  BY <1>2 DEF SamePage
<1>12. ToSet(notifiers') = NotifiersOf(items')
  BY <1>1, <1>4, <1>5, <1>8, <1>10, <1>11 DEF NotifiersOf, New
<1>13. /\ ops' \in Nat
       /\ UNCHANGED <<prevViewModes, progress, dialog, crashed, requests, replies, store, clean, strayed>>
  BY DEF clickView, UserMay, IInv, Typed
<1> QED BY <1>4, <1>6, <1>10, <1>12, <1>13, ViewsSound

LEMMA enterModeSound ==
  ASSUME IInv, NEW mode \in Mode, enterMode(mode) PROVE IInv'
<1>1. /\ items \in Seq(Item) /\ notifiers \in Seq(Nat \X View) /\ ToSet(notifiers) = NotifiersOf(items)
      /\ \A k \in DOMAIN items : items[k] \in Item /\ TextSound(items[k])
  BY DEF IInv, Typed
<1>2. \A k \in DOMAIN items : LET new == showView(items[k], mode)
                              IN  new \in Item /\ TextSound(new) /\ SamePage(items[k], new)
  BY <1>1, ShowViewSound
<1>3. items' = [k \in DOMAIN items |-> showView(items[k], mode)]
  BY DEF enterMode
<1>4. Len(items) \in Nat /\ DOMAIN items = 1 .. Len(items)
  BY <1>1
<1>5. DOMAIN items' = DOMAIN items /\ items' \in Seq(Item)
  BY <1>2, <1>3, <1>4
<1>6. \A k \in DOMAIN items : items'[k] \in Item /\ TextSound(items'[k]) /\ SamePage(items[k], items'[k])
  BY <1>2, <1>3
<1> DEFINE before == [k \in 1 .. Len(items) |-> items[k].ready]
           after == [k \in 1 .. Len(items) |-> items'[k].ready]
           c == FlattenSeq([k \in 1 .. Len(items) |-> Created(k, before[k], after[k])])
<1>7. before \in [1 .. Len(items) -> Ready] /\ after \in [1 .. Len(items) -> Ready]
  BY <1>1, <1>4, <1>6 DEF Item, Ready
<1>8. [k \in DOMAIN items |-> Created(k, items[k].ready, items'[k].ready)]
        = [k \in 1 .. Len(items) |-> Created(k, before[k], after[k])]
  BY <1>4
<1>9. notifiers' = notifiers \o c
  BY <1>8 DEF enterMode
<1>10. c \in Seq(Nat \X View) /\ ToSet(c) = UNION {New(k, before[k], after[k]) : k \in 1 .. Len(items)}
  <2> HIDE DEF before, after
  <2> QED BY <1>4, <1>7, CreatedAll
<1>11. \A k \in DOMAIN items : before[k] = items[k].ready /\ after[k] = items'[k].ready /\ before[k] \subseteq after[k]
  BY <1>4, <1>6 DEF SamePage
<1> HIDE DEF c, before, after
<1>12. notifiers' \in Seq(Nat \X View) /\ ToSet(notifiers') = ToSet(notifiers) \cup ToSet(c)
  BY <1>1, <1>9, <1>10, ConcatElements, ConcatProperties
<1>13. ToSet(notifiers') = NotifiersOf(items')
  BY <1>1, <1>4, <1>5, <1>10, <1>11, <1>12 DEF NotifiersOf, New
<1>14. /\ ops' \in Nat
       /\ UNCHANGED <<prevViewModes, progress, dialog, crashed, requests, replies, store, clean, strayed>>
  BY DEF enterMode, UserMay, IInv, Typed
<1> QED BY <1>5, <1>6, <1>12, <1>13, <1>14, ViewsSound

LEMMA openDialogSound ==
  ASSUME IInv, NEW k \in DOMAIN items, NEW op \in Change, NEW docs \in SUBSET Doc, openDialog(k, op, docs)
  PROVE  IInv'
<1>1. items[k] \in Item /\ items[k].info # NULL /\ k \in Nat
  BY DEF IInv, Typed, openDialog
<1>2. items[k].info.query \in Query
  BY <1>1 DEF Item, Info
<1>3. /\ dialog' \in Dialog
      /\ dialog'.idle = (requests = <<>> /\ replies = <<>>)
  BY <1>1, <1>2 DEF openDialog, Dialog
<1>4. Typed'
  BY <1>3 DEF IInv, Typed, openDialog, UserMay, tabVars
<1>5. PagesSound'
  BY DEF IInv, PagesSound, openDialog, tabVars
<1>6. ProgressSound'
  BY DEF IInv, ProgressSound, openDialog
<1>7. DialogSound'
  BY <1>3 DEF IInv, DialogSound, DialogKeepsView, openDialog, UserMay
<1> QED BY <1>4, <1>5, <1>6, <1>7 DEF IInv, openDialog, tabVars

LEMMA closeDialogSound == ASSUME IInv, closeDialog PROVE IInv'
<1>1. dialog \in Dialog /\ dialog.docs \subseteq Doc /\ dialog.query \in Query /\ dialog.op \in Change
  BY DEF IInv, Typed, closeDialog, Dialog
<1> DEFINE docs == InOrder(dialog.docs)
<1>2. docs \in Seq(Doc) /\ Len(docs) \in Nat /\ DOMAIN docs = 1 .. Len(docs)
  BY <1>1, InOrderLists
<1>3. Len(docs) = Cardinality(dialog.docs)
  <2>1. IsFiniteSet(dialog.docs) /\ Cardinality(dialog.docs) \in Nat
    BY <1>1, ResultsAssumption, FS_Subset, FS_CardinalityType
  <2>2. docs \in [1 .. Cardinality(dialog.docs) -> dialog.docs]
    BY <1>1, InOrderLists DEF Lists
  <2> HIDE DEF docs
  <2> QED BY <1>2, <2>1, <2>2
<1>4. ASSUME NEW n \in 1 .. Cardinality(dialog.docs)
      PROVE  DialogRequests(n) \in Seq(Request) /\ AllAsked(DialogRequests(n))
  <2>1. DialogRequests(n) = [i \in 1 .. n |-> DocumentRequest(dialog.op, dialog.query, docs[i], i - 1)]
    BY DEF DialogRequests
  <2> HIDE DEF docs
  <2>2. n \in Nat /\ \A i \in 1 .. n : docs[i] \in Doc /\ i - 1 \in Nat
    BY <1>2, <1>3
  <2>3. \A i \in 1 .. n : DocumentRequest(dialog.op, dialog.query, docs[i], i - 1) \in Request
    BY <1>1, <2>2 DEF Request, DocumentRequest
  <2>4. DialogRequests(n) \in Seq(Request)
    BY <2>1, <2>2, <2>3
  <2>5. \A i \in 1 .. n : DialogRequests(n)[i].type \in Change
    BY <1>1, <2>1 DEF DocumentRequest
  <2>6. DOMAIN DialogRequests(n) = 1 .. n
    BY <2>1
  <2>7. AllAsked(DialogRequests(n))
    BY <2>5, <2>6 DEF AllAsked, AskedSound, Change
  <2> QED BY <2>4, <2>7
<1>7. /\ requests' \in Seq(Request) /\ (AllAsked(requests) => AllAsked(requests'))
      /\ Pending(requests, {"script", "query"}) => Pending(requests', {"script", "query"})
  <2>1. /\ requests \in Seq(Request)
        /\ \/ requests' = requests
           \/ \E n \in 1 .. Cardinality(dialog.docs) : requests' = requests \o DialogRequests(n)
    BY DEF IInv, Typed, closeDialog
  <2>2. ASSUME NEW n \in 1 .. Cardinality(dialog.docs)
        PROVE  /\ requests \o DialogRequests(n) \in Seq(Request)
               /\ AllAsked(requests) => AllAsked(requests \o DialogRequests(n))
               /\ Pending(requests, {"script", "query"}) => Pending(requests \o DialogRequests(n), {"script", "query"})
    BY <1>4, <2>1, ConcatMessages
  <2> QED BY <2>1, <2>2
<1>8. Typed'
  BY <1>7 DEF IInv, Typed, closeDialog, tabVars
<1>9. PagesSound'
  BY <1>7 DEF IInv, PagesSound, closeDialog, tabVars
<1>10. ProgressSound'
  BY <1>7 DEF IInv, ProgressSound, closeDialog
<1>11. DialogSound'
  BY DEF IInv, DialogSound, DialogKeepsView, closeDialog
<1> QED BY <1>8, <1>9, <1>10, <1>11 DEF IInv, closeDialog, tabVars

-----------------------------------------------------------------------------
(* The worker.                                                                *)

LEMMA AnswerSound ==
  ASSUME IInv, requests # <<>>, NEW reply \in Reply, Answer(reply),
         AskedSound(Head(requests)) => AskedSound(reply),
         Head(requests).type \in {"script", "query"} => reply.type \in {"results", "page"},
         store' \in [Query -> SUBSET Doc]
  PROVE  IInv'
<1>1. requests \in Seq(Request) /\ replies \in Seq(Reply)
  BY DEF IInv, Typed
<1>2. requests' = Tail(requests) /\ replies' = Append(replies, reply)
  BY DEF Answer
<1>3. /\ requests' \in Seq(Request)
      /\ AllAsked(requests) => AllAsked(requests') /\ AskedSound(Head(requests))
      /\ Pending(requests, {"script", "query"}) /\ Head(requests).type \notin {"script", "query"}
           => Pending(requests', {"script", "query"})
  BY <1>1, <1>2, TailMessages
<1>4. /\ replies' \in Seq(Reply)
      /\ AllAsked(replies) /\ AskedSound(reply) => AllAsked(replies')
      /\ Pending(replies, {"results", "page"}) => Pending(replies', {"results", "page"})
      /\ reply.type \in {"results", "page"} => Pending(replies', {"results", "page"})
  BY <1>1, <1>2, AppendMessage
<1>5. Typed'
  BY <1>3, <1>4 DEF IInv, Typed, Answer, tabVars
<1>6. PagesSound'
  BY <1>3, <1>4 DEF IInv, PagesSound, Answer, tabVars
<1>7. ProgressSound'
  BY <1>3, <1>4 DEF IInv, ProgressSound, Answer
<1>8. DialogSound'
  BY DEF IInv, DialogSound, DialogKeepsView, Answer
<1> QED BY <1>5, <1>6, <1>7, <1>8 DEF IInv, Answer, tabVars

LEMMA PrintedTyped ==
  ASSUME store \in [Query -> SUBSET Doc], NEW source \in Source PROVE Printed(source) \in Result
<1>1. <<>> \in DocSeq /\ <<0>> \in DocSeq
  BY DEF DocSeq
<1>2. ASSUME source \in Query PROVE FirstPage(source) \in DocSeq
  <2>1. store[source] \subseteq Doc /\ TextSkip[source] \in Nat /\ TextLimit[source] \in Nat /\ ShellBatch \in Nat
    BY <1>2, ResultsAssumption
  <2> DEFINE limit == IF TextLimit[source] = 0 THEN ShellBatch ELSE Min({TextLimit[source], ShellBatch})
  <2>2. limit \in Nat
    <3>1. Min({TextLimit[source], ShellBatch}) \in {TextLimit[source], ShellBatch}
      <4>1. TextLimit[source] \in Int /\ ShellBatch \in Int
        BY <2>1
      <4> QED BY <4>1, MinOfTwo
    <3> QED BY <2>1, <3>1
  <2>3. FirstPage(source) = Page(store[source], TextSkip[source], limit)
    BY DEF FirstPage
  <2> HIDE DEF limit
  <2> QED BY <2>1, <2>2, <2>3, PageTyped
<1>3. source \in Query => source \notin {"print", "value", "stats"}
  BY ResultsAssumption
<1> QED BY <1>1, <1>2, <1>3 DEF Printed, Result, Source

LEMMA ExecuteScriptSound == ASSUME IInv, ExecuteScript PROVE IInv'
<1>1. requests # <<>> /\ Head(requests).type = "script" /\ store \in [Query -> SUBSET Doc] /\ store' = store
  BY DEF ExecuteScript, WorkerMay, IInv, Typed
<1>2. PICK error \in BOOLEAN, results \in Seq(Result) : Answer(ExecuteScriptResponse(error, results))
  <2>1. CASE Answer(ExecuteScriptResponse(TRUE, <<>>))
    <3>1. <<>> \in Seq(Result) /\ TRUE \in BOOLEAN
      OBVIOUS
    <3> QED BY <2>1, <3>1
  <2>2. CASE \E n \in 0 .. MaxParts : \E results \in [1 .. n -> Source] :
               Answer(ExecuteScriptResponse(FALSE, [k \in 1 .. n |-> Printed(results[k])]))
    <3>1. PICK n \in 0 .. MaxParts : \E results \in [1 .. n -> Source] :
               Answer(ExecuteScriptResponse(FALSE, [k \in 1 .. n |-> Printed(results[k])]))
      BY <2>2
    <3>2. PICK sources \in [1 .. n -> Source] :
               Answer(ExecuteScriptResponse(FALSE, [k \in 1 .. n |-> Printed(sources[k])]))
      BY <3>1
    <3>3. n \in Nat /\ \A k \in 1 .. n : Printed(sources[k]) \in Result
      BY <1>1, PrintedTyped, ResultsAssumption
    <3>4. [k \in 1 .. n |-> Printed(sources[k])] \in Seq(Result) /\ FALSE \in BOOLEAN
      BY <3>3
    <3> QED BY <3>2, <3>4
  <2> QED BY <2>1, <2>2 DEF ExecuteScript
<1> DEFINE reply == ExecuteScriptResponse(error, results)
<1>3. reply \in Reply /\ reply.type = "results"
  BY DEF Reply, ExecuteScriptResponse
<1>4. AskedSound(reply)
  BY <1>3 DEF AskedSound
<1> HIDE DEF reply
<1> QED BY <1>1, <1>2, <1>3, <1>4, AnswerSound DEF reply

LEMMA ExecuteQuerySound == ASSUME IInv, ExecuteQuery PROVE IInv'
<1> DEFINE r == Head(requests)
<1>1. requests # <<>> /\ r.type = "query" /\ store \in [Query -> SUBSET Doc] /\ store' = store /\ requests \in Seq(Request)
  BY DEF ExecuteQuery, WorkerMay, IInv, Typed
<1>2. r \in Request
  BY <1>1, TailMessages
<1>3. r.index \in Nat /\ r.info \in Info
  BY <1>1, <1>2 DEF Request, ExecuteScriptRequest, Change
<1> DEFINE docs == IF r.info = NULL THEN <<>> ELSE Page(store[r.info.query], r.info.skip, r.info.limit)
<1>4. docs \in DocSeq /\ <<>> \in DocSeq
  <2>1. <<>> \in DocSeq
    BY DEF DocSeq
  <2>2. ASSUME r.info # NULL PROVE docs \in DocSeq
    <3>1. r.info.query \in Query /\ r.info.skip \in Nat /\ r.info.limit \in Nat \cup {-1}
      BY <1>3, <2>2 DEF Info
    <3>2. store[r.info.query] \subseteq Doc
      BY <1>1, <3>1
    <3>3. docs = Page(store[r.info.query], r.info.skip, r.info.limit)
      BY <2>2
    <3> HIDE DEF r, docs
    <3> QED BY <3>1, <3>2, <3>3, PageTyped
  <2> QED BY <2>1, <2>2
<1>5. \/ Answer(ExecuteQueryResponse(r, TRUE, <<>>))
      \/ Answer(ExecuteQueryResponse(r, FALSE, docs))
  BY DEF ExecuteQuery
<1> HIDE DEF r, docs
<1>6. PICK error \in BOOLEAN, loaded \in DocSeq : Answer(ExecuteQueryResponse(r, error, loaded))
  BY <1>4, <1>5
<1> DEFINE reply == ExecuteQueryResponse(r, error, loaded)
<1>7. reply \in Reply /\ reply.type = "page" /\ reply.info = r.info
  BY <1>3 DEF Reply, ExecuteQueryResponse
<1>8. AskedSound(r) => AskedSound(reply)
  BY <1>1, <1>7 DEF AskedSound
<1> HIDE DEF reply
<1> QED BY <1>1, <1>6, <1>7, <1>8, AnswerSound DEF reply, r

LEMMA ChangeDocumentSound == ASSUME IInv, ChangeDocument PROVE IInv'
<1> DEFINE r == Head(requests)
<1>1. requests # <<>> /\ r.type \in Change /\ store \in [Query -> SUBSET Doc] /\ requests \in Seq(Request)
  BY DEF ChangeDocument, WorkerMay, IInv, Typed, Change
<1>2. r \in Request
  BY <1>1, TailMessages
<1>3. r.index \in Nat /\ r.query \in Query /\ r.doc \in Doc
  BY <1>1, <1>2 DEF Request, ExecuteScriptRequest, Change
<1>4. store' \in [Query -> SUBSET Doc]
  <2> DEFINE kept == IF r.type = "remove" THEN store[r.query] \ {r.doc} ELSE store[r.query] \cup {r.doc}
  <2>1. store' = store \/ store' = [store EXCEPT ![r.query] = kept]
    BY DEF ChangeDocument
  <2>2. kept \in SUBSET Doc
    BY <1>1, <1>3
  <2> HIDE DEF kept, r
  <2> QED BY <1>1, <2>1, <2>2
<1>5. Answer(DocumentResponse(r, TRUE)) \/ Answer(DocumentResponse(r, FALSE))
  BY DEF ChangeDocument
<1> HIDE DEF r
<1>6. PICK error \in BOOLEAN : Answer(DocumentResponse(r, error))
  BY <1>5
<1> DEFINE reply == DocumentResponse(r, error)
<1>7. reply \in Reply /\ reply.type = r.type
  BY <1>1, <1>3 DEF Reply, DocumentResponse
<1>8. AskedSound(reply) /\ r.type \notin {"script", "query"}
  BY <1>1, <1>7 DEF AskedSound, Change
<1> HIDE DEF reply
<1> QED BY <1>1, <1>4, <1>6, <1>7, <1>8, AnswerSound DEF reply, r

-----------------------------------------------------------------------------
(* The answers in the GUI thread.                                             *)

\* What every handler of an answer does to the queue.
LEMMA HandledSound ==
  ASSUME IInv, NEW types, GuiMay(types), replies' = Tail(replies)
  PROVE  /\ Head(replies) \in Reply /\ Head(replies).type \in types /\ replies' \in Seq(Reply)
         /\ AllAsked(replies) => AllAsked(replies') /\ AskedSound(Head(replies))
         /\ Pending(replies, {"results", "page"}) /\ Head(replies).type \notin {"results", "page"}
              => Pending(replies', {"results", "page"})
         /\ dialog # NULL => ~ dialog.idle
         /\ crashed = FALSE
<1>1. replies \in Seq(Reply) /\ replies # <<>> /\ Head(replies).type \in types /\ crashed = FALSE
  BY DEF IInv, Typed, GuiMay
<1>2. dialog # NULL => ~ dialog.idle
  BY <1>1 DEF IInv, DialogSound
<1> QED BY <1>1, <1>2, TailMessages

\* The modes that a new output takes over.
LEMMA SavedTyped ==
  ASSUME IInv PROVE (IF items = <<>> THEN prevViewModes ELSE SavedViewModes) \in Seq(Mode)
<1>1. items \in Seq(Item) /\ prevViewModes \in Seq(Mode)
  BY DEF IInv, Typed
<1> DEFINE v == [k \in DOMAIN items |-> items[k].view]
<1>2. Len(items) \in Nat /\ DOMAIN items = 1 .. Len(items) /\ \A k \in DOMAIN items : items[k].view \in Mode
  <2>1. \A k \in DOMAIN items : items[k] \in Item
    BY <1>1
  <2>2. \A item \in Item : item.view \in Mode
    BY DEF Item
  <2> QED BY <1>1, <2>1, <2>2
<1>3. v \in Seq(Mode) /\ Len(v) = Len(items)
  BY <1>2
<1>4. \A i \in 1 .. Len(v) : v[(Len(v) - i) + 1] \in Mode
  BY <1>2, <1>3
<1>5. SavedViewModes = [i \in 1 .. Len(v) |-> v[(Len(v) - i) + 1]]
  BY DEF SavedViewModes, Reverse
<1> HIDE DEF v
<1>6. SavedViewModes \in Seq(Mode)
  BY <1>2, <1>3, <1>4, <1>5
<1> QED BY <1>1, <1>6

LEMMA PresentSound ==
  ASSUME IInv, NEW results \in Seq(Result), Present(results)
  PROVE  /\ items' \in Seq(Item) /\ prevViewModes' \in Seq(Mode)
         /\ \A k \in DOMAIN items' : TextSound(items'[k]) /\ PageSound(items'[k])
         /\ notifiers' \in Seq(Nat \X View) /\ ToSet(notifiers') = NotifiersOf(items')
         /\ DOMAIN items' = DOMAIN results
         /\ \A k \in DOMAIN results : \E mode \in Mode : items'[k] = Part(results[k], mode)
<1> DEFINE saved == IF items = <<>> THEN prevViewModes ELSE SavedViewModes
           mode(k) == IF k <= Len(saved) THEN saved[Len(saved) + 1 - k] ELSE "tree"
           n == Len(results)
<1>1. saved \in Seq(Mode)
  BY SavedTyped
<1>2. n \in Nat /\ DOMAIN results = 1 .. n /\ \A k \in 1 .. n : results[k] \in Result
  OBVIOUS
<1>3. /\ items' = [k \in 1 .. n |-> Part(results[k], mode(k))]
      /\ prevViewModes' = SubSeq(saved, 1, Len(saved) - n)
      /\ notifiers' = FlattenSeq([k \in 1 .. n |-> Created(k, {}, items'[k].ready)])
  BY <1>2 DEF Present
<1> HIDE DEF saved
<1>4. ASSUME NEW k \in 1 .. n PROVE mode(k) \in Mode
  <2>1. Len(saved) \in Nat /\ (k <= Len(saved) => Len(saved) + 1 - k \in 1 .. Len(saved)) /\ "tree" \in Mode
    BY <1>1, <1>2 DEF Mode
  <2> QED BY <1>1, <2>1
<1> HIDE DEF mode, n
<1>5. ASSUME NEW k \in 1 .. n
      PROVE  items'[k] \in Item /\ TextSound(items'[k]) /\ PageSound(items'[k])
  BY <1>2, <1>3, <1>4, PartSound
<1>6. items' \in Seq(Item) /\ DOMAIN items' = 1 .. n
  BY <1>2, <1>3, <1>5
<1>7. prevViewModes' \in Seq(Mode)
  <2>1. Len(saved) - n \in Int /\ \A i \in 1 .. Len(saved) - n : saved[i] \in Mode
    BY <1>1, <1>2
  <2> QED BY <1>3, <2>1, SubSeqProperties
<1> DEFINE before == [k \in 1 .. n |-> {}]
           after == [k \in 1 .. n |-> items'[k].ready]
<1>8. before \in [1 .. n -> Ready] /\ after \in [1 .. n -> Ready]
  BY <1>5 DEF Item, Ready
<1>9. notifiers' = FlattenSeq([k \in 1 .. n |-> Created(k, before[k], after[k])])
  <2>1. [k \in 1 .. n |-> Created(k, before[k], after[k])] = [k \in 1 .. n |-> Created(k, {}, items'[k].ready)]
    OBVIOUS
  <2> QED BY <1>3, <2>1
<1>10. \A k \in 1 .. n : before[k] = {} /\ after[k] = items'[k].ready
  OBVIOUS
<1> HIDE DEF before, after
<1>11. /\ notifiers' \in Seq(Nat \X View)
       /\ ToSet(notifiers') = UNION {New(k, before[k], after[k]) : k \in 1 .. n}
  <2>1. n \in Nat
    BY <1>2
  <2>2. PICK b \in [1 .. n -> Ready], a \in [1 .. n -> Ready] : b = before /\ a = after
    BY <1>8
  <2>3. notifiers' = FlattenSeq([k \in 1 .. n |-> Created(k, b[k], a[k])])
    BY <1>9, <2>2
  <2>4. /\ notifiers' \in Seq(Nat \X View)
        /\ ToSet(notifiers') = UNION {New(k, b[k], a[k]) : k \in 1 .. n}
    BY <2>1, <2>3, CreatedAll
  <2> QED BY <2>2, <2>4
<1>12. ToSet(notifiers') = NotifiersOf(items')
  BY <1>6, <1>10, <1>11 DEF NotifiersOf, New
<1>13. \A k \in 1 .. n : \E m \in Mode : items'[k] = Part(results[k], m)
  BY <1>3, <1>4
<1> QED BY <1>2, <1>5, <1>6, <1>7, <1>11, <1>12, <1>13

LEMMA ScriptExecutedSound == ASSUME IInv, ScriptExecuted PROVE IInv'
<1>1. /\ Head(replies) \in Reply /\ Head(replies).type = "results" /\ replies' \in Seq(Reply)
      /\ AllAsked(replies) => AllAsked(replies')
      /\ dialog # NULL => ~ dialog.idle
  <2>1. GuiMay({"results"}) /\ replies' = Tail(replies)
    BY DEF ScriptExecuted
  <2>2. Head(replies).type \in {"results"}
    BY <2>1, HandledSound
  <2> QED BY <2>1, <2>2, HandledSound
<1>2. Head(replies).results \in Seq(Result) /\ Head(replies).error \in BOOLEAN
  BY <1>1 DEF Reply, Change
<1>3. /\ items' \in Seq(Item) /\ prevViewModes' \in Seq(Mode)
      /\ \A k \in DOMAIN items' : TextSound(items'[k]) /\ PageSound(items'[k])
      /\ notifiers' \in Seq(Nat \X View) /\ ToSet(notifiers') = NotifiersOf(items')
  BY <1>2, PresentSound DEF ScriptExecuted
<1>4. Typed'
  BY <1>1, <1>2, <1>3 DEF IInv, Typed, ScriptExecuted
<1>5. PagesSound'
  BY <1>1, <1>3 DEF IInv, PagesSound, ScriptExecuted
<1>6. ProgressSound'
  BY DEF ProgressSound, ScriptExecuted
<1>7. DialogSound'
  BY <1>1 DEF DialogSound, DialogKeepsView, ScriptExecuted
<1> QED BY <1>3, <1>4, <1>5, <1>6, <1>7 DEF IInv

LEMMA DocumentsFailedSound == ASSUME IInv, DocumentsFailed PROVE IInv'
<1>1. /\ Head(replies) \in Reply /\ replies' \in Seq(Reply)
      /\ AllAsked(replies) => AllAsked(replies')
      /\ dialog # NULL => ~ dialog.idle
      /\ crashed = FALSE
  BY HandledSound DEF DocumentsFailed
<1>2. Typed'
  BY <1>1 DEF IInv, Typed, DocumentsFailed, tabVars
<1>3. PagesSound'
  BY <1>1 DEF IInv, PagesSound, DocumentsFailed, tabVars
<1>4. ProgressSound'
  BY DEF ProgressSound, DocumentsFailed
<1>5. DialogSound'
  BY <1>1 DEF DialogSound, DialogKeepsView, DocumentsFailed
<1> QED BY <1>2, <1>3, <1>4, <1>5 DEF IInv, DocumentsFailed, tabVars

LEMMA DocumentListLoadedSound == ASSUME IInv, DocumentListLoaded PROVE IInv'
<1> DEFINE r == Head(replies)
<1>1. GuiMay({"page"}) /\ replies' = Tail(replies)
  BY DEF DocumentListLoaded
<1>2. r.type \in {"page"}
  BY <1>1, HandledSound
<1>3. /\ r \in Reply /\ replies' \in Seq(Reply)
      /\ AllAsked(replies) => AllAsked(replies') /\ AskedSound(r)
      /\ dialog # NULL => ~ dialog.idle
      /\ crashed = FALSE
  BY <1>1, HandledSound
<1>4. r.index \in Nat /\ r.info \in Info /\ r.docs \in DocSeq /\ r.type = "page"
  BY <1>2, <1>3 DEF Reply, Change
<1>5. /\ progress' = FALSE
      /\ UNCHANGED <<prevViewModes, dialog, requests, store, ops, clean>>
  BY DEF DocumentListLoaded
<1>6. ProgressSound'
  BY <1>5 DEF ProgressSound
<1>7. CASE r.index \notin DOMAIN items
  <2>1. UNCHANGED <<items, notifiers, crashed, strayed>>
    BY <1>7 DEF DocumentListLoaded
  <2>2. Typed'
    BY <1>3, <1>5, <2>1 DEF IInv, Typed
  <2>3. PagesSound'
    BY <1>3, <1>5, <2>1 DEF IInv, PagesSound
  <2>4. DialogSound'
    BY <1>3, <1>5, <2>1 DEF DialogSound, DialogKeepsView
  <2> QED BY <1>6, <2>1, <2>2, <2>3, <2>4 DEF IInv
<1>8. CASE r.index \in DOMAIN items
  <2> DEFINE k == r.index
             new == Updated(items[k], r.info, r.docs)
             others == Without(k)
             c == Created(k, {}, items'[k].ready)
  <2>1. /\ items' = [items EXCEPT ![k] = new] /\ notifiers' = others \o c
        /\ crashed' = (dialog # NULL /\ dialog.part = k)
        /\ strayed' = (strayed \/ ~ ShowsQuery(items[k], r.info))
    BY <1>8 DEF DocumentListLoaded
  <2>2. /\ items \in Seq(Item) /\ items[k] \in Item /\ k \in Nat /\ strayed \in BOOLEAN
        /\ notifiers \in Seq(Nat \X View) /\ ToSet(notifiers) = NotifiersOf(items)
    BY <1>4, <1>8 DEF IInv, Typed
  <2>3. /\ new \in Item /\ TextSound(new)
        /\ ShowsQuery(items[k], r.info) /\ PageSound(items[k]) /\ Within(r.info) => PageSound(new)
    BY <1>4, <2>2, UpdatedSound
  <2> HIDE DEF new
  <2>4. items' \in Seq(Item) /\ DOMAIN items' = DOMAIN items /\ items'[k] = new
    BY <1>8, <2>1, <2>2, <2>3
  <2>5. \A j \in DOMAIN items : j # k => items'[j] = items[j]
    BY <2>1, <2>2
  <2>6. others \in Seq(Nat \X View) /\ ToSet(others) = {x \in ToSet(notifiers) : x[1] # k}
    BY <2>2, NotifiersLeft
  <2>7. {} \in Ready /\ new.ready \in Ready
    BY <2>3 DEF Item, Ready
  <2>8. c \in Seq(Nat \X View) /\ ToSet(c) = New(k, {}, new.ready)
    BY <2>2, <2>4, <2>7, CreatedElements
  <2> HIDE DEF others, c
  <2>9. notifiers' \in Seq(Nat \X View) /\ ToSet(notifiers') = ToSet(others) \cup ToSet(c)
    BY <2>1, <2>6, <2>8, ConcatElements, ConcatProperties
  <2>10. ToSet(notifiers') = NotifiersOf(items')
    <3> HIDE DEF k
    <3>1. k \in DOMAIN items
      BY <1>8 DEF k
    <3> QED BY <2>2, <2>4, <2>5, <2>6, <2>8, <2>9, <3>1 DEF NotifiersOf, New
  <2>11. Typed'
    BY <1>3, <1>5, <2>1, <2>2, <2>4, <2>9, <2>10 DEF IInv, Typed
  <2>12. \A j \in DOMAIN items' : TextSound(items'[j])
    BY <2>3, <2>4, <2>5 DEF IInv
  <2>13. PagesSound'
    <3> SUFFICES ASSUME ~ strayed' PROVE /\ \A j \in DOMAIN items' : PageSound(items'[j])
                                         /\ AllAsked(requests) /\ AllAsked(replies')
      BY <1>5 DEF PagesSound
    <3>1. ~ strayed /\ ShowsQuery(items[k], r.info)
      BY <2>1, <2>2
    <3>2. (\A j \in DOMAIN items : PageSound(items[j])) /\ AllAsked(requests) /\ AllAsked(replies)
      BY <3>1 DEF IInv, PagesSound
    <3>3. Within(r.info)
      BY <1>3, <1>4, <3>1, <3>2 DEF AskedSound, ShowsQuery
    <3>4. PageSound(new)
      BY <1>8, <2>3, <3>1, <3>2, <3>3
    <3> QED BY <1>3, <2>4, <2>5, <3>2, <3>4
  <2>14. DialogSound'
    BY <1>3, <1>5, <2>1 DEF DialogSound, DialogKeepsView
  <2> QED BY <1>6, <2>11, <2>12, <2>13, <2>14 DEF IInv
<1> QED BY <1>7, <1>8

LEMMA DocumentChangedSound == ASSUME IInv, DocumentChanged PROVE IInv'
<1> DEFINE r == Head(replies)
           again == [i \in DOMAIN notifiers |-> ExecuteQueryRequest(1, items[notifiers[i][1]].info)]
<1>1. GuiMay(Change) /\ replies' = Tail(replies)
  BY DEF DocumentChanged, Change
<1>2. /\ r \in Reply /\ replies' \in Seq(Reply) /\ r.type \in Change
      /\ AllAsked(replies) => AllAsked(replies')
      /\ Pending(replies, {"results", "page"}) /\ r.type \notin {"results", "page"}
           => Pending(replies', {"results", "page"})
      /\ dialog # NULL => ~ dialog.idle
      /\ crashed = FALSE
  BY <1>1, HandledSound
<1>3. Pending(replies, {"results", "page"}) => Pending(replies', {"results", "page"})
  BY <1>2 DEF Change
<1>4. /\ items \in Seq(Item) /\ notifiers \in Seq(Nat \X View) /\ ToSet(notifiers) = NotifiersOf(items)
      /\ requests \in Seq(Request)
  BY DEF IInv, Typed
<1>5. ASSUME NEW i \in DOMAIN notifiers
      PROVE  /\ notifiers[i][1] \in DOMAIN items /\ items[notifiers[i][1]] \in Item
             /\ again[i] \in Request /\ again[i].type = "query" /\ again[i].info = items[notifiers[i][1]].info
  <2>1. notifiers[i] \in NotifiersOf(items)
    BY <1>4 DEF ToSet
  <2>2. notifiers[i][1] \in DOMAIN items
    BY <2>1 DEF NotifiersOf
  <2>3. items[notifiers[i][1]] \in Item
    BY <1>4, <2>2
  <2>4. items[notifiers[i][1]].info \in Info /\ 1 \in Nat
    BY <2>3 DEF Item
  <2>5. again[i] = ExecuteQueryRequest(1, items[notifiers[i][1]].info)
    OBVIOUS
  <2> QED BY <2>2, <2>3, <2>4, <2>5 DEF Request, ExecuteQueryRequest
<1>6. again \in Seq(Request) /\ DOMAIN again = DOMAIN notifiers
  <2>1. Len(notifiers) \in Nat /\ DOMAIN notifiers = 1 .. Len(notifiers)
    BY <1>4
  <2> QED BY <1>5, <2>1
<1>7. requests' = requests \o again \/ requests' = requests
  BY DEF DocumentChanged
<1> HIDE DEF again
<1>8. (\A k \in DOMAIN items : PageSound(items[k])) => AllAsked(again)
  BY <1>5, <1>6 DEF AllAsked, AskedSound, PageSound
<1>9. /\ requests \o again \in Seq(Request)
      /\ AllAsked(requests) /\ AllAsked(again) => AllAsked(requests \o again)
      /\ Pending(requests, {"script", "query"}) => Pending(requests \o again, {"script", "query"})
  BY <1>4, <1>6, ConcatMessages
<1>10. Typed'
  <2>1. r.error \in BOOLEAN
    BY <1>2 DEF Reply, Change
  <2> QED BY <1>2, <1>7, <1>9, <2>1 DEF IInv, Typed, DocumentChanged, tabVars
<1>11. PagesSound'
  BY <1>2, <1>7, <1>8, <1>9 DEF IInv, PagesSound, DocumentChanged, tabVars
<1>12. ProgressSound'
  BY <1>3, <1>7, <1>9 DEF IInv, ProgressSound, DocumentChanged
<1>13. DialogSound'
  BY <1>2 DEF DialogSound, DialogKeepsView, DocumentChanged
<1> QED BY <1>10, <1>11, <1>12, <1>13 DEF IInv, DocumentChanged, tabVars

-----------------------------------------------------------------------------
(* The threads.                                                               *)

\* One part changes; its page, its views and the rest of the tab stay.
LEMMA ThreadSound ==
  ASSUME IInv, NEW k \in DOMAIN items, NEW new \in Item, items' = [items EXCEPT ![k] = new],
         SamePage(items[k], new), new.ready = items[k].ready, TextSound(new),
         UNCHANGED <<prevViewModes, notifiers, progress, dialog, crashed, requests, replies, store, ops, clean, strayed>>
  PROVE  IInv'
<1>1. items \in Seq(Item) /\ notifiers \in Seq(Nat \X View) /\ ToSet(notifiers) = NotifiersOf(items) /\ ops \in Nat
  BY DEF IInv, Typed
<1>2. /\ items' \in Seq(Item) /\ DOMAIN items' = DOMAIN items /\ items'[k] = new
      /\ \A j \in DOMAIN items : j # k => items'[j] = items[j]
  BY <1>1
<1>3. \A j \in DOMAIN items : TextSound(items'[j]) /\ SamePage(items[j], items'[j]) /\ items'[j].ready = items[j].ready
  BY <1>2 DEF IInv, SamePage
<1>4. NotifiersOf(items') = NotifiersOf(items)
  BY <1>2, <1>3 DEF NotifiersOf
<1>5. notifiers' \in Seq(Nat \X View) /\ ToSet(notifiers') = NotifiersOf(items') /\ ops' \in Nat
  BY <1>1, <1>4
<1> QED BY <1>2, <1>3, <1>5, ViewsSound

LEMMA jsonPartReadySound == ASSUME IInv, NEW k \in DOMAIN items, jsonPartReady(k) PROVE IInv'
<1> DEFINE item == items[k]
           t == item.thread
           new == [item EXCEPT !.thread = [t EXCEPT !.next = @ + 1], !.text = Appended(item, t.docs[t.next])]
<1>1. item \in Item /\ TextSound(item) /\ items \in Seq(Item)
  BY DEF IInv, Typed
<1>2. t \in Thread /\ t.docs \in DocSeq /\ t.next \in Nat \ {0} /\ t.next <= Len(t.docs)
  BY <1>1 DEF jsonPartReady, Item, Thread
<1>3. items' = [items EXCEPT ![k] = new]
  BY DEF jsonPartReady
<1>4. t.docs[t.next] \in Doc \cup {0} /\ Len(t.docs) \in Nat /\ t.next \in 1 .. Len(t.docs)
  BY <1>2 DEF DocSeq
<1> HIDE DEF t
<1>5. Appended(item, t.docs[t.next]) \in DocSeq
  <2>1. item.text \in DocSeq
    BY <1>1 DEF Item
  <2> QED BY <1>4, <2>1 DEF Appended, DocSeq
<1> DEFINE u == [t EXCEPT !.next = @ + 1]
<1>6. u \in Thread /\ u.docs = t.docs /\ u.next = t.next + 1
  BY <1>2 DEF Thread
<1> HIDE DEF u
<1>7. new = [item EXCEPT !.thread = u, !.text = Appended(item, t.docs[t.next])]
  BY DEF u
<1>8. /\ new \in Item /\ new.thread = u /\ new.text = Appended(item, t.docs[t.next])
      /\ new.docs = item.docs /\ new.ready = item.ready /\ SamePage(item, new)
  <2> HIDE DEF item, new
  <2> QED BY <1>1, <1>5, <1>6, <1>7 DEF Item, SamePage
<1>9. TextSound(new)
  <2> SUFFICES ASSUME "text" \in item.ready, item.docs # <<>>
               PROVE  /\ u.docs = item.docs /\ u.next <= Len(item.docs) + 1
                      /\ Appended(item, t.docs[t.next]) = SubSeq(item.docs, 1, u.next - 1)
    BY <1>6, <1>8 DEF TextSound
  <2>1. t.docs = item.docs /\ item.text = SubSeq(item.docs, 1, t.next - 1)
    BY <1>1 DEF TextSound, t
  <2> DEFINE d == t.docs
             n == t.next
  <2>2. SubSeq(d, 1, n) = SubSeq(d, 1, n - 1) \o <<d[n]>>
    <3>1. 1 \in 1 .. Len(d) /\ n \in 1 .. Len(d) /\ d \in Seq(Doc \cup {0})
      BY <1>2, <1>4 DEF DocSeq
    <3> HIDE DEF d, n
    <3> QED BY <3>1, SubSeqRecursiveSecond
  <2>3. Appended(item, d[n]) = Append(item.text, d[n])
    BY DEF Appended
  <2>4. Append(item.text, d[n]) = item.text \o <<d[n]>>
    <3>1. item.text \in Seq(Doc \cup {0}) /\ d[n] \in Doc \cup {0}
      BY <1>1, <1>4 DEF Item, DocSeq
    <3> HIDE DEF d, n
    <3> QED BY <3>1, AppendIsConcat
  <2>5. u.next - 1 = n /\ u.next <= Len(d) + 1
    BY <1>4, <1>6
  <2> QED BY <1>6, <2>1, <2>2, <2>3, <2>4, <2>5
<1>10. UNCHANGED <<prevViewModes, notifiers, progress, dialog, crashed, requests, replies, store, ops, clean, strayed>>
  BY DEF jsonPartReady
<1> HIDE DEF new, item
<1> QED BY <1>1, <1>3, <1>8, <1>9, <1>10, ThreadSound DEF item

LEMMA stalePartReadySound ==
  ASSUME IInv, NEW k \in DOMAIN items, NEW t \in items[k].old, stalePartReady(k, t) PROVE IInv'
<1> DEFINE item == items[k]
           new == [item EXCEPT !.old = @ \ {t}]
<1>1. item \in Item /\ TextSound(item) /\ items \in Seq(Item)
  BY DEF IInv, Typed
<1>2. items' = [items EXCEPT ![k] = new]
  BY DEF stalePartReady
<1> HIDE DEF item
<1>3. new \in Item /\ SamePage(item, new) /\ new.ready = item.ready
  BY <1>1 DEF Item, SamePage
<1>4. new.docs = item.docs /\ new.thread = item.thread /\ new.text = item.text
  BY <1>1 DEF Item
<1>5. TextSound(new)
  BY <1>1, <1>3, <1>4 DEF TextSound
<1>6. UNCHANGED <<prevViewModes, notifiers, progress, dialog, crashed, requests, replies, store, ops, clean, strayed>>
  BY DEF stalePartReady
<1> HIDE DEF new
<1> QED BY <1>2, <1>3, <1>5, <1>6, ThreadSound DEF item

-----------------------------------------------------------------------------
(* The theorems.                                                              *)

LEMMA NextSound == IInv /\ [Next]_vars => IInv'
<1> SUFFICES ASSUME IInv, [Next]_vars PROVE IInv'
  OBVIOUS
<1>1. CASE User
  <2>1. ASSUME NEW k \in DOMAIN items, NEW skip \in Skip, NEW batchSize \in Batch, refresh(k, skip, batchSize)
        PROVE  IInv'
    <3>1. skip \in Nat /\ batchSize \in Nat
      BY ResultsAssumption
    <3> QED BY <2>1, <3>1, refreshSound
  <2>2. ASSUME NEW k \in DOMAIN items, NEW op \in {"insert", "save", "remove"}, NEW docs \in SUBSET Doc,
               openDialog(k, op, docs)
        PROVE  IInv'
    BY <2>2, openDialogSound DEF Change
  <2> QED BY <1>1, <2>1, <2>2, executeSound, enterModeSound, pagingSound, clickViewSound, closeDialogSound DEF User
<1>2. CASE Worker
  BY <1>2, ExecuteScriptSound, ExecuteQuerySound, ChangeDocumentSound DEF Worker
<1>3. CASE Gui
  BY <1>3, ScriptExecutedSound, DocumentsFailedSound, DocumentListLoadedSound, DocumentChangedSound DEF Gui
<1>4. CASE Threads
  BY <1>4, jsonPartReadySound, stalePartReadySound DEF Threads
<1>5. CASE UNCHANGED vars
  BY <1>5 DEF vars, tabVars, IInv, Typed, PagesSound, ProgressSound, DialogSound, DialogKeepsView
<1> QED BY <1>1, <1>2, <1>3, <1>4, <1>5 DEF Next

\* The inductive invariant holds in every reachable state of a tab.
THEOREM Invariance == Spec => []IInv
  BY InitSound, NextSound, PTL DEF Spec

\* Parts, modes, Notifiers and the store keep their types, and the Notifiers are
\* those of the trees and tables there are.
THEOREM TypeCorrect == Spec => []TypeOK
<1>1. IInv => TypeOK
  <2> SUFFICES ASSUME IInv PROVE TypeOK
    OBVIOUS
  <2>1. Typed
    BY DEF IInv
  <2>2. ASSUME NEW k \in DOMAIN items
        PROVE  /\ items[k].query \in Source /\ items[k].info \in Info /\ items[k].view \in Mode
               /\ ToSet(items[k].docs) \cup ToSet(items[k].text) \subseteq Doc \cup {0}
               /\ items[k].ready \subseteq {"text", "tree", "table", "custom"}
    <3>1. items[k] \in Item
      BY <2>1 DEF Typed
    <3>2. items[k].docs \in DocSeq /\ items[k].text \in DocSeq
      BY <3>1 DEF Item
    <3>3. \A s \in DocSeq : ToSet(s) \subseteq Doc \cup {0}
      BY DEF DocSeq, ToSet
    <3>4. ToSet(items[k].docs) \subseteq Doc \cup {0} /\ ToSet(items[k].text) \subseteq Doc \cup {0}
      BY <3>2, <3>3
    <3>5. items[k].query \in Source /\ items[k].info \in Info /\ items[k].view \in Mode
          /\ items[k].ready \subseteq {"text", "tree", "table", "custom"}
      BY <3>1 DEF Item
    <3> QED BY <3>4, <3>5
  <2>3. ToSet(prevViewModes) \subseteq Mode
    BY <2>1 DEF Typed, ToSet
  <2>4. ToSet(notifiers) = {n \in (DOMAIN items) \X {"tree", "table"} : n[2] \in items[n[1]].ready}
    BY <2>1 DEF Typed, NotifiersOf, View
  <2>5. {progress, crashed, clean, strayed} \subseteq BOOLEAN /\ store \in [Query -> SUBSET Doc]
    BY <2>1 DEF Typed
  <2> QED BY <2>2, <2>3, <2>4, <2>5 DEF TypeOK
<1> QED BY <1>1, Invariance, PTL

\* QueryWidget, OutputItemContentWidget, Notifier: whatever answers, pages, views,
\* threads and dialogs overtake each other, a text is made of its page's documents,
\* pages lie within their queries as long as none strayed, the popup means work under
\* way, and a dialog opened in an idle tab keeps its view.
THEOREM TabsTruthful == Spec => []TabTruthful
<1>1. IInv => TabTruthful
  <2> SUFFICES ASSUME IInv PROVE TabTruthful
    OBVIOUS
  <2>1. TextFaithful
    <3> SUFFICES ASSUME NEW k \in DOMAIN items, "text" \in items[k].ready, items[k].docs # <<>>
                 PROVE  IsPrefix(items[k].text, items[k].docs)
      BY DEF TextFaithful
    <3> DEFINE docs == items[k].docs
               n == items[k].thread.next - 1
    <3>1. items[k] \in Item /\ TextSound(items[k])
      BY DEF IInv, Typed
    <3>2. docs \in Seq(Doc \cup {0})
      BY <3>1 DEF Item, DocSeq
    <3>3. items[k].thread \in Thread /\ items[k].thread.next <= Len(docs) + 1 /\ items[k].text = SubSeq(docs, 1, n)
      BY <3>1 DEF TextSound
    <3>4. n \in 0 .. Len(docs)
      BY <3>2, <3>3 DEF Thread
    <3> HIDE DEF docs, n
    <3>5. \A i \in 1 .. n : docs[i] \in Doc \cup {0}
      BY <3>2, <3>4
    <3>6. SubSeq(docs, 1, n) \in Seq(Doc \cup {0}) /\ Len(SubSeq(docs, 1, n)) = n
      BY <3>4, <3>5, SubSeqProperties
    <3>7. SubSeq(SubSeq(docs, 1, n), 1, n) = SubSeq(docs, 1, n)
      BY <3>6, SubSeqFull
    <3> QED BY <3>2, <3>3, <3>4, <3>6, <3>7 DEF IsPrefix, docs
  <2>2. PageWithinQuery
    BY DEF IInv, PagesSound, PageSound, PageWithinQuery
  <2>3. ProgressOnlyWhilePending
    BY DEF IInv, ProgressSound, Pending, ProgressOnlyWhilePending
  <2>4. DialogKeepsView
    BY DEF IInv, DialogSound
  <2> QED BY <2>1, <2>2, <2>3, <2>4 DEF TabTruthful, PartsFaithful
<1> QED BY <1>1, Invariance, PTL

-----------------------------------------------------------------------------
(* A tab of one part is fresh at rest.  While no answer was an error and no     *)
(* dialog was opened in a busy tab, the changes of documents come before all    *)
(* else that is under way, and the part shows what the database holds, or what  *)
(* will correct it is under way.                                                *)

HasChange(messages) == \E m \in ToSet(messages) : m.type \in Change
AllChanges(messages) == \A m \in ToSet(messages) : m.type \in Change

ChangesFirst(messages) ==
  \A j \in DOMAIN messages : messages[j].type \in Change => \A i \in 1 .. j : messages[i].type \in Change

\* A request, or its answer, after which the first part shows what the database holds
\* or an error was met: a script, a page of the first part, or a change that is
\* published, of several removals the first.
Published(message) == message.type = "remove" => message.index = 0

CorrectingRequest(r) ==
  \/ r.type = "script"
  \/ r.type = "query" /\ r.index = 1
  \/ r.type \in Change /\ Published(r)

CorrectingReply(r) ==
  \/ r.type = "results"
  \/ r.type = "page" /\ r.index = 1
  \/ r.type \in Change /\ (r.error \/ Published(r))

Corrected == \/ \E r \in ToSet(requests) : CorrectingRequest(r)
             \/ \E r \in ToSet(replies) : CorrectingReply(r)

\* An answer that holds documents holds those that the database holds.
CurrentReply(r) ==
  ~ r.error =>
    /\ r.type = "page" /\ r.info # NULL => r.docs = Page(store[r.info.query], r.info.skip, r.info.limit)
    /\ r.type = "results" =>
         \A k \in DOMAIN r.results : r.results[k].query \in Query => r.results[k].docs = FirstPage(r.results[k].query)

OnePartShown == Len(items) = 1 /\ items[1].info # NULL

Settling ==
  /\ ChangesFirst(requests) /\ ChangesFirst(replies)
  /\ HasChange(requests) => AllChanges(replies) /\ Corrected
  /\ \A r \in ToSet(replies) : CurrentReply(r)
  /\ HasChange(requests) \/ HasChange(replies) \/ dialog # NULL => notifiers # <<>>
  /\ dialog # NULL => dialog.idle
  /\ OnePartShown => Fresh(items[1]) \/ Corrected

\* A part that shows a tree or a table has one, and so a Notifier.
ViewReady(item) == item.hasDocs /\ ViewOf(item, item.view) \in View => item.ready \cap View # {}

FInv == /\ \A k \in DOMAIN items : ViewReady(items[k])
        /\ dialog # NULL => dialog.docs # {}
        /\ clean /\ ~ crashed => Settling

\* Queues: what is appended comes last, and the head first.
LEMMA AppendElements ==
  ASSUME NEW S, NEW ms \in Seq(S), NEW m \in S
  PROVE  /\ ToSet(Append(ms, m)) = ToSet(ms) \cup {m}
         /\ ChangesFirst(ms) /\ (m.type \in Change => AllChanges(ms)) => ChangesFirst(Append(ms, m))
<1>1. /\ Append(ms, m) \in Seq(S) /\ Len(ms) \in Nat
      /\ DOMAIN ms = 1 .. Len(ms) /\ DOMAIN Append(ms, m) = 1 .. Len(ms) + 1
      /\ \A i \in 1 .. Len(ms) : Append(ms, m)[i] = ms[i]
      /\ Append(ms, m)[Len(ms) + 1] = m
  BY AppendProperties, LenProperties
<1>2. /\ \A i \in DOMAIN Append(ms, m) : i \in DOMAIN ms \/ i = Len(ms) + 1
      /\ DOMAIN ms \subseteq DOMAIN Append(ms, m) /\ Len(ms) + 1 \in DOMAIN Append(ms, m)
      /\ \A i \in DOMAIN ms : Append(ms, m)[i] = ms[i]
  BY <1>1
<1>3. ToSet(Append(ms, m)) = ToSet(ms) \cup {m}
  BY <1>1, <1>2 DEF ToSet
<1>4. ASSUME ChangesFirst(ms), m.type \in Change => AllChanges(ms),
             NEW j \in DOMAIN Append(ms, m), Append(ms, m)[j].type \in Change, NEW i \in 1 .. j
      PROVE  Append(ms, m)[i].type \in Change
  <2>1. CASE j \in DOMAIN ms
    <3>1. i \in 1 .. Len(ms) /\ Append(ms, m)[i] = ms[i] /\ Append(ms, m)[j] = ms[j]
      BY <1>1, <2>1
    <3> QED BY <1>4, <2>1, <3>1 DEF ChangesFirst
  <2>2. CASE j = Len(ms) + 1
    <3>1. m.type \in Change /\ AllChanges(ms)
      BY <1>1, <1>4, <2>2
    <3>2. i \in DOMAIN Append(ms, m)
      BY <1>1, <2>2
    <3> QED BY <1>1, <1>2, <3>1, <3>2 DEF AllChanges, ToSet
  <2> QED BY <1>2, <2>1, <2>2
<1> QED BY <1>3, <1>4 DEF ChangesFirst

LEMMA TailElements ==
  ASSUME NEW S, NEW ms \in Seq(S), ms # <<>>
  PROVE  /\ ToSet(ms) = {Head(ms)} \cup ToSet(Tail(ms))
         /\ ChangesFirst(ms) => ChangesFirst(Tail(ms)) /\ (Head(ms).type \notin Change => ~ HasChange(ms))
<1>1. /\ Tail(ms) \in Seq(S) /\ Len(ms) \in Nat /\ Len(ms) > 0 /\ Head(ms) = ms[1]
      /\ DOMAIN ms = 1 .. Len(ms) /\ DOMAIN Tail(ms) = 1 .. Len(ms) - 1
      /\ \A i \in 1 .. Len(ms) - 1 : Tail(ms)[i] = ms[i + 1]
  BY HeadTailProperties, LenProperties
<1>2. /\ \A i \in DOMAIN Tail(ms) : i + 1 \in DOMAIN ms /\ Tail(ms)[i] = ms[i + 1]
      /\ 1 \in DOMAIN ms
  BY <1>1
<1>3. \A i \in DOMAIN ms : i = 1 \/ (i - 1 \in DOMAIN Tail(ms) /\ Tail(ms)[i - 1] = ms[i])
  BY <1>1
<1>4. ToSet(ms) = {Head(ms)} \cup ToSet(Tail(ms))
  <2>1. ASSUME NEW x \in ToSet(ms) PROVE x \in {Head(ms)} \cup ToSet(Tail(ms))
    <3>1. PICK i \in DOMAIN ms : x = ms[i]
      BY DEF ToSet
    <3> QED BY <1>1, <1>3, <3>1 DEF ToSet
  <2>2. ASSUME NEW x \in ToSet(Tail(ms)) PROVE x \in ToSet(ms)
    <3>1. PICK i \in DOMAIN Tail(ms) : x = Tail(ms)[i]
      BY DEF ToSet
    <3> QED BY <1>2, <3>1 DEF ToSet
  <2>3. Head(ms) \in ToSet(ms)
    BY <1>1, <1>2 DEF ToSet
  <2> QED BY <2>1, <2>2, <2>3
<1>5. ASSUME ChangesFirst(ms), NEW j \in DOMAIN Tail(ms), Tail(ms)[j].type \in Change, NEW i \in 1 .. j
      PROVE  Tail(ms)[i].type \in Change
  <2>1. /\ j + 1 \in DOMAIN ms /\ Tail(ms)[j] = ms[j + 1]
        /\ i + 1 \in 1 .. j + 1 /\ Tail(ms)[i] = ms[i + 1]
    BY <1>1, <1>2
  <2> QED BY <1>5, <2>1 DEF ChangesFirst
<1>6. ASSUME ChangesFirst(ms), HasChange(ms) PROVE Head(ms).type \in Change
  <2>1. PICK j \in DOMAIN ms : ms[j].type \in Change
    BY <1>6 DEF HasChange, ToSet
  <2>2. 1 \in 1 .. j
    BY <1>1
  <2> QED BY <1>1, <1>6, <2>1, <2>2 DEF ChangesFirst
<1> QED BY <1>4, <1>5, <1>6 DEF ChangesFirst

LEMMA ConcatChanges ==
  ASSUME NEW S, NEW a \in Seq(S), NEW b \in Seq(S), ChangesFirst(a), ~ HasChange(b)
  PROVE  ChangesFirst(a \o b)
<1>1. /\ Len(a) \in Nat /\ Len(b) \in Nat
      /\ DOMAIN a = 1 .. Len(a) /\ DOMAIN b = 1 .. Len(b) /\ DOMAIN (a \o b) = 1 .. Len(a) + Len(b)
      /\ \A i \in 1 .. Len(a) + Len(b) : (a \o b)[i] = IF i <= Len(a) THEN a[i] ELSE b[i - Len(a)]
  BY ConcatProperties, LenProperties
<1>2. ASSUME NEW j \in DOMAIN (a \o b), (a \o b)[j].type \in Change, NEW i \in 1 .. j
      PROVE  (a \o b)[i].type \in Change
  <2>1. j <= Len(a)
    <3> SUFFICES ASSUME ~ (j <= Len(a)) PROVE FALSE
      OBVIOUS
    <3>1. j - Len(a) \in DOMAIN b /\ (a \o b)[j] = b[j - Len(a)]
      BY <1>1
    <3> QED BY <1>2, <3>1 DEF HasChange, ToSet
  <2>2. j \in DOMAIN a /\ (a \o b)[j] = a[j] /\ (a \o b)[i] = a[i]
    BY <1>1, <2>1
  <2> QED BY <1>2, <2>2 DEF ChangesFirst
<1> QED BY <1>2 DEF ChangesFirst

-----------------------------------------------------------------------------

LEMMA InitFresh == Init => FInv
<1> SUFFICES ASSUME Init PROVE FInv
  OBVIOUS
<1>1. items = <<>> /\ replies = <<>> /\ dialog = NULL /\ requests = <<ExecuteScriptRequest>>
  BY DEF Init
<1>2. ToSet(requests) = {ExecuteScriptRequest} /\ ToSet(replies) = {}
  BY <1>1 DEF ToSet
<1>3. ExecuteScriptRequest.type = "script" /\ "script" \notin Change
  BY DEF ExecuteScriptRequest, Change
<1>4. ChangesFirst(requests) /\ ChangesFirst(replies)
  BY <1>1, <1>3 DEF ChangesFirst
<1>5. ~ HasChange(requests) /\ ~ HasChange(replies)
  BY <1>2, <1>3 DEF HasChange
<1>6. ~ OnePartShown
  BY <1>1 DEF OnePartShown
<1> QED BY <1>1, <1>2, <1>4, <1>5, <1>6 DEF FInv, Settling

\* execute(), refresh(): a request that is no change comes last.
LEMMA AskFresh ==
  ASSUME IInv, FInv, NEW r \in Request, r.type \notin Change, requests' = Append(requests, r),
         UNCHANGED <<items, notifiers, dialog, crashed, replies, store, clean>>, dialog = NULL
  PROVE  FInv'
<1>1. requests \in Seq(Request)
  BY DEF IInv, Typed
<1>2. ToSet(requests') = ToSet(requests) \cup {r} /\ (ChangesFirst(requests) => ChangesFirst(requests'))
  BY <1>1, AppendElements
<1>3. HasChange(requests') => HasChange(requests)
  BY <1>2 DEF HasChange
<1>4. Corrected => Corrected'
  BY <1>2 DEF Corrected
<1>5. \A m : CurrentReply(m)' <=> CurrentReply(m)
  BY DEF CurrentReply, FirstPage
<1>6. OnePartShown' <=> OnePartShown
  BY DEF OnePartShown
<1>7. Fresh(items[1])' <=> Fresh(items[1])
  BY DEF Fresh, FirstPage
<1>8. Settling => Settling'
  BY <1>2, <1>3, <1>4, <1>5, <1>6, <1>7 DEF Settling
<1> QED BY <1>8 DEF FInv

LEMMA ShowViewReady ==
  ASSUME NEW item \in Item, NEW mode \in Mode, TextSound(item) PROVE ViewReady(showView(item, mode))
<1> DEFINE view == ViewOf(item, mode)
           new == showView(item, mode)
<1>1. CASE mode = "text"
  <2>1. new = showText(item)
    BY <1>1 DEF showView, ViewOf
  <2>2. showText(item).view = "text"
    BY DEF showText, PrepareText, Item
  <2> QED BY <2>1, <2>2 DEF ViewReady, ViewOf, View
<1>2. CASE mode # "text" /\ item.hasDocs
  <2>1. view # "text"
    BY <1>2 DEF Mode, ViewOf
  <2>2. new = [item EXCEPT !.view = mode, !.ready = @ \cup {view}]
    BY <1>2, <2>1 DEF showView
  <2>3. view \in new.ready
    <3> HIDE DEF view, new
    <3> QED BY <2>2 DEF Item
  <2>4. ViewOf(new, new.view) = view
    BY <2>2 DEF Item, ViewOf
  <2> QED BY <2>3, <2>4 DEF ViewReady
<1>3. CASE mode # "text" /\ ~ item.hasDocs
  <2>1. new.hasDocs = item.hasDocs
    BY ShowViewSound DEF SamePage
  <2> QED BY <1>3, <2>1 DEF ViewReady
<1> QED BY <1>1, <1>2, <1>3

\* Another view of the same pages leaves all else as it is.
LEMMA ViewsFresh ==
  ASSUME IInv, IInv', FInv, DOMAIN items' = DOMAIN items,
         \A k \in DOMAIN items : SamePage(items[k], items'[k]) /\ ViewReady(items'[k]),
         UNCHANGED <<dialog, crashed, requests, replies, store, clean>>
  PROVE  FInv'
<1>1. /\ items \in Seq(Item) /\ items' \in Seq(Item)
      /\ ToSet(notifiers) = NotifiersOf(items) /\ ToSet(notifiers') = NotifiersOf(items')
  BY DEF IInv, Typed
<1>2. Len(items') = Len(items) /\ (Len(items) = 1 => 1 \in DOMAIN items)
  BY <1>1
<1>3. ToSet(notifiers) \subseteq ToSet(notifiers')
  BY <1>1 DEF NotifiersOf, SamePage
<1>4. notifiers # <<>> => notifiers' # <<>>
  <2>1. ToSet(<<>>) = {}
    BY DEF ToSet
  <2>2. ASSUME notifiers # <<>> PROVE ToSet(notifiers) # {}
    <3>1. notifiers \in Seq(Nat \X View)
      BY DEF IInv, Typed
    <3>2. 1 \in DOMAIN notifiers
      BY <2>2, <3>1
    <3> QED BY <3>2 DEF ToSet
  <2> QED BY <1>3, <2>1, <2>2
<1>5. OnePartShown' => OnePartShown /\ (Fresh(items[1]) => Fresh(items[1])')
  <2> SUFFICES ASSUME OnePartShown' PROVE OnePartShown /\ (Fresh(items[1]) => Fresh(items[1])')
    OBVIOUS
  <2>1. Len(items) = 1 /\ SamePage(items[1], items'[1])
    BY <1>2 DEF OnePartShown
  <2> QED BY <2>1 DEF OnePartShown, SamePage, Fresh, FirstPage
<1>6. \A m : CurrentReply(m)' <=> CurrentReply(m)
  BY DEF CurrentReply, FirstPage
<1>7. Corrected' <=> Corrected
  BY DEF Corrected
<1>8. Settling => Settling'
  BY <1>4, <1>5, <1>6, <1>7 DEF Settling
<1> QED BY <1>8 DEF FInv

LEMMA clickViewFresh ==
  ASSUME IInv, IInv', FInv, NEW k \in DOMAIN items, NEW mode \in Mode, clickView(k, mode) PROVE FInv'
<1> DEFINE new == showView(items[k], mode)
<1>1. items \in Seq(Item) /\ items[k] \in Item /\ TextSound(items[k])
  BY DEF IInv, Typed
<1>2. SamePage(items[k], new) /\ ViewReady(new)
  BY <1>1, ShowViewSound, ShowViewReady
<1>3. items' = [items EXCEPT ![k] = new] /\ UNCHANGED <<dialog, crashed, requests, replies, store, clean>>
  BY DEF clickView
<1> HIDE DEF new
<1>4. DOMAIN items' = DOMAIN items /\ items'[k] = new /\ \A j \in DOMAIN items : j # k => items'[j] = items[j]
  BY <1>1, <1>3
<1>5. \A j \in DOMAIN items : SamePage(items[j], items'[j]) /\ ViewReady(items'[j])
  BY <1>2, <1>4 DEF FInv, SamePage
<1> QED BY <1>3, <1>4, <1>5, ViewsFresh

LEMMA enterModeFresh ==
  ASSUME IInv, IInv', FInv, NEW mode \in Mode, enterMode(mode) PROVE FInv'
<1>1. \A k \in DOMAIN items : items[k] \in Item /\ TextSound(items[k])
  BY DEF IInv, Typed
<1>2. \A k \in DOMAIN items : SamePage(items[k], showView(items[k], mode)) /\ ViewReady(showView(items[k], mode))
  BY <1>1, ShowViewSound, ShowViewReady
<1>3. items' = [k \in DOMAIN items |-> showView(items[k], mode)] /\ UNCHANGED <<dialog, crashed, requests, replies, store, clean>>
  BY DEF enterMode
<1> QED BY <1>2, <1>3, ViewsFresh

LEMMA ThreadsFresh == ASSUME IInv, IInv', FInv, Threads PROVE FInv'
<1>1. PICK k \in DOMAIN items : jsonPartReady(k) \/ \E t \in items[k].old : stalePartReady(k, t)
  BY DEF Threads
<1>2. items \in Seq(Item) /\ items[k] \in Item /\ ViewReady(items[k])
  BY DEF IInv, Typed, FInv
<1>3. UNCHANGED <<dialog, crashed, requests, replies, store, clean>>
  BY <1>1 DEF jsonPartReady, stalePartReady
<1>4. PICK new : /\ items' = [items EXCEPT ![k] = new] /\ SamePage(items[k], new)
                 /\ new.view = items[k].view /\ new.ready = items[k].ready
  <2>1. CASE jsonPartReady(k)
    <3> DEFINE item == items[k]
               t == item.thread
               new == [item EXCEPT !.thread = [t EXCEPT !.next = @ + 1], !.text = Appended(item, t.docs[t.next])]
    <3>1. items' = [items EXCEPT ![k] = new]
      BY <2>1 DEF jsonPartReady
    <3>2. SamePage(item, new) /\ new.view = item.view /\ new.ready = item.ready
      <4> HIDE DEF item, t
      <4> QED BY <1>2 DEF item, Item, SamePage
    <3> QED BY <3>1, <3>2
  <2>2. CASE \E t \in items[k].old : stalePartReady(k, t)
    <3>1. PICK t \in items[k].old : stalePartReady(k, t)
      BY <2>2
    <3> DEFINE item == items[k]
               new == [item EXCEPT !.old = @ \ {t}]
    <3>2. items' = [items EXCEPT ![k] = new]
      BY <3>1 DEF stalePartReady
    <3>3. SamePage(item, new) /\ new.view = item.view /\ new.ready = item.ready
      BY <1>2 DEF Item, SamePage
    <3> QED BY <3>2, <3>3
  <2> QED BY <1>1, <2>1, <2>2
<1>5. DOMAIN items' = DOMAIN items /\ items'[k] = new /\ \A j \in DOMAIN items : j # k => items'[j] = items[j]
  BY <1>2, <1>4
<1>6. ViewReady(new)
  BY <1>2, <1>4 DEF ViewReady, SamePage, ViewOf
<1>7. \A j \in DOMAIN items : SamePage(items[j], items'[j]) /\ ViewReady(items'[j])
  BY <1>4, <1>5, <1>6 DEF FInv, SamePage
<1> QED BY <1>3, <1>5, <1>7, ViewsFresh

\* While all is in order a dialog is open only in an idle tab.
LEMMA BusyNoDialog ==
  ASSUME IInv, FInv, clean, ~ crashed, requests # <<>> \/ replies # <<>> PROVE dialog = NULL
  BY DEF IInv, DialogSound, FInv, Settling

LEMMA openDialogFresh ==
  ASSUME IInv, FInv, NEW k \in DOMAIN items, NEW op \in Change, NEW docs \in SUBSET Doc, openDialog(k, op, docs)
  PROVE  FInv'
<1>1. /\ dialog' = [part |-> k, op |-> op, docs |-> docs, query |-> items[k].info.query,
                    idle |-> requests = <<>> /\ replies = <<>>]
      /\ clean' = (clean /\ dialog'.idle) /\ docs # {}
      /\ UNCHANGED <<items, notifiers, crashed, requests, replies, store>>
      /\ items[k].hasDocs /\ ViewOf(items[k], items[k].view) \in View /\ dialog = NULL
  BY DEF openDialog, tabVars, UserMay, View
<1>2. dialog'.docs # {}
  BY <1>1
<1>3. clean' => dialog'.idle /\ clean
  BY <1>1
<1>4. notifiers # <<>>
  <2>1. PICK v \in View : v \in items[k].ready
    BY <1>1 DEF FInv, ViewReady
  <2>2. <<k, v>> \in ToSet(notifiers)
    BY <2>1 DEF IInv, Typed, NotifiersOf
  <2> QED BY <2>2 DEF ToSet
<1>5. \A m : CurrentReply(m)' <=> CurrentReply(m)
  BY <1>1 DEF CurrentReply, FirstPage
<1>6. (OnePartShown' <=> OnePartShown) /\ (Fresh(items[1])' <=> Fresh(items[1])) /\ (Corrected' <=> Corrected)
  BY <1>1 DEF OnePartShown, Fresh, FirstPage, Corrected
<1>7. Settling /\ dialog'.idle => Settling'
  BY <1>1, <1>4, <1>5, <1>6 DEF Settling
<1> QED BY <1>1, <1>2, <1>3, <1>7 DEF FInv

LEMMA closeDialogFresh == ASSUME IInv, FInv, closeDialog PROVE FInv'
<1>1. /\ dialog \in Dialog /\ dialog # NULL /\ dialog' = NULL /\ dialog.docs # {} /\ dialog.docs \subseteq Doc
      /\ UNCHANGED <<items, notifiers, crashed, replies, store, clean>>
      /\ \/ requests' = requests
         \/ \E n \in 1 .. Cardinality(dialog.docs) : requests' = requests \o DialogRequests(n)
  BY DEF closeDialog, IInv, Typed, Dialog, FInv, tabVars
<1>2. SUFFICES ASSUME clean, ~ crashed PROVE Settling'
  BY <1>1 DEF FInv
<1>3. Settling /\ requests = <<>> /\ replies = <<>>
  BY <1>1, <1>2 DEF FInv, Settling, IInv, DialogSound
<1>4. \A m : CurrentReply(m)' <=> CurrentReply(m)
  BY <1>1 DEF CurrentReply, FirstPage
<1>5. (OnePartShown' <=> OnePartShown) /\ (Fresh(items[1])' <=> Fresh(items[1]))
  BY <1>1 DEF OnePartShown, Fresh, FirstPage
<1>6. CASE requests' = requests
  <2>1. Corrected' <=> Corrected
    BY <1>1, <1>6 DEF Corrected
  <2> QED BY <1>1, <1>3, <1>4, <1>5, <1>6, <2>1 DEF Settling
<1>7. ASSUME NEW n \in 1 .. Cardinality(dialog.docs), requests' = requests \o DialogRequests(n) PROVE Settling'
  <2> DEFINE docs == InOrder(dialog.docs)
             asked == DialogRequests(n)
  <2>2. IsFiniteSet(dialog.docs) /\ Cardinality(dialog.docs) \in Nat
    BY <1>1, ResultsAssumption, FS_Subset, FS_CardinalityType
  <2>3. n \in Nat /\ 1 \in 1 .. n
    BY <2>2
  <2>4. asked = [i \in 1 .. n |-> DocumentRequest(dialog.op, dialog.query, docs[i], i - 1)]
    BY DEF DialogRequests
  <2> HIDE DEF docs, asked
  <2>5. \A i \in 1 .. n : asked[i].type \in Change /\ asked[i].index = i - 1
    BY <1>1, <2>4 DEF DocumentRequest, Dialog
  <2>6. DOMAIN asked = 1 .. n /\ Len(asked) = n
    BY <2>3, <2>4
  <2>7. requests' = asked
    <3>1. asked \in Seq({asked[i] : i \in 1 .. n})
      BY <2>3, <2>4, <2>6
    <3> QED BY <1>3, <1>7, <3>1, ConcatEmptySeq DEF asked
  <2>8. ChangesFirst(requests')
    BY <2>3, <2>5, <2>6, <2>7 DEF ChangesFirst
  <2>9. Corrected'
    <3>1. asked[1] \in ToSet(requests') /\ CorrectingRequest(asked[1])
      BY <2>3, <2>5, <2>6, <2>7 DEF ToSet, CorrectingRequest, Published
    <3> QED BY <3>1 DEF Corrected
  <2>10. AllChanges(replies')
    BY <1>1, <1>3 DEF AllChanges, ToSet
  <2> QED BY <1>1, <1>3, <1>4, <2>8, <2>9, <2>10 DEF Settling
<1> QED BY <1>1, <1>6, <1>7

\* The worker answers the oldest request.  Only a change moves the store, and then all
\* answers under way are to changes.
LEMMA AnswerFresh ==
  ASSUME IInv, FInv, requests # <<>>, ~ crashed, NEW reply \in Reply, Answer(reply),
         CorrectingRequest(Head(requests)) => CorrectingReply(reply),
         Head(requests).type \in Change <=> reply.type \in Change,
         CurrentReply(reply)', store' = store \/ Head(requests).type \in Change
  PROVE  FInv'
<1>1. /\ UNCHANGED <<items, notifiers, dialog, crashed, clean>>
      /\ requests' = Tail(requests) /\ replies' = Append(replies, reply)
      /\ requests \in Seq(Request) /\ replies \in Seq(Reply)
  BY DEF Answer, tabVars, IInv, Typed
<1>2. SUFFICES ASSUME clean PROVE Settling'
  BY <1>1 DEF FInv
<1>3. Settling /\ dialog = NULL
  BY <1>2, BusyNoDialog DEF FInv
<1> DEFINE r == Head(requests)
<1>4. /\ ToSet(requests) = {r} \cup ToSet(requests') /\ ChangesFirst(requests')
      /\ HasChange(requests) => r.type \in Change
  BY <1>1, <1>3, TailElements DEF Settling
<1>5. /\ ToSet(replies') = ToSet(replies) \cup {reply}
      /\ ChangesFirst(replies) /\ (reply.type \in Change => AllChanges(replies)) => ChangesFirst(replies')
  BY <1>1, AppendElements
<1> HIDE DEF r
<1>6. r.type \in Change => HasChange(requests) /\ AllChanges(replies) /\ Corrected
  BY <1>3, <1>4 DEF HasChange, Settling
<1>7. ChangesFirst(replies')
  BY <1>3, <1>5, <1>6 DEF Settling, r
<1>8. Corrected => Corrected'
  BY <1>4, <1>5 DEF Corrected, r
<1>9. HasChange(requests') => HasChange(requests)
  BY <1>4 DEF HasChange
<1>10. HasChange(requests') => AllChanges(replies')
  BY <1>4, <1>5, <1>6, <1>9 DEF AllChanges, r
<1>11. HasChange(replies') => HasChange(replies) \/ r.type \in Change
  BY <1>5 DEF HasChange, r
<1>12. ASSUME NEW m \in ToSet(replies') PROVE CurrentReply(m)'
  <2>1. CASE m = reply
    BY <2>1
  <2>2. CASE m \in ToSet(replies) /\ store' = store
    <3>1. CurrentReply(m)
      BY <1>3, <2>2 DEF Settling
    <3> QED BY <2>2, <3>1 DEF CurrentReply, FirstPage
  <2>3. CASE m \in ToSet(replies) /\ r.type \in Change
    <3>1. m.type \in Change
      BY <1>6, <2>3 DEF AllChanges
    <3> QED BY <3>1 DEF CurrentReply, Change
  <2> QED BY <1>5, <2>1, <2>2, <2>3 DEF r
<1>13. OnePartShown' => Fresh(items[1])' \/ Corrected'
  <2>1. CASE store' = store
    BY <1>1, <1>3, <1>8, <2>1 DEF Settling, OnePartShown, Fresh, FirstPage
  <2>2. CASE r.type \in Change
    BY <1>6, <1>8, <2>2
  <2> QED BY <2>1, <2>2 DEF r
<1>14. HasChange(requests') \/ HasChange(replies') => notifiers' # <<>>
  BY <1>1, <1>3, <1>6, <1>9, <1>11 DEF Settling
<1>15. HasChange(requests') => Corrected'
  BY <1>3, <1>8, <1>9 DEF Settling
<1> QED BY <1>1, <1>3, <1>4, <1>7, <1>10, <1>12, <1>13, <1>14, <1>15 DEF Settling

LEMMA ExecuteScriptFresh == ASSUME IInv, FInv, ExecuteScript PROVE FInv'
<1>1. /\ requests # <<>> /\ ~ crashed /\ Head(requests).type = "script" /\ store' = store
      /\ store \in [Query -> SUBSET Doc]
  BY DEF ExecuteScript, WorkerMay, IInv, Typed
<1>2. PICK error \in BOOLEAN, results \in Seq(Result) :
        /\ Answer(ExecuteScriptResponse(error, results))
        /\ \A k \in DOMAIN results : results[k].query \in Query => results[k].docs = FirstPage(results[k].query)
  <2>1. CASE Answer(ExecuteScriptResponse(TRUE, <<>>))
    <3>1. <<>> \in Seq(Result) /\ TRUE \in BOOLEAN /\ DOMAIN <<>> = {}
      OBVIOUS
    <3> QED BY <2>1, <3>1
  <2>2. CASE \E n \in 0 .. MaxParts : \E sources \in [1 .. n -> Source] :
               Answer(ExecuteScriptResponse(FALSE, [k \in 1 .. n |-> Printed(sources[k])]))
    <3>1. PICK n \in 0 .. MaxParts : \E sources \in [1 .. n -> Source] :
               Answer(ExecuteScriptResponse(FALSE, [k \in 1 .. n |-> Printed(sources[k])]))
      BY <2>2
    <3>2. PICK sources \in [1 .. n -> Source] :
               Answer(ExecuteScriptResponse(FALSE, [k \in 1 .. n |-> Printed(sources[k])]))
      BY <3>1
    <3> DEFINE results == [k \in 1 .. n |-> Printed(sources[k])]
    <3>3. n \in Nat /\ \A k \in 1 .. n : Printed(sources[k]) \in Result
      BY <1>1, PrintedTyped, ResultsAssumption
    <3>4. results \in Seq(Result) /\ FALSE \in BOOLEAN /\ DOMAIN results = 1 .. n
      BY <3>3
    <3>5. ASSUME NEW k \in 1 .. n, results[k].query \in Query PROVE results[k].docs = FirstPage(results[k].query)
      <4>1. results[k].query = sources[k] /\ sources[k] \notin {"print", "value", "stats"}
        BY <3>5, ResultsAssumption DEF Printed
      <4> QED BY <4>1 DEF Printed
    <3> HIDE DEF results
    <3> QED BY <3>2, <3>4, <3>5 DEF results
  <2> QED BY <2>1, <2>2 DEF ExecuteScript
<1> DEFINE reply == ExecuteScriptResponse(error, results)
<1>3. reply \in Reply /\ reply.type = "results" /\ reply.results = results
  BY DEF Reply, ExecuteScriptResponse
<1> HIDE DEF reply
<1>4. CurrentReply(reply)'
  BY <1>1, <1>2, <1>3 DEF CurrentReply, FirstPage
<1>5. CorrectingReply(reply) /\ Head(requests).type \notin Change /\ reply.type \notin Change
  BY <1>1, <1>3 DEF CorrectingReply, Change
<1> QED BY <1>1, <1>2, <1>3, <1>4, <1>5, AnswerFresh DEF reply

LEMMA ExecuteQueryFresh == ASSUME IInv, FInv, ExecuteQuery PROVE FInv'
<1> DEFINE r == Head(requests)
           docs == IF r.info = NULL THEN <<>> ELSE Page(store[r.info.query], r.info.skip, r.info.limit)
<1>1. requests # <<>> /\ ~ crashed /\ r.type = "query" /\ store' = store /\ requests \in Seq(Request)
  BY DEF ExecuteQuery, WorkerMay, IInv, Typed
<1>2. r \in Request
  BY <1>1, TailMessages
<1>3. r.index \in Nat /\ r.info \in Info
  BY <1>1, <1>2 DEF Request, ExecuteScriptRequest, Change
<1>4. docs \in DocSeq /\ <<>> \in DocSeq
  <2>1. <<>> \in DocSeq
    BY DEF DocSeq
  <2>2. ASSUME r.info # NULL PROVE docs \in DocSeq
    <3>1. r.info.query \in Query /\ r.info.skip \in Nat /\ r.info.limit \in Nat \cup {-1}
      BY <1>3, <2>2 DEF Info
    <3>2. store[r.info.query] \subseteq Doc
      BY <3>1 DEF IInv, Typed
    <3>3. docs = Page(store[r.info.query], r.info.skip, r.info.limit)
      BY <2>2
    <3> HIDE DEF r, docs
    <3> QED BY <3>1, <3>2, <3>3, PageTyped
  <2> QED BY <2>1, <2>2
<1>5. \/ Answer(ExecuteQueryResponse(r, TRUE, <<>>))
      \/ Answer(ExecuteQueryResponse(r, FALSE, docs))
  BY DEF ExecuteQuery
<1>6. r.info # NULL => docs = Page(store[r.info.query], r.info.skip, r.info.limit)
  OBVIOUS
<1> HIDE DEF r, docs
<1>7. PICK error \in BOOLEAN, loaded \in DocSeq :
        Answer(ExecuteQueryResponse(r, error, loaded)) /\ (error \/ loaded = docs)
  BY <1>4, <1>5
<1>8. PICK reply \in Reply :
        /\ Answer(reply) /\ reply.type = "page" /\ reply.info = r.info /\ reply.index = r.index
        /\ reply.error = error /\ reply.docs = loaded
  <2>1. /\ ExecuteQueryResponse(r, error, loaded) \in Reply
        /\ ExecuteQueryResponse(r, error, loaded).type = "page"
        /\ ExecuteQueryResponse(r, error, loaded).info = r.info
        /\ ExecuteQueryResponse(r, error, loaded).index = r.index
        /\ ExecuteQueryResponse(r, error, loaded).error = error
        /\ ExecuteQueryResponse(r, error, loaded).docs = loaded
    BY <1>3 DEF Reply, ExecuteQueryResponse
  <2> QED BY <1>7, <2>1
<1>9. CurrentReply(reply)'
  BY <1>1, <1>6, <1>7, <1>8 DEF CurrentReply
<1>10. r.type \notin Change /\ reply.type \notin Change /\ (CorrectingRequest(r) => CorrectingReply(reply))
  BY <1>1, <1>8 DEF CorrectingRequest, CorrectingReply, Change
<1> QED BY <1>1, <1>8, <1>9, <1>10, AnswerFresh DEF r

LEMMA ChangeDocumentFresh == ASSUME IInv, FInv, ChangeDocument PROVE FInv'
<1> DEFINE r == Head(requests)
<1>1. requests # <<>> /\ ~ crashed /\ r.type \in Change /\ requests \in Seq(Request)
  BY DEF ChangeDocument, WorkerMay, IInv, Typed, Change
<1>2. r \in Request
  BY <1>1, TailMessages
<1>3. r.index \in Nat
  BY <1>1, <1>2 DEF Request, ExecuteScriptRequest, Change
<1>4. Answer(DocumentResponse(r, TRUE)) \/ Answer(DocumentResponse(r, FALSE))
  BY DEF ChangeDocument
<1> HIDE DEF r
<1>5. PICK error \in BOOLEAN : Answer(DocumentResponse(r, error))
  BY <1>4
<1>6. PICK reply \in Reply : Answer(reply) /\ reply.type = r.type /\ reply.index = r.index
  <2>1. /\ DocumentResponse(r, error) \in Reply
        /\ DocumentResponse(r, error).type = r.type /\ DocumentResponse(r, error).index = r.index
    BY <1>1, <1>3 DEF Reply, DocumentResponse
  <2> QED BY <1>5, <2>1
<1>7. CurrentReply(reply)'
  BY <1>1, <1>6 DEF CurrentReply, Change
<1>8. CorrectingRequest(r) => CorrectingReply(reply)
  BY <1>1, <1>6 DEF CorrectingRequest, CorrectingReply, Published, Change
<1> QED BY <1>1, <1>6, <1>7, <1>8, AnswerFresh DEF r

-----------------------------------------------------------------------------

\* What is left to prove of a handler, and what it may take for granted.
LEMMA Handling ==
  ASSUME IInv, FInv, NEW types, GuiMay(types), replies' = Tail(replies), clean
  PROVE  /\ Settling /\ dialog = NULL /\ Head(replies) \in Reply /\ Head(replies).type \in types
         /\ ToSet(replies) = {Head(replies)} \cup ToSet(replies') /\ ChangesFirst(replies')
         /\ Head(replies).type \notin Change => ~ HasChange(requests) /\ ~ HasChange(replies')
<1>1. /\ replies \in Seq(Reply) /\ replies # <<>> /\ ~ crashed
      /\ Head(replies) \in Reply /\ Head(replies).type \in types
  BY HandledSound DEF IInv, Typed, GuiMay
<1>2. Settling /\ dialog = NULL
  BY <1>1, BusyNoDialog DEF FInv
<1>3. /\ ToSet(replies) = {Head(replies)} \cup ToSet(replies') /\ ChangesFirst(replies')
      /\ Head(replies).type \notin Change => ~ HasChange(replies)
  BY <1>1, <1>2, TailElements DEF Settling
<1>4. Head(replies).type \notin Change => ~ HasChange(requests)
  BY <1>2, <1>3 DEF Settling, AllChanges
<1>5. HasChange(replies') => HasChange(replies)
  BY <1>3 DEF HasChange
<1> QED BY <1>1, <1>2, <1>3, <1>4, <1>5

LEMMA PartFresh ==
  ASSUME NEW result \in Result, NEW mode \in Mode
  PROVE  /\ ViewReady(Part(result, mode)) /\ Part(result, mode).docs = result.docs
         /\ Part(result, mode).info # NULL =>
              Part(result, mode).info = FirstInfo(result.query) /\ result.query \in Query
<1> DEFINE q == result.query
           own == IF q \in Query /\ result.docs # <<>> THEN FirstInfo(q) ELSE NULL
           new == [query |-> q, docs |-> result.docs, hasDocs |-> result.docs # <<>>, info |-> own,
                   view |-> mode, ready |-> {}, text |-> <<>>, thread |-> NULL, old |-> {}]
<1>1. q \in Source /\ result.docs \in DocSeq /\ <<>> \in DocSeq
  BY DEF Result, DocSeq
<1>2. own \in Info
  <2>1. ASSUME q \in Query PROVE FirstInfo(q) \in Info
    <3>1. TextSkip[q] \in Nat /\ TextLimit[q] \in Nat /\ DefaultLimit \in Nat
      BY <2>1, ResultsAssumption
    <3> QED BY <2>1, <3>1 DEF Info, FirstInfo
  <2> QED BY <2>1 DEF Info
<1>3. new \in Item
  <2> HIDE DEF own, q
  <2> QED BY <1>1, <1>2 DEF Item
<1>4. TextSound(new)
  BY DEF TextSound
<1>5. Part(result, mode) = showView(new, mode) /\ new.docs = result.docs /\ new.info = own
  BY DEF Part
<1> HIDE DEF new
<1>6. SamePage(new, showView(new, mode)) /\ ViewReady(showView(new, mode))
  BY <1>3, <1>4, ShowViewSound, ShowViewReady
<1>7. Part(result, mode).docs = result.docs /\ Part(result, mode).info = own
  BY <1>5, <1>6 DEF SamePage
<1> QED BY <1>5, <1>6, <1>7

LEMMA UpdatedFresh ==
  ASSUME NEW item \in Item, NEW info \in Info, NEW docs \in DocSeq
  PROVE  /\ ViewReady(Updated(item, info, docs))
         /\ Updated(item, info, docs).info = info /\ Updated(item, info, docs).docs = docs
<1> DEFINE new == [item EXCEPT !.info = info, !.docs = docs, !.ready = {}]
<1>1. new \in Item /\ new.ready = {} /\ item.view \in Mode /\ new.info = info /\ new.docs = docs
  BY DEF Item
<1>2. TextSound(new)
  BY <1>1 DEF TextSound
<1>3. Updated(item, info, docs) = showView(new, item.view)
  BY DEF Updated
<1> HIDE DEF new
<1>4. SamePage(new, showView(new, item.view)) /\ ViewReady(showView(new, item.view))
  BY <1>1, <1>2, ShowViewSound, ShowViewReady
<1> QED BY <1>1, <1>3, <1>4 DEF SamePage

LEMMA ScriptExecutedFresh == ASSUME IInv, FInv, ScriptExecuted PROVE FInv'
<1> DEFINE r == Head(replies)
<1>1. /\ GuiMay({"results"}) /\ replies' = Tail(replies) /\ Present(r.results)
      /\ crashed' = (dialog # NULL) /\ clean' = (clean /\ ~ r.error)
      /\ UNCHANGED <<dialog, requests, store>>
  BY DEF ScriptExecuted
<1>2. r \in Reply /\ r.type \in {"results"}
  BY <1>1, HandledSound
<1>3. r.results \in Seq(Result) /\ r.error \in BOOLEAN
  BY <1>2 DEF Reply, Change
<1>4. /\ items' \in Seq(Item) /\ DOMAIN items' = DOMAIN r.results
      /\ \A k \in DOMAIN r.results : \E mode \in Mode : items'[k] = Part(r.results[k], mode)
  BY <1>1, <1>3, PresentSound
<1>5. ASSUME NEW k \in DOMAIN items'
      PROVE  /\ k \in DOMAIN r.results /\ ViewReady(items'[k]) /\ items'[k].docs = r.results[k].docs
             /\ items'[k].info # NULL =>
                  items'[k].info = FirstInfo(r.results[k].query) /\ r.results[k].query \in Query
  <2>1. PICK mode \in Mode : items'[k] = Part(r.results[k], mode)
    BY <1>4
  <2>2. r.results[k] \in Result
    BY <1>3, <1>4
  <2> QED BY <1>4, <2>1, <2>2, PartFresh
<1>6. ASSUME clean', ~ crashed' PROVE Settling'
  <2>1. clean /\ ~ r.error
    BY <1>1, <1>6
  <2>2. /\ Settling /\ dialog = NULL /\ ToSet(replies) = {r} \cup ToSet(replies') /\ ChangesFirst(replies')
        /\ ~ HasChange(requests) /\ ~ HasChange(replies')
    BY <1>1, <1>2, <2>1, Handling DEF Change
  <2>3. \A m : CurrentReply(m)' <=> CurrentReply(m)
    BY <1>1 DEF CurrentReply, FirstPage
  <2>4. CurrentReply(r)
    BY <2>2 DEF Settling
  <2>5. ASSUME OnePartShown' PROVE Fresh(items[1])'
    <3>1. 1 \in DOMAIN items' /\ items'[1].info # NULL
      BY <1>4, <2>5 DEF OnePartShown
    <3>2. PICK q \in Query : /\ q = r.results[1].query /\ 1 \in DOMAIN r.results
                             /\ items'[1].docs = r.results[1].docs /\ items'[1].info = FirstInfo(q)
      BY <1>5, <3>1
    <3>3. items'[1].docs = FirstPage(q)
      BY <1>2, <2>1, <2>4, <3>2 DEF CurrentReply
    <3>4. FirstPage(q)' = FirstPage(q)
      BY <1>1 DEF FirstPage
    <3>5. items'[1].info.query = q
      BY <3>2 DEF FirstInfo
    <3> QED BY <3>2, <3>3, <3>4, <3>5 DEF Fresh
  <2> QED BY <1>1, <2>2, <2>3, <2>5 DEF Settling
<1> QED BY <1>1, <1>5, <1>6 DEF FInv

LEMMA DocumentsFailedFresh == ASSUME FInv, DocumentsFailed PROVE FInv'
  BY DEF FInv, DocumentsFailed, tabVars

LEMMA DocumentListLoadedFresh == ASSUME IInv, FInv, DocumentListLoaded PROVE FInv'
<1> DEFINE r == Head(replies)
<1>1. /\ GuiMay({"page"}) /\ replies' = Tail(replies) /\ ~ r.error
      /\ UNCHANGED <<dialog, requests, store, clean>>
  BY DEF DocumentListLoaded
<1>2. r \in Reply /\ r.type \in {"page"} /\ items \in Seq(Item) /\ ~ crashed
  BY <1>1, HandledSound DEF IInv, Typed
<1>3. r.index \in Nat /\ r.info \in Info /\ r.docs \in DocSeq /\ r.type = "page"
  BY <1>2 DEF Reply, Change
<1> DEFINE new == Updated(items[r.index], r.info, r.docs)
<1>4. /\ DOMAIN items' = DOMAIN items /\ Len(items') = Len(items)
      /\ \A k \in DOMAIN items : items'[k] = IF k = r.index THEN new ELSE items[k]
  <2>1. CASE r.index \in DOMAIN items
    <3>1. items' = [items EXCEPT ![r.index] = new]
      BY <2>1 DEF DocumentListLoaded
    <3> HIDE DEF new, r
    <3> QED BY <1>2, <2>1, <3>1
  <2>2. CASE r.index \notin DOMAIN items
    <3>1. items' = items
      BY <2>2 DEF DocumentListLoaded
    <3> QED BY <2>2, <3>1
  <2> QED BY <2>1, <2>2
<1>5. r.index \in DOMAIN items => ViewReady(new) /\ new.info = r.info /\ new.docs = r.docs
  BY <1>2, <1>3, UpdatedFresh
<1> HIDE DEF new
<1>6. \A k \in DOMAIN items' : ViewReady(items'[k])
  BY <1>4, <1>5 DEF FInv
<1>7. ASSUME clean' PROVE Settling'
  <2>1. clean
    BY <1>1, <1>7
  <2>2. /\ Settling /\ dialog = NULL /\ ToSet(replies) = {r} \cup ToSet(replies') /\ ChangesFirst(replies')
        /\ ~ HasChange(requests) /\ ~ HasChange(replies')
    BY <1>1, <1>3, <2>1, Handling DEF Change
  <2>3. \A m : CurrentReply(m)' <=> CurrentReply(m)
    BY <1>1 DEF CurrentReply, FirstPage
  <2>4. CurrentReply(r)
    BY <2>2 DEF Settling
  <2>5. ASSUME OnePartShown' PROVE Fresh(items[1])' \/ Corrected'
    <3>1. Len(items) = 1 /\ 1 \in DOMAIN items /\ items'[1].info # NULL
      BY <1>2, <1>4, <2>5 DEF OnePartShown
    <3>2. CASE r.index = 1
      <4>1. items'[1].info = r.info /\ items'[1].docs = r.docs
        BY <1>4, <1>5, <3>1, <3>2
      <4>2. r.docs = Page(store[r.info.query], r.info.skip, r.info.limit)
        BY <1>1, <1>3, <2>4, <3>1, <4>1 DEF CurrentReply
      <4> QED BY <1>1, <4>1, <4>2 DEF Fresh
    <3>3. CASE r.index # 1
      <4>1. items'[1] = items[1]
        BY <1>4, <3>1, <3>3
      <4>2. ~ CorrectingReply(r)
        BY <1>3, <3>3 DEF CorrectingReply, Change
      <4>3. Corrected => Corrected'
        BY <1>1, <2>2, <4>2 DEF Corrected
      <4>4. Fresh(items[1]) => Fresh(items[1])'
        BY <1>1, <4>1 DEF Fresh, FirstPage
      <4>5. OnePartShown
        BY <3>1, <4>1 DEF OnePartShown
      <4> QED BY <2>2, <4>3, <4>4, <4>5 DEF Settling
    <3> QED BY <3>2, <3>3
  <2> QED BY <1>1, <2>2, <2>3, <2>5 DEF Settling
<1> QED BY <1>1, <1>6, <1>7 DEF FInv

LEMMA DocumentChangedFresh == ASSUME IInv, FInv, DocumentChanged PROVE FInv'
<1> DEFINE r == Head(replies)
           again == [i \in DOMAIN notifiers |-> ExecuteQueryRequest(1, items[notifiers[i][1]].info)]
<1>1. /\ GuiMay(Change) /\ replies' = Tail(replies) /\ clean' = (clean /\ ~ r.error)
      /\ UNCHANGED <<items, notifiers, dialog, crashed, store>>
      /\ requests' = IF Reloads(r) THEN requests \o again ELSE requests
  BY DEF DocumentChanged, tabVars, Change
<1>2. SUFFICES ASSUME clean, ~ r.error PROVE Settling'
  BY <1>1 DEF FInv
<1>3. /\ Settling /\ dialog = NULL /\ r \in Reply /\ r.type \in Change
      /\ ToSet(replies) = {r} \cup ToSet(replies') /\ ChangesFirst(replies')
  BY <1>1, <1>2, Handling
<1>4. requests \in Seq(Request) /\ notifiers \in Seq(Nat \X View)
  BY DEF IInv, Typed
<1>5. notifiers # <<>>
  BY <1>3 DEF Settling, HasChange
<1>6. /\ DOMAIN again = DOMAIN notifiers /\ DOMAIN notifiers = 1 .. Len(notifiers) /\ Len(notifiers) \in Nat
      /\ 1 \in DOMAIN notifiers
      /\ \A i \in DOMAIN again : again[i] \in Request /\ again[i].type = "query" /\ again[i].index = 1
  <2>1. DOMAIN notifiers = 1 .. Len(notifiers) /\ Len(notifiers) \in Nat /\ 1 \in DOMAIN notifiers
    BY <1>4, <1>5
  <2>2. ASSUME NEW i \in DOMAIN notifiers
        PROVE  again[i] \in Request /\ again[i].type = "query" /\ again[i].index = 1
    <3>1. notifiers[i] \in NotifiersOf(items)
      BY DEF IInv, Typed, ToSet
    <3>2. notifiers[i][1] \in DOMAIN items
      BY <3>1 DEF NotifiersOf
    <3>3. items[notifiers[i][1]] \in Item
      BY <3>2 DEF IInv, Typed
    <3>4. items[notifiers[i][1]].info \in Info /\ 1 \in Nat
      BY <3>3 DEF Item
    <3> QED BY <3>4 DEF Request, ExecuteQueryRequest
  <2> QED BY <2>1, <2>2
<1> HIDE DEF again
<1>7. again \in Seq(Request) /\ ~ HasChange(again)
  <2>1. again \in Seq(Request)
    BY <1>6 DEF again
  <2> QED BY <1>6, <2>1 DEF HasChange, ToSet, Change
<1>8. ToSet(requests \o again) = ToSet(requests) \cup ToSet(again) /\ ChangesFirst(requests \o again)
  BY <1>3, <1>4, <1>7, ConcatElements, ConcatChanges DEF Settling
<1>9. ChangesFirst(requests') /\ (HasChange(requests') => HasChange(requests))
  BY <1>1, <1>3, <1>7, <1>8 DEF Settling, HasChange
<1>10. Corrected => Corrected'
  <2>1. CASE Reloads(r)
    <3>1. again[1] \in ToSet(requests') /\ CorrectingRequest(again[1])
      BY <1>1, <1>6, <1>8, <2>1 DEF ToSet, CorrectingRequest
    <3> QED BY <3>1 DEF Corrected
  <2>2. CASE ~ Reloads(r)
    <3>1. ~ CorrectingReply(r) /\ requests' = requests
      BY <1>1, <1>2, <1>3, <2>2 DEF Reloads, CorrectingReply, Published, Change
    <3> QED BY <1>3, <3>1 DEF Corrected
  <2> QED BY <2>1, <2>2
<1>11. HasChange(requests') => AllChanges(replies') /\ Corrected'
  BY <1>3, <1>9, <1>10 DEF Settling, AllChanges
<1>12. \A m : CurrentReply(m)' <=> CurrentReply(m)
  BY <1>1 DEF CurrentReply, FirstPage
<1>13. OnePartShown' => Fresh(items[1])' \/ Corrected'
  BY <1>1, <1>3, <1>10 DEF Settling, OnePartShown, Fresh, FirstPage
<1> QED BY <1>1, <1>3, <1>5, <1>9, <1>11, <1>12, <1>13 DEF Settling

-----------------------------------------------------------------------------

LEMMA refreshFresh ==
  ASSUME IInv, FInv, NEW k \in DOMAIN items, NEW skip \in Nat, NEW batchSize \in Nat, refresh(k, skip, batchSize)
  PROVE  FInv'
<1>1. items[k] \in Item /\ items[k].info # NULL /\ k \in Nat
  BY DEF IInv, Typed, refresh
<1>2. items[k].info.query \in Query
  BY <1>1 DEF Item, Info
<1>3. PICK initial \in Initial(items[k]) :
        requests' = Append(requests,
          ExecuteQueryRequest(k, RefreshInfo(items[k].info.query, initial, skip, batchSize)))
  BY DEF refresh
<1> DEFINE info == RefreshInfo(items[k].info.query, initial, skip, batchSize)
<1>4. info \in Info
  BY <1>1, <1>2, InitialSound, RefreshWithin
<1> HIDE DEF info
<1>5. PICK r \in Request : r.type = "query" /\ requests' = Append(requests, r)
  <2>1. ExecuteQueryRequest(k, info) \in Request /\ ExecuteQueryRequest(k, info).type = "query"
    BY <1>1, <1>4 DEF Request, ExecuteQueryRequest
  <2> QED BY <1>3, <2>1 DEF info
<1>6. dialog = NULL /\ UNCHANGED <<items, notifiers, dialog, crashed, replies, store, clean>>
  BY DEF refresh, MayAsk, UserMay, tabVars
<1> QED BY <1>5, <1>6, AskFresh DEF Change

LEMMA pagingFresh ==
  ASSUME IInv, FInv, NEW k \in DOMAIN items, paging_leftClicked(k) \/ paging_rightClicked(k) PROVE FInv'
<1>1. items[k] \in Item /\ items[k].info # NULL
  BY DEF IInv, Typed, paging_leftClicked, paging_rightClicked
<1>2. items[k].info.skip \in Nat /\ items[k].info.batch \in Nat
  BY <1>1 DEF Item, Info
<1>3. ShownBatch(items[k]) \in Nat
  BY <1>2, ResultsAssumption DEF ShownBatch
<1>4. CASE paging_leftClicked(k)
  <2> DEFINE less == items[k].info.skip - ShownBatch(items[k])
  <2>1. Max({less, 0}) \in Nat
    <3>1. less \in Int /\ 0 \in Int
      BY <1>2, <1>3
    <3> HIDE DEF less
    <3>2. Max({less, 0}) \in {less, 0} /\ Max({less, 0}) >= 0
      BY <3>1, MaxOfTwo
    <3> QED BY <3>1, <3>2
  <2> QED BY <1>3, <1>4, <2>1, refreshFresh DEF paging_leftClicked
<1>5. CASE paging_rightClicked(k)
  BY <1>2, <1>3, <1>5, refreshFresh DEF paging_rightClicked
<1> QED BY <1>4, <1>5

LEMMA executeFresh == ASSUME IInv, FInv, execute PROVE FInv'
<1>1. ExecuteScriptRequest \in Request /\ ExecuteScriptRequest.type \notin Change
  BY DEF Request, ExecuteScriptRequest, Change
<1>2. /\ dialog = NULL /\ requests' = Append(requests, ExecuteScriptRequest)
      /\ UNCHANGED <<items, notifiers, dialog, crashed, replies, store, clean>>
  BY DEF execute, MayAsk, UserMay, tabVars
<1> QED BY <1>1, <1>2, AskFresh

LEMMA NextFresh == ASSUME IInv, IInv', FInv, [Next]_vars PROVE FInv'
<1>1. CASE User
  <2>1. ASSUME NEW k \in DOMAIN items, NEW skip \in Skip, NEW batchSize \in Batch, refresh(k, skip, batchSize)
        PROVE  FInv'
    <3>1. skip \in Nat /\ batchSize \in Nat
      BY ResultsAssumption
    <3> QED BY <2>1, <3>1, refreshFresh
  <2>2. ASSUME NEW k \in DOMAIN items, NEW op \in {"insert", "save", "remove"}, NEW docs \in SUBSET Doc,
               openDialog(k, op, docs)
        PROVE  FInv'
    BY <2>2, openDialogFresh DEF Change
  <2> QED BY <1>1, <2>1, <2>2, executeFresh, enterModeFresh, pagingFresh, clickViewFresh, closeDialogFresh DEF User
<1>2. CASE Worker
  BY <1>2, ExecuteScriptFresh, ExecuteQueryFresh, ChangeDocumentFresh DEF Worker
<1>3. CASE Gui
  BY <1>3, ScriptExecutedFresh, DocumentsFailedFresh, DocumentListLoadedFresh, DocumentChangedFresh DEF Gui
<1>4. CASE Threads
  BY <1>4, ThreadsFresh
<1>5. CASE UNCHANGED vars
  BY <1>5 DEF vars, tabVars, FInv, Settling, Corrected, CurrentReply, OnePartShown, Fresh, FirstPage
<1> QED BY <1>1, <1>2, <1>3, <1>4, <1>5 DEF Next

\* Notifier, MongoServer: whatever scripts, pages and views the user asks for while
\* documents are inserted, saved and removed, and however many removals there are of
\* which only the first is published, a tab of one part shows what the database holds
\* once all is answered, if no answer was an error and no dialog was opened in a busy tab.
THEOREM FreshWhenIdle == Spec => []FreshAtRest
<1>1. FInv => FreshAtRest
  <2> SUFFICES ASSUME FInv, clean, ~ crashed, requests = <<>>, replies = <<>>, Len(items) = 1, items[1].info # NULL
               PROVE  Fresh(items[1])
    BY DEF FreshAtRest
  <2>1. ~ Corrected
    BY DEF Corrected, ToSet
  <2> QED BY <2>1 DEF FInv, Settling, OnePartShown
<1>2. Spec => []FInv
  <2>1. IInv /\ IInv' /\ FInv /\ [Next]_vars => FInv'
    BY NextFresh
  <2> QED BY <2>1, InitFresh, Invariance, PTL DEF Spec
<1> QED BY <1>1, <1>2, PTL
=============================================================================

-------------------------- MODULE MainWindowProofs --------------------------
(* What holds of the main window's state: of the tabs, their shells and their  *)
(* files, for any number of shells, texts and files; and of the settings, the  *)
(* dialog of connections, the settings file and the menus made from them, for  *)
(* any connections, forms and old files.                                       *)
EXTENDS WorkArea, MainMenus, FiniteSetTheorems, SequenceTheorems, WellFoundedInduction, TLAPS

Tab == {Welcome} \cup Shell

\* The tabs of a sequence of them.
TabsOf(t) == {t[i] : i \in DOMAIN t}

\* A tab bar: no tab twice, and a current one as long as there are tabs.
BarSound(t, c) ==
  /\ t \in Seq(Tab) /\ IsInjective(t)
  /\ c \in 0 .. Len(t) /\ (c = 0 <=> t = << >>)

\* A widget shows what is kept, or the last write of it failed half way.
ShowsKept(q) == q.text = q.kept \/ q.cut = TRUE

\* A widget is marked exactly when its text changed, and without that shows what is kept.
WidgetSound(q) ==
  /\ q \in QueryWidgets
  /\ q.star = q.textChanged
  /\ ~ q.star => ShowsKept(q)

\* The shells are those of the tabs, and were all opened.
Owned ==
  /\ shells = TabsOf(tabs) \ {Welcome}
  /\ DOMAIN query = shells
  /\ opened \in Nat /\ \A s \in shells : s <= opened

\* The inductive invariant.
IInv ==
  /\ BarSound(tabs, current)
  /\ Owned
  /\ \A s \in DOMAIN query : WidgetSound(query[s])
  /\ disk \in [File -> Text \cup {Absent}]

-----------------------------------------------------------------------------
(* Sequences of tabs.                                                         *)

\* What is left after an element is removed.
LEMMA Removed ==
  ASSUME NEW S, NEW t \in Seq(S), NEW i \in 1 .. Len(t)
  PROVE  /\ RemoveAt(t, i) \in Seq(S) /\ Len(RemoveAt(t, i)) = Len(t) - 1
         /\ \A k \in 1 .. Len(t) - 1 : RemoveAt(t, i)[k] = IF k < i THEN t[k] ELSE t[k + 1]
<1> DEFINE a == SubSeq(t, 1, i - 1)
           b == SubSeq(t, i + 1, Len(t))
<1>1. a \in Seq(S) /\ Len(a) = i - 1 /\ \A k \in 1 .. i - 1 : a[k] = t[k]
  OBVIOUS
<1>2. b \in Seq(S) /\ Len(b) = Len(t) - i /\ \A k \in 1 .. Len(t) - i : b[k] = t[i + k]
  OBVIOUS
<1>3. RemoveAt(t, i) = a \o b
  BY DEF RemoveAt
<1> HIDE DEF a, b
<1>4. /\ a \o b \in Seq(S) /\ Len(a \o b) = Len(t) - 1
      /\ \A k \in 1 .. Len(t) - 1 : (a \o b)[k] = IF k <= i - 1 THEN a[k] ELSE b[k - (i - 1)]
  <2>1. /\ a \o b \in Seq(S) /\ Len(a \o b) = Len(a) + Len(b)
        /\ \A k \in 1 .. Len(a) + Len(b) : (a \o b)[k] = IF k <= Len(a) THEN a[k] ELSE b[k - Len(a)]
    BY <1>1, <1>2, ConcatProperties, Zenon
  <2>2. Len(a) = i - 1 /\ Len(a) + Len(b) = Len(t) - 1
    BY <1>1, <1>2
  <2> QED BY <2>1, <2>2
<1> QED BY <1>1, <1>2, <1>3, <1>4

\* Where an element is put.
LEMMA Inserted ==
  ASSUME NEW S, NEW t \in Seq(S), NEW j \in 1 .. Len(t) + 1, NEW e \in S
  PROVE  /\ InsertAt(t, j, e) \in Seq(S) /\ Len(InsertAt(t, j, e)) = Len(t) + 1
         /\ \A k \in 1 .. Len(t) + 1 :
              InsertAt(t, j, e)[k] = IF k < j THEN t[k] ELSE IF k = j THEN e ELSE t[k - 1]
<1> DEFINE a == SubSeq(t, 1, j - 1)
           b == SubSeq(t, j, Len(t))
           c == a \o <<e>>
<1>1. a \in Seq(S) /\ Len(a) = j - 1 /\ \A k \in 1 .. j - 1 : a[k] = t[k]
  OBVIOUS
<1>2. b \in Seq(S) /\ Len(b) = Len(t) + 1 - j /\ \A k \in 1 .. Len(t) + 1 - j : b[k] = t[j - 1 + k]
  OBVIOUS
<1>3. InsertAt(t, j, e) = c \o b
  BY DEF InsertAt
<1> HIDE DEF a, b
<1>4. c \in Seq(S) /\ Len(c) = j /\ c[j] = e /\ \A k \in 1 .. j - 1 : c[k] = t[k]
  BY <1>1
<1> HIDE DEF c
<1>5. /\ c \o b \in Seq(S) /\ Len(c \o b) = Len(t) + 1
      /\ \A k \in 1 .. Len(t) + 1 : (c \o b)[k] = IF k <= j THEN c[k] ELSE b[k - j]
  BY <1>2, <1>4
<1> QED BY <1>2, <1>3, <1>4, <1>5

\* A closed tab is gone and the others are left, once each.
LEMMA RemovedTab ==
  ASSUME NEW S, NEW t \in Seq(S), IsInjective(t), NEW i \in 1 .. Len(t)
  PROVE  IsInjective(RemoveAt(t, i)) /\ TabsOf(RemoveAt(t, i)) = TabsOf(t) \ {t[i]}
<1> DEFINE r == RemoveAt(t, i)
<1>0. /\ r \in Seq(S) /\ Len(r) = Len(t) - 1
      /\ \A k \in 1 .. Len(t) - 1 : r[k] = IF k < i THEN t[k] ELSE t[k + 1]
  BY Removed
<1> HIDE DEF r
<1>1. /\ DOMAIN r = 1 .. Len(t) - 1
      /\ \A k \in 1 .. Len(t) - 1 : r[k] = IF k < i THEN t[k] ELSE t[k + 1]
  BY <1>0
<1>2. \A k, m \in 1 .. Len(t) : t[k] = t[m] => k = m
  BY DEF IsInjective
<1>3. IsInjective(r)
  BY <1>1, <1>2 DEF IsInjective
<1>4. ASSUME NEW x \in TabsOf(r) PROVE x \in TabsOf(t) \ {t[i]}
  <2>1. PICK k \in 1 .. Len(t) - 1 : x = r[k]
    BY <1>1 DEF TabsOf
  <2> QED BY <1>1, <1>2, <2>1 DEF TabsOf
<1>5. ASSUME NEW x \in TabsOf(t) \ {t[i]} PROVE x \in TabsOf(r)
  <2>1. PICK k \in 1 .. Len(t) : x = t[k] /\ k # i
    BY DEF TabsOf
  <2>2. CASE k < i
    <3>1. k \in 1 .. Len(t) - 1 /\ r[k] = x
      BY <1>1, <2>1, <2>2
    <3> QED BY <1>1, <3>1 DEF TabsOf
  <2>3. CASE k > i
    <3>1. k - 1 \in 1 .. Len(t) - 1 /\ r[k - 1] = x
      BY <1>1, <2>1, <2>3
    <3> QED BY <1>1, <3>1 DEF TabsOf
  <2> QED BY <2>1, <2>2, <2>3
<1> QED BY <1>3, <1>4, <1>5 DEF r

\* A dragged tab is still there, and so are the others.
LEMMA MovedTab ==
  ASSUME NEW S, NEW t \in Seq(S), IsInjective(t), NEW i \in 1 .. Len(t), NEW j \in 1 .. Len(t)
  PROVE  LET m == InsertAt(RemoveAt(t, i), j, t[i])
         IN  m \in Seq(S) /\ IsInjective(m) /\ TabsOf(m) = TabsOf(t) /\ Len(m) = Len(t)
<1> DEFINE r == RemoveAt(t, i)
           m == InsertAt(r, j, t[i])
<1>1. /\ r \in Seq(S) /\ Len(r) = Len(t) - 1 /\ DOMAIN r = 1 .. Len(t) - 1
      /\ IsInjective(r) /\ TabsOf(r) = TabsOf(t) \ {t[i]}
  BY Removed, RemovedTab
<1> HIDE DEF r
<1>2. /\ m \in Seq(S) /\ Len(m) = Len(t) /\ DOMAIN m = 1 .. Len(t)
      /\ \A k \in 1 .. Len(t) : m[k] = IF k < j THEN r[k] ELSE IF k = j THEN t[i] ELSE r[k - 1]
  <2>1. r \in Seq(S) /\ j \in 1 .. Len(r) + 1 /\ t[i] \in S
    BY <1>1
  <2>2. m \in Seq(S) /\ Len(m) = Len(r) + 1
    <3>1. ASSUME NEW e \in S PROVE InsertAt(r, j, e) \in Seq(S)
      BY <2>1, Inserted
    <3>2. ASSUME NEW e \in S PROVE Len(InsertAt(r, j, e)) = Len(r) + 1
      BY <2>1, Inserted
    <3> QED BY <2>1, <3>1, <3>2
  <2>3. \A k \in 1 .. Len(r) + 1 : m[k] = IF k < j THEN r[k] ELSE IF k = j THEN t[i] ELSE r[k - 1]
    <3>1. ASSUME NEW e \in S
          PROVE  \A k \in 1 .. Len(r) + 1 :
                   InsertAt(r, j, e)[k] = IF k < j THEN r[k] ELSE IF k = j THEN e ELSE r[k - 1]
      BY <2>1, Inserted
    <3> QED BY <2>1, <3>1
  <2> HIDE DEF m
  <2> QED BY <1>1, <2>2, <2>3
<1> HIDE DEF m
<1>3. \A k \in 1 .. Len(t) - 1 : r[k] # t[i]
  BY <1>1 DEF TabsOf
<1>4. \A k, l \in 1 .. Len(t) - 1 : r[k] = r[l] => k = l
  BY <1>1 DEF IsInjective
<1>5. IsInjective(m)
  <2> SUFFICES ASSUME NEW k \in 1 .. Len(t), NEW l \in 1 .. Len(t), m[k] = m[l] PROVE k = l
    BY <1>2 DEF IsInjective
  <2>1. CASE k < j /\ l < j
    BY <1>2, <1>4, <2>1
  <2>2. CASE k > j /\ l > j
    <3>1. k - 1 \in 1 .. Len(t) - 1 /\ l - 1 \in 1 .. Len(t) - 1 /\ r[k - 1] = r[l - 1]
      BY <1>2, <2>2
    <3> QED BY <1>4, <3>1
  <2>3. CASE k < j /\ l > j
    <3>1. k \in 1 .. Len(t) - 1 /\ l - 1 \in 1 .. Len(t) - 1 /\ r[k] = r[l - 1]
      BY <1>2, <2>3
    <3> QED BY <1>4, <2>3, <3>1
  <2>4. CASE k > j /\ l < j
    <3>1. k - 1 \in 1 .. Len(t) - 1 /\ l \in 1 .. Len(t) - 1 /\ r[k - 1] = r[l]
      BY <1>2, <2>4
    <3> QED BY <1>4, <2>4, <3>1
  <2>5. CASE k = j \/ l = j
    BY <1>2, <1>3, <2>5
  <2> QED BY <2>1, <2>2, <2>3, <2>4, <2>5
<1>6. ASSUME NEW x \in TabsOf(m) PROVE x \in TabsOf(t)
  <2>1. PICK k \in 1 .. Len(t) : x = m[k]
    BY <1>2 DEF TabsOf
  <2>2. x = t[i] \/ \E l \in 1 .. Len(t) - 1 : x = r[l]
    BY <1>2, <2>1
  <2>3. x = t[i] \/ x \in TabsOf(r)
    BY <1>1, <2>2 DEF TabsOf
  <2>4. t[i] \in TabsOf(t)
    BY DEF TabsOf
  <2> QED BY <1>1, <2>3, <2>4
<1>7. ASSUME NEW x \in TabsOf(t) PROVE x \in TabsOf(m)
  <2>1. CASE x = t[i]
    BY <1>2, <2>1 DEF TabsOf
  <2>2. CASE x # t[i]
    <3>1. PICK k \in 1 .. Len(t) - 1 : x = r[k]
      BY <1>1, <2>2 DEF TabsOf
    <3>2. CASE k < j
      <4>1. k \in 1 .. Len(t) /\ m[k] = x
        BY <1>2, <3>1, <3>2
      <4> QED BY <1>2, <4>1 DEF TabsOf
    <3>3. CASE k >= j
      <4>1. k + 1 \in 1 .. Len(t) /\ m[k + 1] = x
        BY <1>2, <3>1, <3>3
      <4> QED BY <1>2, <4>1 DEF TabsOf
    <3> QED BY <3>2, <3>3
  <2> QED BY <2>1, <2>2
<1> QED BY <1>2, <1>5, <1>6, <1>7 DEF m, r

-----------------------------------------------------------------------------
(* Widgets.                                                                   *)

\* The operations on one widget: each leaves its mark and its text in agreement.
LEMMA UpdatedTab ==
  ASSUME NEW q \in QueryWidgets, ~ q.textChanged => ShowsKept(q)
  PROVE  WidgetSound(updateCurrentTab(q))
<1>1. q.textChanged \in BOOLEAN
  BY DEF QueryWidgets
<1>2. updateCurrentTab(q) \in QueryWidgets
  BY <1>1 DEF updateCurrentTab, QueryWidgets
<1> QED BY <1>1, <1>2 DEF updateCurrentTab, WidgetSound, ShowsKept, QueryWidgets

\* textChange(): the text is the new one and marked.
LEMMA ChangedText ==
  ASSUME NEW q, WidgetSound(q), NEW t \in Text PROVE WidgetSound(Changed(q, t))
<1> DEFINE p == [q EXCEPT !.text = t, !.textChanged = TRUE]
<1>1. p \in QueryWidgets /\ p.textChanged = TRUE
  BY DEF WidgetSound, ShowsKept, QueryWidgets
<1> HIDE DEF p
<1> QED BY <1>1, UpdatedTab DEF Changed, p

\* showAutocompletion(): text and mark are left alone.
LEMMA Completing ==
  ASSUME NEW q, WidgetSound(q), NEW t \in Text, NEW p \in showAutocompletion(q, t)
  PROVE  WidgetSound(p)
<1>1. PICK w \in {NoWord, t} :
        p \in IF w = NoWord THEN {[q EXCEPT !.word = w, !.popup = FALSE]}
              ELSE {[q EXCEPT !.word = w, !.asked = @ + n] : n \in IF q.asked < MaxAsks THEN {0, 1} ELSE {0}}
  BY DEF showAutocompletion, sanitizeForAutocompletion
<1>2. CASE p = [q EXCEPT !.word = w, !.popup = FALSE]
  BY <1>2 DEF WidgetSound, ShowsKept, QueryWidgets
<1>3. CASE \E n \in {0, 1} : p = [q EXCEPT !.word = w, !.asked = @ + n]
  <2>1. PICK n \in {0, 1} : p = [q EXCEPT !.word = w, !.asked = @ + n]
    BY <1>3
  <2>2. q \in QueryWidgets /\ q.asked + n \in Nat /\ w \in Text \cup {NoWord}
    BY DEF WidgetSound, ShowsKept, QueryWidgets
  <2> QED BY <2>1, <2>2 DEF WidgetSound, ShowsKept, QueryWidgets
<1> QED BY <1>1, <1>2, <1>3

\* The end of a save: after a success the mark goes, and what was written is kept.
LEMMA SavedText ==
  ASSUME NEW q, WidgetSound(q), NEW ok \in BOOLEAN, ok => ShowsKept(q) PROVE WidgetSound(Saved(q, ok))
<1> DEFINE p == [q EXCEPT !.textChanged = FALSE]
<1>1. p \in QueryWidgets /\ (ok => ShowsKept(p))
  BY DEF WidgetSound, ShowsKept, QueryWidgets
<1> HIDE DEF p
<1> QED BY <1>1, UpdatedTab DEF Saved, p

\* A new widget shows the script it was opened with.
LEMMA NewWidget ==
  ASSUME NEW script \in Text, NEW execute_ \in BOOLEAN PROVE WidgetSound(NewQueryWidget(script, execute_))
  BY WorkAreaAssumption DEF NewQueryWidget, WidgetSound, ShowsKept, QueryWidgets, FirstScript, NoFile, NoWord

-----------------------------------------------------------------------------
(* Steps.                                                                     *)

\* A tab that is not the Welcome tab has a shell with a widget.
LEMMA TabHasWidget ==
  ASSUME IInv, NEW i \in DOMAIN tabs, IsShell(tabs[i]) PROVE tabs[i] \in DOMAIN query
  BY DEF IInv, Owned, TabsOf, IsShell

\* The current tab is one of the tabs.
LEMMA CurrentIsTab ==
  ASSUME IInv, IsShell(Current)
  PROVE  current \in DOMAIN tabs /\ Current = tabs[current] /\ Current \in DOMAIN query
<1>1. current # 0
  BY DEF IsShell, Current
<1>2. current \in DOMAIN tabs /\ Current = tabs[current]
  BY <1>1 DEF IInv, BarSound, Current
<1> QED BY <1>2, TabHasWidget

\* A step that changes one widget and perhaps a file.
LEMMA WidgetStep ==
  ASSUME IInv, NEW s \in DOMAIN query, NEW q, WidgetSound(q), query' = [query EXCEPT ![s] = q],
         UNCHANGED <<tabs, current, shells, opened>>, disk' \in [File -> Text \cup {Absent}]
  PROVE  IInv'
<1>1. DOMAIN query' = DOMAIN query /\ \A z \in DOMAIN query : query'[z] = IF z = s THEN q ELSE query[z]
  OBVIOUS
<1>2. \A z \in DOMAIN query' : WidgetSound(query'[z])
  BY <1>1 DEF IInv
<1>3. BarSound(tabs, current)' /\ Owned'
  BY <1>1 DEF IInv, BarSound, Owned
<1> QED BY <1>2, <1>3 DEF IInv

\* A step that changes the tabs but closes none.
LEMMA BarStep ==
  ASSUME IInv, BarSound(tabs', current'), TabsOf(tabs') \ {Welcome} = TabsOf(tabs) \ {Welcome},
         UNCHANGED <<shells, query, disk, opened>>
  PROVE  IInv'
  BY DEF IInv, Owned, BarSound

\* A step that closes tabs: their widgets and shells go with them.
LEMMA CloseStep ==
  ASSUME IInv, NEW closed, closeTabs(closed), BarSound(tabs', current'),
         TabsOf(tabs') = TabsOf(tabs) \ closed, UNCHANGED <<disk, opened>>
  PROVE  IInv'
<1>1. /\ DOMAIN query' = DOMAIN query \ closed /\ shells' = shells \ closed
      /\ \A z \in DOMAIN query' : query'[z] = query[z]
  BY DEF closeTabs
<1>2. Owned'
  BY <1>1 DEF IInv, Owned
<1>3. \A z \in DOMAIN query' : WidgetSound(query'[z])
  BY <1>1 DEF IInv
<1> QED BY <1>2, <1>3 DEF IInv, BarSound

\* openShell(): the new shell is none of those there are.
LEMMA OpenStep ==
  ASSUME IInv, NEW script \in Text, NEW execute_ \in BOOLEAN, openShell(script, execute_)
  PROVE  IInv'
<1> DEFINE n == opened + 1
<1>1. /\ n \in Shell /\ opened' = n /\ shells' = shells \cup {n}
      /\ tabs' = Append(tabs, n) /\ current' = Len(tabs) + 1
      /\ query' = [s \in DOMAIN query \cup {n} |->
                     IF s = n THEN NewQueryWidget(script, execute_) ELSE query[s]]
      /\ UNCHANGED disk
  BY DEF openShell, addTab
<1>2. n \in Nat \ {0} /\ n \notin shells
  BY DEF IInv, Owned
<1>3. n \notin TabsOf(tabs) /\ n # Welcome
  BY <1>2 DEF IInv, Owned, Welcome
<1> HIDE DEF n
<1>4. /\ tabs' \in Seq(Tab) /\ DOMAIN tabs' = 1 .. Len(tabs) + 1 /\ Len(tabs') = Len(tabs) + 1
      /\ Len(tabs) \in Nat /\ DOMAIN tabs = 1 .. Len(tabs)
      /\ tabs'[Len(tabs) + 1] = n /\ \A k \in 1 .. Len(tabs) : tabs'[k] = tabs[k]
  BY <1>1 DEF IInv, BarSound, Tab
<1>5. BarSound(tabs', current')
  <2>1. \A k \in 1 .. Len(tabs) : tabs[k] # n
    BY <1>3, <1>4 DEF TabsOf
  <2>2. \A k, m \in 1 .. Len(tabs) : tabs[k] = tabs[m] => k = m
    BY <1>4 DEF IInv, BarSound, IsInjective
  <2>3. IsInjective(tabs')
    BY <1>4, <2>1, <2>2 DEF IsInjective
  <2> QED BY <1>1, <1>4, <2>3 DEF BarSound
<1>6. TabsOf(tabs') = TabsOf(tabs) \cup {n}
  BY <1>4 DEF TabsOf
<1>7. DOMAIN query' = DOMAIN query \cup {n}
      /\ \A z \in DOMAIN query' : query'[z] = IF z = n THEN NewQueryWidget(script, execute_) ELSE query[z]
  BY <1>1
<1>8. Owned'
  <2>1. shells' = TabsOf(tabs') \ {Welcome} /\ DOMAIN query' = shells'
    BY <1>1, <1>3, <1>6, <1>7 DEF IInv, Owned
  <2>2. opened' \in Nat /\ \A s \in shells' : s <= opened'
    <3>1. opened \in Nat /\ opened' = opened + 1 /\ \A s \in shells : s \in Nat /\ s <= opened
      BY <1>1, <1>4 DEF IInv, Owned, BarSound, Tab, Shell, TabsOf, n
    <3> QED BY <1>1, <3>1
  <2> QED BY <2>1, <2>2 DEF Owned
<1>9. \A z \in DOMAIN query' : WidgetSound(query'[z])
  BY <1>7, NewWidget DEF IInv
<1> QED BY <1>1, <1>5, <1>8, <1>9 DEF IInv

\* The tabs that are opened from the explorer, from a tab or as its duplicate.
LEMMA OpenedFrom ==
  ASSUME IInv, OpenFromExplorer \/ \E s \in DOMAIN query : openNewTab(s) \/ duplicate(s)
  PROVE  IInv'
<1>1. CASE OpenFromExplorer
  BY <1>1, OpenStep DEF OpenFromExplorer
<1>2. ASSUME NEW s \in DOMAIN query, openNewTab(s) \/ duplicate(s) PROVE IInv'
  <2>1. query[s].text \in Text
    BY DEF IInv, WidgetSound, QueryWidgets
  <2>2. Part[query[s].text] \cup {EmptyText} \subseteq Text
    BY <2>1, WorkAreaAssumption
  <2>3. CASE openNewTab(s)
    BY <2>2, <2>3, OpenStep DEF openNewTab
  <2>4. CASE duplicate(s)
    BY <2>1, <2>4, OpenStep DEF duplicate
  <2> QED BY <1>2, <2>3, <2>4
<1> QED BY <1>1, <1>2

\* A tab is closed by its button, its menu, the middle mouse button or a key.
LEMMA ClosedTab == ASSUME IInv, NEW i \in DOMAIN tabs, closeTab(i) PROVE IInv'
<1>1. /\ tabs \in Seq(Tab) /\ IsInjective(tabs) /\ i \in 1 .. Len(tabs) /\ Len(tabs) \in Nat
      /\ current \in 1 .. Len(tabs)
  BY DEF IInv, BarSound
<1>2. /\ tabs' \in Seq(Tab) /\ Len(tabs') = Len(tabs) - 1
      /\ IsInjective(tabs') /\ TabsOf(tabs') = TabsOf(tabs) \ {tabs[i]}
  BY <1>1, Removed, RemovedTab DEF closeTab
<1>3. current' \in 0 .. Len(tabs) - 1 /\ (current' = 0 <=> Len(tabs) - 1 = 0)
  <2>1. current' = AfterRemove(i)
    BY DEF closeTab
  <2>2. AfterRemove(i) \in 0 .. Len(tabs) - 1 /\ (AfterRemove(i) = 0 <=> Len(tabs) - 1 = 0)
    <3>1. ASSUME NEW n \in Nat, n = Len(tabs)
          PROVE  AfterRemove(i) \in 0 .. n - 1 /\ (AfterRemove(i) = 0 <=> n - 1 = 0)
      <4>1. i \in 1 .. n /\ current \in 1 .. n
        BY <1>1, <3>1
      <4>2. AfterRemove(i) = IF i < current THEN current - 1
                             ELSE IF i > current THEN current
                             ELSE IF current < n THEN current ELSE current - 1
        BY <3>1 DEF AfterRemove
      <4> QED BY <4>1, <4>2
    <3> QED BY <1>1, <3>1
  <2> QED BY <2>1, <2>2
<1>4. BarSound(tabs', current')
  BY <1>1, <1>2, <1>3 DEF BarSound
<1> QED BY <1>2, <1>4, CloseStep DEF closeTab

\* The entries of a tab's menu that close the others, or those to its right.
LEMMA ClosedOthers ==
  ASSUME IInv, NEW i \in DOMAIN tabs,
         ui_closeOtherTabsRequested(i) \/ ui_closeTabsToTheRightRequested(i)
  PROVE  IInv'
<1>1. /\ tabs \in Seq(Tab) /\ i \in 1 .. Len(tabs) /\ Len(tabs) \in Nat /\ DOMAIN tabs = 1 .. Len(tabs)
      /\ current \in 1 .. Len(tabs) /\ \A k, m \in 1 .. Len(tabs) : tabs[k] = tabs[m] => k = m
  BY DEF IInv, BarSound, IsInjective
<1>2. CASE ui_closeOtherTabsRequested(i)
  <2>1. tabs' = <<tabs[i]>> /\ current' = 1 /\ closeTabs({tabs[j] : j \in DOMAIN tabs \ {i}})
    BY <1>2 DEF ui_closeOtherTabsRequested
  <2>2. tabs' \in Seq(Tab) /\ Len(tabs') = 1 /\ DOMAIN tabs' = {1} /\ tabs'[1] = tabs[i]
    BY <1>1, <2>1
  <2>3. BarSound(tabs', current')
    BY <2>1, <2>2 DEF BarSound, IsInjective
  <2>4. TabsOf(tabs') = TabsOf(tabs) \ {tabs[j] : j \in DOMAIN tabs \ {i}}
    BY <1>1, <2>2 DEF TabsOf
  <2> QED BY <1>2, <2>1, <2>3, <2>4, CloseStep DEF ui_closeOtherTabsRequested
<1>3. CASE ui_closeTabsToTheRightRequested(i)
  <2>1. /\ tabs' = SubSeq(tabs, 1, i) /\ current' = (IF current > i THEN i ELSE current)
        /\ closeTabs({tabs[j] : j \in (i + 1) .. Len(tabs)})
    BY <1>3 DEF ui_closeTabsToTheRightRequested
  <2>2. /\ tabs' \in Seq(Tab) /\ Len(tabs') = i /\ DOMAIN tabs' = 1 .. i
        /\ \A k \in 1 .. i : tabs'[k] = tabs[k]
    BY <1>1, <2>1
  <2>3. BarSound(tabs', current')
    <3>1. IsInjective(tabs')
      BY <1>1, <2>2 DEF IsInjective
    <3> QED BY <1>1, <2>1, <2>2, <3>1 DEF BarSound
  <2>4. TabsOf(tabs') = TabsOf(tabs) \ {tabs[j] : j \in (i + 1) .. Len(tabs)}
    <3>1. ASSUME NEW x \in TabsOf(tabs') PROVE x \in TabsOf(tabs) \ {tabs[j] : j \in (i + 1) .. Len(tabs)}
      <4>1. PICK k \in 1 .. i : x = tabs[k]
        BY <2>2 DEF TabsOf
      <4> QED BY <1>1, <4>1 DEF TabsOf
    <3>2. ASSUME NEW x \in TabsOf(tabs) \ {tabs[j] : j \in (i + 1) .. Len(tabs)} PROVE x \in TabsOf(tabs')
      <4>1. PICK k \in 1 .. Len(tabs) : x = tabs[k]
        BY <1>1 DEF TabsOf
      <4>2. k \in 1 .. i
        BY <1>1, <4>1
      <4> QED BY <2>2, <4>1, <4>2 DEF TabsOf
    <3> QED BY <3>1, <3>2
  <2> QED BY <1>3, <2>1, <2>3, <2>4, CloseStep DEF ui_closeTabsToTheRightRequested
<1> QED BY <1>2, <1>3

\* Another tab becomes the current one.
LEMMA SwitchedTab ==
  ASSUME IInv, (\E i \in DOMAIN tabs : setCurrentIndex(i)) \/ nextTab \/ previousTab
  PROVE  IInv'
<1>1. ASSUME NEW i \in 1 .. Len(tabs), setCurrentIndex(i) PROVE IInv'
  <2>1. BarSound(tabs', current')
    BY <1>1 DEF IInv, BarSound, setCurrentIndex
  <2> QED BY <1>1, <2>1, BarStep DEF setCurrentIndex
<1>2. CASE \E i \in DOMAIN tabs : setCurrentIndex(i)
  BY <1>1, <1>2 DEF IInv, BarSound
<1>3. CASE nextTab
  <2> DEFINE i == IF current = Len(tabs) THEN 1 ELSE current + 1
  <2>1. setCurrentIndex(i) /\ current # 0
    BY <1>3 DEF nextTab, setCurrentIndex
  <2>2. i \in 1 .. Len(tabs)
    BY <2>1 DEF IInv, BarSound
  <2> HIDE DEF i
  <2> QED BY <1>1, <2>1, <2>2
<1>4. CASE previousTab
  <2> DEFINE i == IF current = 1 THEN Len(tabs) ELSE current - 1
  <2>1. setCurrentIndex(i) /\ current # 0
    BY <1>4 DEF previousTab, setCurrentIndex
  <2>2. i \in 1 .. Len(tabs)
    BY <2>1 DEF IInv, BarSound
  <2> HIDE DEF i
  <2> QED BY <1>1, <2>1, <2>2
<1> QED BY <1>2, <1>3, <1>4

\* A tab is dragged, or the Welcome tab opened where there was none.
LEMMA ArrangedTabs ==
  ASSUME IInv, (\E j \in DOMAIN tabs : MoveTab(j)) \/ openWelcomeTab PROVE IInv'
<1>1. /\ tabs \in Seq(Tab) /\ Len(tabs) \in Nat /\ DOMAIN tabs = 1 .. Len(tabs) /\ IsInjective(tabs)
      /\ current \in 0 .. Len(tabs) /\ \A k, m \in 1 .. Len(tabs) : tabs[k] = tabs[m] => k = m
  BY DEF IInv, BarSound, IsInjective
<1>2. ASSUME NEW j \in DOMAIN tabs, MoveTab(j) PROVE IInv'
  <2>1. current \in 1 .. Len(tabs) /\ j \in 1 .. Len(tabs)
    BY <1>1, <1>2 DEF MoveTab
  <2>2. /\ tabs' \in Seq(Tab) /\ IsInjective(tabs') /\ TabsOf(tabs') = TabsOf(tabs) /\ Len(tabs') = Len(tabs)
        /\ current' = j
    BY <1>1, <1>2, <2>1, MovedTab DEF MoveTab
  <2>3. BarSound(tabs', current')
    BY <1>1, <2>1, <2>2 DEF BarSound
  <2> QED BY <1>2, <2>2, <2>3, BarStep DEF MoveTab
<1>3. CASE openWelcomeTab
  <2>1. /\ tabs' \in Seq(Tab) /\ IsInjective(tabs') /\ TabsOf(tabs') = TabsOf(tabs) \cup {Welcome}
        /\ Len(tabs') \in Nat \ {0} /\ DOMAIN tabs' = 1 .. Len(tabs')
    <3>1. CASE Contains(tabs, Welcome)
      <4>1. PICK k \in 1 .. Len(tabs) : tabs[k] = Welcome
        BY <1>1, <3>1 DEF Contains
      <4>2. tabs' = tabs
        BY <1>3, <3>1 DEF openWelcomeTab
      <4> QED BY <1>1, <4>1, <4>2 DEF TabsOf
    <3>2. CASE ~ Contains(tabs, Welcome)
      <4>1. tabs' = <<Welcome>> \o tabs /\ \A k \in 1 .. Len(tabs) : tabs[k] # Welcome
        BY <1>1, <1>3, <3>2 DEF openWelcomeTab, Contains
      <4>2. <<Welcome>> \in Seq(Tab)
        BY DEF Tab
      <4>3. /\ tabs' \in Seq(Tab) /\ Len(tabs') = Len(tabs) + 1 /\ DOMAIN tabs' = 1 .. Len(tabs) + 1
            /\ tabs'[1] = Welcome /\ \A k \in 2 .. Len(tabs) + 1 : tabs'[k] = tabs[k - 1]
        BY <1>1, <4>1, <4>2
      <4>4. IsInjective(tabs')
        <5> SUFFICES ASSUME NEW k \in 1 .. Len(tabs) + 1, NEW m \in 1 .. Len(tabs) + 1, tabs'[k] = tabs'[m]
                     PROVE  k = m
          BY <4>3 DEF IsInjective
        <5>1. CASE k = 1 \/ m = 1
          BY <1>1, <4>1, <4>3, <5>1
        <5>2. CASE k # 1 /\ m # 1
          <6>1. k \in 2 .. Len(tabs) + 1 /\ m \in 2 .. Len(tabs) + 1
            BY <1>1, <5>2
          <6>2. tabs'[k] = tabs[k - 1] /\ tabs'[m] = tabs[m - 1]
            BY <4>3, <6>1
          <6>3. k - 1 \in 1 .. Len(tabs) /\ m - 1 \in 1 .. Len(tabs)
            BY <1>1, <6>1
          <6>4. k - 1 = m - 1
            BY <1>1, <6>2, <6>3
          <6> QED BY <6>1, <6>4
        <5> QED BY <5>1, <5>2
      <4>5. ASSUME NEW x \in TabsOf(tabs') PROVE x \in TabsOf(tabs) \cup {Welcome}
        <5>1. PICK k \in 1 .. Len(tabs) + 1 : x = tabs'[k]
          BY <4>3 DEF TabsOf
        <5>2. x = Welcome \/ (k - 1 \in 1 .. Len(tabs) /\ x = tabs[k - 1])
          BY <1>1, <4>3, <5>1
        <5> QED BY <1>1, <5>2 DEF TabsOf
      <4>6. ASSUME NEW x \in TabsOf(tabs) \cup {Welcome} PROVE x \in TabsOf(tabs')
        <5>1. x = Welcome \/ \E k \in 1 .. Len(tabs) : x = tabs[k]
          BY <1>1 DEF TabsOf
        <5>2. x = tabs'[1] \/ \E k \in 1 .. Len(tabs) : k + 1 \in 2 .. Len(tabs) + 1 /\ x = tabs'[k + 1]
          BY <1>1, <4>3, <5>1
        <5> QED BY <1>1, <4>3, <5>2 DEF TabsOf
      <4> QED BY <1>1, <4>3, <4>4, <4>5, <4>6
    <3> QED BY <3>1, <3>2
  <2>2. \E k \in DOMAIN tabs' : tabs'[k] = Welcome
    BY <2>1 DEF TabsOf
  <2>3. current' \in DOMAIN tabs'
    BY <1>3, <2>2 DEF openWelcomeTab
  <2>4. BarSound(tabs', current')
    BY <2>1, <2>3 DEF BarSound
  <2> QED BY <1>3, <2>1, <2>4, BarStep DEF openWelcomeTab
<1> QED BY <1>2, <1>3

\* Executions, their answers and completions leave the text of the widget alone.
LEMMA UsedWidget ==
  ASSUME IInv, NEW s \in DOMAIN query,
         \/ execute(s) \/ ScriptExecuted(s) \/ AutocompleteReply(s)
         \/ Complete(s) \/ hideAutocompletion(s)
  PROVE  IInv'
<1>1. WidgetSound(query[s]) /\ disk \in [File -> Text \cup {Absent}]
  BY DEF IInv
<1>2. query[s] \in QueryWidgets /\ query[s].text \in Text /\ query[s].running \in Nat /\ query[s].asked \in Nat
  BY <1>1 DEF WidgetSound, ShowsKept, QueryWidgets
<1>3. CASE execute(s)
  <2>1. PICK sel \in Part[query[s].text] \cup {query[s].text} :
          query' = [query EXCEPT ![s] = [query[s] EXCEPT !.script = sel, !.running = query[s].running + 1]]
    BY <1>3 DEF execute
  <2>2. sel \in Text /\ query[s].running + 1 \in Nat
    BY <1>2, WorkAreaAssumption
  <2>3. WidgetSound([query[s] EXCEPT !.script = sel, !.running = query[s].running + 1])
    BY <1>1, <2>2 DEF WidgetSound, ShowsKept, QueryWidgets
  <2> QED BY <1>1, <1>3, <2>1, <2>3, WidgetStep DEF execute, Step
<1>4. CASE ScriptExecuted(s)
  <2> DEFINE p == [query[s] EXCEPT !.running = query[s].running - 1]
  <2>1. query' = [query EXCEPT ![s] = updateCurrentTab(p)]
    BY <1>4 DEF ScriptExecuted
  <2>2. query[s].running - 1 \in Nat
    BY <1>2, <1>4 DEF ScriptExecuted
  <2>3. p \in QueryWidgets /\ (~ p.textChanged => ShowsKept(p))
    BY <1>1, <2>2 DEF WidgetSound, ShowsKept, QueryWidgets
  <2> HIDE DEF p
  <2>4. WidgetSound(updateCurrentTab(p))
    BY <2>3, UpdatedTab
  <2> QED BY <1>1, <1>4, <2>1, <2>4, WidgetStep DEF ScriptExecuted
<1>5. CASE AutocompleteReply(s)
  <2>1. PICK offered \in {TRUE, query[s].popup} :
          query' = [query EXCEPT ![s] = [query[s] EXCEPT !.asked = query[s].asked - 1, !.popup = offered]]
    BY <1>5 DEF AutocompleteReply
  <2>2. query[s].asked - 1 \in Nat /\ offered \in BOOLEAN
    <3>1. query[s].asked - 1 \in Nat
      BY <1>2, <1>5 DEF AutocompleteReply
    <3>2. query[s].popup \in BOOLEAN
      BY <1>2 DEF QueryWidgets
    <3>3. offered \in BOOLEAN
      BY <3>2, Zenon
    <3> QED BY <3>1, <3>3
  <2>3. WidgetSound([query[s] EXCEPT !.asked = query[s].asked - 1, !.popup = offered])
    BY <1>1, <2>2 DEF WidgetSound, ShowsKept, QueryWidgets
  <2> QED BY <1>1, <1>5, <2>1, <2>3, WidgetStep DEF AutocompleteReply
<1>6. CASE Complete(s)
  <2>1. PICK q \in showAutocompletion(query[s], query[s].text) : query' = [query EXCEPT ![s] = q]
    BY <1>6 DEF Complete
  <2>2. WidgetSound(q)
    BY <1>1, <1>2, Completing
  <2> QED BY <1>1, <1>6, <2>1, <2>2, WidgetStep DEF Complete, Step
<1>7. CASE hideAutocompletion(s)
  <2>1. query' = [query EXCEPT ![s] = [query[s] EXCEPT !.popup = FALSE]]
    BY <1>7 DEF hideAutocompletion
  <2>2. WidgetSound([query[s] EXCEPT !.popup = FALSE])
    BY <1>1 DEF WidgetSound, ShowsKept, QueryWidgets
  <2> QED BY <1>1, <1>7, <2>1, <2>2, WidgetStep DEF hideAutocompletion
<1> QED BY <1>3, <1>4, <1>5, <1>6, <1>7

\* The text is changed by the user, by comments toggled or by a completion.
LEMMA EditedText ==
  ASSUME IInv, NEW s \in DOMAIN query, Type(s) \/ toggleComments(s) \/ onCompletionActivated(s)
  PROVE  IInv'
<1>1. WidgetSound(query[s]) /\ disk \in [File -> Text \cup {Absent}]
  BY DEF IInv
<1>2. CASE Type(s)
  <2>1. PICK t \in Text :
          \E q \in {Changed(query[s], t)} \cup showAutocompletion(Changed(query[s], t), t) :
             query' = [query EXCEPT ![s] = q]
    BY <1>2 DEF Type
  <2>2. PICK q \in {Changed(query[s], t)} \cup showAutocompletion(Changed(query[s], t), t) :
          query' = [query EXCEPT ![s] = q]
    BY <2>1
  <2>3. WidgetSound(Changed(query[s], t))
    BY <1>1, ChangedText
  <2>4. WidgetSound(q)
    BY <2>3, Completing
  <2> QED BY <1>1, <1>2, <2>2, <2>4, WidgetStep DEF Type, Step
<1>3. CASE toggleComments(s)
  <2>1. PICK t \in Text : query' = [query EXCEPT ![s] = Changed(query[s], t)]
    BY <1>3 DEF toggleComments
  <2>2. WidgetSound(Changed(query[s], t))
    BY <1>1, ChangedText
  <2> QED BY <1>1, <1>3, <2>1, <2>2, WidgetStep DEF toggleComments, Step
<1>4. CASE onCompletionActivated(s)
  <2>1. PICK t \in Text : query' = [query EXCEPT ![s] = [Changed(query[s], t) EXCEPT !.popup = FALSE]]
    BY <1>4 DEF onCompletionActivated
  <2>2. WidgetSound(Changed(query[s], t))
    BY <1>1, ChangedText
  <2>3. WidgetSound([Changed(query[s], t) EXCEPT !.popup = FALSE])
    BY <2>2 DEF WidgetSound, ShowsKept, QueryWidgets
  <2> QED BY <1>1, <1>4, <2>1, <2>3, WidgetStep DEF onCompletionActivated, Step
<1> QED BY <1>2, <1>3, <1>4

\* What a write of t may leave in a file.
WrittenTo(t) == {t} \cup Cut[t]

\* saveToFileText(): a success writes the text of the editor, or what a failing write
\* leaves of it, into one file, a failure nothing; the widget stays sound.
LEMMA SavedToFile ==
  ASSUME IInv, NEW s \in DOMAIN query, SaveCancelled(s) \/ \E f \in File : saveToFileText(s, f)
  PROVE  /\ \E q : WidgetSound(q) /\ query' = [query EXCEPT ![s] = q]
         /\ disk' = disk \/ \E f \in File, t \in WrittenTo(query[s].text) : disk' = [disk EXCEPT ![f] = t]
         /\ WrittenTo(query[s].text) \subseteq Text
<1> DEFINE p == [query[s] EXCEPT !.script = query[s].text]
<1>1. WidgetSound(p) /\ p.script = query[s].text /\ p.text = query[s].text /\ query[s].text \in Text
  BY DEF IInv, WidgetSound, ShowsKept, QueryWidgets
<1>2. p = [query[s] EXCEPT !.script = ScriptToSave(query[s])]
  BY DEF ScriptToSave
<1>3. WrittenTo(query[s].text) \subseteq Text
  BY <1>1, WorkAreaAssumption DEF WrittenTo
<1> HIDE DEF p
<1>4. ASSUME NEW f \in File, NEW t \in Text
      PROVE  /\ WidgetSound([p EXCEPT !.filePath = f, !.kept = t, !.cut = (t # p.script)])
             /\ ShowsKept([p EXCEPT !.filePath = f, !.kept = t, !.cut = (t # p.script)])
  BY <1>1 DEF WidgetSound, ShowsKept, QueryWidgets
<1>5. WidgetSound(Saved(p, FALSE))
  BY <1>1, SavedText
<1>6. CASE SaveCancelled(s)
  BY <1>2, <1>3, <1>5, <1>6 DEF SaveCancelled
<1>7. ASSUME NEW f \in File, saveToFileText(s, f)
      PROVE  /\ \E q : WidgetSound(q) /\ query' = [query EXCEPT ![s] = q]
             /\ disk' = disk \/ \E g \in File, t \in WrittenTo(query[s].text) : disk' = [disk EXCEPT ![g] = t]
  <2>1. CASE query' = [query EXCEPT ![s] = Saved(p, FALSE)] /\ disk' = disk
    BY <1>5, <2>1
  <2>2. ASSUME NEW t \in WrittenTo(query[s].text),
               disk' = [disk EXCEPT ![Js[f]] = t],
               query' = [query EXCEPT ![s] =
                  Saved([p EXCEPT !.filePath = f, !.kept = t, !.cut = (t # p.script)], TRUE)]
        PROVE  /\ \E q : WidgetSound(q) /\ query' = [query EXCEPT ![s] = q]
               /\ \E g \in File, u \in WrittenTo(query[s].text) : disk' = [disk EXCEPT ![g] = u]
    <3>1. Js[f] \in File /\ t \in Text
      BY <1>3, WorkAreaAssumption
    <3>2. WidgetSound(Saved([p EXCEPT !.filePath = f, !.kept = t, !.cut = (t # p.script)], TRUE))
      BY <1>4, <3>1, SavedText
    <3> QED BY <2>2, <3>1, <3>2
  <2>3. \/ query' = [query EXCEPT ![s] = Saved(p, FALSE)] /\ disk' = disk
        \/ \E t \in WrittenTo(query[s].text) :
             /\ disk' = [disk EXCEPT ![Js[f]] = t]
             /\ query' = [query EXCEPT ![s] =
                   Saved([p EXCEPT !.filePath = f, !.kept = t, !.cut = (t # p.script)], TRUE)]
    BY <1>1, <1>2, <1>7 DEF saveToFileText, WrittenTo
  <2> QED BY <2>1, <2>2, <2>3
<1> QED BY <1>3, <1>6, <1>7

\* A save of the current tab is one of its shell, to some file or cancelled.
LEMMA SaveCases ==
  ASSUME IInv, NEW s \in DOMAIN query, savebToFileAs(s) \/ saveToFile(s)
  PROVE  /\ SaveCancelled(s) \/ \E f \in File : saveToFileText(s, f)
         /\ UNCHANGED <<tabs, current, shells, opened>>
<1>1. query[s].filePath # NoFile => query[s].filePath \in File
  BY DEF IInv, WidgetSound, QueryWidgets
<1> QED BY <1>1 DEF savebToFileAs, saveToFile, Step

\* The entries of the file menu.
LEMMA FileStep ==
  ASSUME IInv, NEW s \in DOMAIN query, openFile(s) \/ saveToFile(s) \/ savebToFileAs(s)
  PROVE  IInv'
<1>1. WidgetSound(query[s]) /\ query[s].text \in Text /\ disk \in [File -> Text \cup {Absent}]
  BY DEF IInv, WidgetSound, QueryWidgets
<1>2. CASE openFile(s)
  <2>1. PICK f \in File :
          /\ disk[f] # Absent
          /\ LET t == disk[f]
                 q == updateCurrentTab([query[s] EXCEPT !.text = t, !.script = t, !.filePath = f,
                                                        !.kept = t, !.cut = FALSE, !.textChanged = FALSE])
             IN \E q2 \in {q} \cup showAutocompletion(q, t) : query' = [query EXCEPT ![s] = q2]
    BY <1>2 DEF openFile
  <2> DEFINE t == disk[f]
             p == [query[s] EXCEPT !.text = t, !.script = t, !.filePath = f,
                                   !.kept = t, !.cut = FALSE, !.textChanged = FALSE]
             q == updateCurrentTab(p)
  <2>2. t \in Text
    BY <1>1, <2>1
  <2>3. p \in QueryWidgets /\ ShowsKept(p)
    <3> HIDE DEF t
    <3> QED BY <1>1, <2>2 DEF WidgetSound, ShowsKept, QueryWidgets
  <2>4. \E q2 \in {q} \cup showAutocompletion(q, t) : query' = [query EXCEPT ![s] = q2]
    BY <2>1
  <2> HIDE DEF t, p
  <2>5. WidgetSound(q)
    BY <2>3, UpdatedTab
  <2> HIDE DEF q
  <2>6. PICK q2 \in {q} \cup showAutocompletion(q, t) : query' = [query EXCEPT ![s] = q2]
    BY <2>4
  <2>7. WidgetSound(q2)
    BY <2>2, <2>5, Completing
  <2> QED BY <1>1, <1>2, <2>6, <2>7, WidgetStep DEF openFile, Step
<1>3. CASE saveToFile(s) \/ savebToFileAs(s)
  <2>1. PICK q : WidgetSound(q) /\ query' = [query EXCEPT ![s] = q]
    BY <1>3, SaveCases, SavedToFile
  <2>2. disk' \in [File -> Text \cup {Absent}]
    BY <1>1, <1>3, SaveCases, SavedToFile
  <2> QED BY <1>3, <2>1, <2>2, SaveCases, WidgetStep
<1> QED BY <1>2, <1>3

-----------------------------------------------------------------------------
(* The theorems.                                                              *)

\* The disjuncts of Next, by what they do; those on the current shell are about a
\* shell with a widget.
LEMMA NextCases ==
  ASSUME IInv, Next
  PROVE  \/ OpenFromExplorer
         \/ \E i \in DOMAIN tabs : \/ closeTab(i) \/ setCurrentIndex(i) \/ MoveTab(i)
                                   \/ ui_closeOtherTabsRequested(i) \/ ui_closeTabsToTheRightRequested(i)
         \/ nextTab \/ previousTab \/ openWelcomeTab
         \/ \E s \in DOMAIN query : \/ openNewTab(s) \/ duplicate(s) \/ execute(s)
                                    \/ ScriptExecuted(s) \/ AutocompleteReply(s)
                                    \/ Complete(s) \/ hideAutocompletion(s)
                                    \/ Type(s) \/ toggleComments(s) \/ onCompletionActivated(s)
                                    \/ openFile(s)
         \/ IsShell(Current) /\ Current \in DOMAIN query /\ (saveToFile(Current) \/ savebToFileAs(Current))
<1>1. ASSUME NEW i \in DOMAIN tabs, TabBar(i)
      PROVE  \/ closeTab(i) \/ setCurrentIndex(i) \/ MoveTab(i)
             \/ ui_closeOtherTabsRequested(i) \/ ui_closeTabsToTheRightRequested(i)
             \/ \E s \in DOMAIN query : openNewTab(s) \/ duplicate(s) \/ execute(s)
  BY <1>1, TabHasWidget DEF TabBar, ShellOfTab
<1>2. IsShell(Current) => Current \in DOMAIN query
  BY CurrentIsTab
<1>3. current # 0 => current \in DOMAIN tabs
  BY DEF IInv, BarSound
<1>4. CASE keyPressEvent
  BY <1>2, <1>3, <1>4 DEF keyPressEvent
<1>5. CASE TabMenu
  BY <1>2, <1>5 DEF TabMenu
<1>6. CASE FileMenu
  BY <1>2, <1>6 DEF FileMenu
<1>7. CASE Editor
  BY <1>2, <1>7 DEF Editor
<1>8. CASE \E s \in DOMAIN query : ScriptExecuted(s) \/ AutocompleteReply(s)
  BY <1>8
<1>9. CASE OpenFromExplorer
  BY <1>9
<1>10. CASE \E i \in DOMAIN tabs : TabBar(i)
  BY <1>1, <1>10
<1> QED BY <1>4, <1>5, <1>6, <1>7, <1>8, <1>9, <1>10 DEF Next

\* The invariant holds in every state of the work area.
THEOREM Invariance == Spec => []IInv
<1>1. Init => IInv
  <2> SUFFICES ASSUME Init PROVE IInv
    OBVIOUS
  <2>1. tabs \in Seq(Tab) /\ Len(tabs) = 1 /\ DOMAIN tabs = {1} /\ tabs[1] = Welcome /\ current = 1
    BY DEF Init, Tab
  <2>2. BarSound(tabs, current)
    <3>1. IsInjective(tabs)
      BY <2>1 DEF IsInjective
    <3>2. tabs # << >> /\ current \in 0 .. Len(tabs)
      BY <2>1 DEF Init
    <3> QED BY <2>1, <3>1, <3>2 DEF BarSound
  <2>3. Owned /\ \A s \in DOMAIN query : WidgetSound(query[s])
    BY <2>1 DEF Init, Owned, TabsOf
  <2> QED BY <2>2, <2>3, WorkAreaAssumption DEF Init, IInv
<1>2. IInv /\ [Next]_vars => IInv'
  <2> SUFFICES ASSUME IInv, [Next]_vars PROVE IInv'
    OBVIOUS
  <2>1. CASE UNCHANGED vars
    BY <2>1 DEF vars, IInv, BarSound, Owned
  <2>2. CASE Next
    <3>1. CASE \E i \in DOMAIN tabs : closeTab(i)
      BY <3>1, ClosedTab
    <3>2. CASE \E i \in DOMAIN tabs : ui_closeOtherTabsRequested(i) \/ ui_closeTabsToTheRightRequested(i)
      BY <3>2, ClosedOthers
    <3>3. CASE (\E i \in DOMAIN tabs : setCurrentIndex(i)) \/ nextTab \/ previousTab
      BY <3>3, SwitchedTab
    <3>4. CASE (\E i \in DOMAIN tabs : MoveTab(i)) \/ openWelcomeTab
      BY <3>4, ArrangedTabs
    <3>5. CASE OpenFromExplorer \/ \E s \in DOMAIN query : openNewTab(s) \/ duplicate(s)
      BY <3>5, OpenedFrom
    <3>6. CASE \E s \in DOMAIN query : \/ execute(s) \/ ScriptExecuted(s) \/ AutocompleteReply(s)
                                       \/ Complete(s) \/ hideAutocompletion(s)
      BY <3>6, UsedWidget
    <3>7. CASE \E s \in DOMAIN query : Type(s) \/ toggleComments(s) \/ onCompletionActivated(s)
      BY <3>7, EditedText
    <3>8. CASE \E s \in DOMAIN query : openFile(s) \/ saveToFile(s) \/ savebToFileAs(s)
      BY <3>8, FileStep
    <3> QED BY <2>2, <3>1, <3>2, <3>3, <3>4, <3>5, <3>6, <3>7, <3>8, NextCases
  <2> QED BY <2>1, <2>2
<1> QED BY <1>1, <1>2, PTL DEF Spec

\* The tabs, the widgets and the files keep their types.
THEOREM TypeCorrect == Spec => []TypeOK
<1>1. IInv => TypeOK
  <2> SUFFICES ASSUME IInv PROVE TypeOK
    OBVIOUS
  <2>1. shells \subseteq Shell
    BY DEF IInv, Owned, BarSound, TabsOf, Tab
  <2> QED BY <2>1 DEF IInv, Owned, BarSound, WidgetSound, TypeOK, Tab
<1> QED BY <1>1, Invariance, PTL

\* App owns exactly the shells that have a tab, however tabs are opened, closed, moved
\* and duplicated: QueryWidget's destructor closes the shell of every closed tab.
THEOREM ShellsHaveTabs == Spec => []ShellsAreTabs
<1>1. IInv => ShellsAreTabs
  BY DEF IInv, Owned, BarSound, TabsOf, ShellsAreTabs
<1> QED BY <1>1, Invariance, PTL

\* A tab without the mark of changes shows what was last loaded or written, unless that
\* write failed half way: _isTextChanged and the mark agree after every step.
THEOREM MarksTruthful == Spec => []UnstarredIsSaved
<1>1. IInv => UnstarredIsSaved
  BY DEF IInv, WidgetSound, ShowsKept, UnstarredIsSaved
<1> QED BY <1>1, Invariance, PTL

\* saveToFile() hands the text of the editor to the shell before it writes: no step
\* puts anything but the text of the current tab, or what a failing write leaves of it,
\* into a file.
THEOREM SavesAreShown == Spec => SavedIsShown
<1> DEFINE Shown == \A f \in File : disk'[f] # disk[f] =>
                       /\ IsShell(Current)
                       /\ disk'[f] \in {query[Current].text} \cup Cut[query[Current].text]
<1>1. IInv /\ [Next]_vars => [Shown]_vars
  <2> SUFFICES ASSUME IInv, Next PROVE Shown
    OBVIOUS
  <2>1. ASSUME disk' = disk PROVE Shown
    BY <2>1
  <2>2. CASE IsShell(Current) /\ Current \in DOMAIN query /\ (saveToFile(Current) \/ savebToFileAs(Current))
    <3>1. disk' = disk \/ \E f \in File, t \in WrittenTo(query[Current].text) : disk' = [disk EXCEPT ![f] = t]
      BY <2>2, SaveCases, SavedToFile
    <3> QED BY <2>2, <3>1 DEF IInv, WrittenTo
  <2>3. CASE \E i \in DOMAIN tabs : \/ closeTab(i) \/ setCurrentIndex(i) \/ MoveTab(i)
                                    \/ ui_closeOtherTabsRequested(i) \/ ui_closeTabsToTheRightRequested(i)
    BY <2>1, <2>3 DEF closeTab, setCurrentIndex, MoveTab, ui_closeOtherTabsRequested,
                      ui_closeTabsToTheRightRequested
  <2>4. CASE nextTab \/ previousTab \/ openWelcomeTab
    BY <2>1, <2>4 DEF nextTab, previousTab, setCurrentIndex, openWelcomeTab
  <2>5. CASE OpenFromExplorer \/ \E s \in DOMAIN query : openNewTab(s) \/ duplicate(s)
    BY <2>1, <2>5 DEF OpenFromExplorer, openNewTab, duplicate, openShell
  <2>6. CASE \E s \in DOMAIN query : \/ execute(s) \/ ScriptExecuted(s) \/ AutocompleteReply(s)
                                     \/ Complete(s) \/ hideAutocompletion(s)
    BY <2>1, <2>6 DEF execute, ScriptExecuted, AutocompleteReply, Complete, hideAutocompletion
  <2>7. CASE \E s \in DOMAIN query : Type(s) \/ toggleComments(s) \/ onCompletionActivated(s) \/ openFile(s)
    BY <2>1, <2>7 DEF Type, toggleComments, onCompletionActivated, openFile
  <2> QED BY <2>2, <2>3, <2>4, <2>5, <2>6, <2>7, NextCases
<1> QED BY <1>1, Invariance, PTL DEF Spec, SavedIsShown

-----------------------------------------------------------------------------
\* The requests of the dialogs and the menu.
Requests == [uuid : Nat, form : {"single", "unnamed", "named"}, type : {"primary", "test"}]

\* No two connections are one object, share a uuid or were imported from one file.
IdsApart(c) == \A j, k \in DOMAIN c : c[j].id = c[k].id => j = k
UuidsApart(c) == \A j, k \in DOMAIN c : c[j].uuid # 0 /\ c[j].uuid = c[k].uuid => j = k
OriginsApart(c) == \A j, k \in DOMAIN c : c[j].origin # "none" /\ c[j].origin = c[k].origin => j = k

\* Each connection is as one dialog left it.
WholeForms(c) == \A k \in DOMAIN c : \E f \in {"single", "unnamed", "named"} : c[k].parts = Whole(f)

\* None was imported, and the uuid an import may bring is free.
NothingImported(c) == \A k \in DOMAIN c : c[k].origin = "none" /\ c[k].uuid # OldUuid

RecordsSound(c) == IdsApart(c) /\ UuidsApart(c) /\ OriginsApart(c) /\ WholeForms(c)

\* What holds of the settings in memory and of those in the file.
StoreSound(s) ==
  /\ s \in Stored
  /\ RecordsSound(s.connections)
  /\ ~ s.imported => NothingImported(s.connections)

\* The dialog edits a connection that is there, and keeps where it came from.
EditSound(c, f) == \E k \in DOMAIN c : c[k].id = f.target /\ c[k].origin = f.copy.origin

\* The dialog of a new connection: its object and its uuid are nobody else's.
NewSound(c, f) ==
  /\ f.copy.origin = "none" /\ f.copy.uuid # OldUuid
  /\ \A k \in DOMAIN c : c[k].id # f.copy.id /\ (f.copy.uuid # 0 => c[k].uuid # f.copy.uuid)

FormSound ==
  /\ run = "form" <=> form # NULL
  /\ form # NULL => /\ form \in OpenForm
                    /\ form.for = "edit" => EditSound(settings.connections, form)
                    /\ form.for # "edit" => NewSound(settings.connections, form)

\* The settings in memory and those a start would find.
StoresSound == StoreSound(settings) /\ (file # NULL => StoreSound(file))

\* The rest of the state is of its kind.
SettingsTyped ==
  /\ old \in Old /\ damaged \in BOOLEAN /\ ops \in 0 .. MaxOps
  /\ run \in {"off", "eula", "style", "main", "list", "form"}
  /\ items \in Seq(Nat) /\ listed \in Seq(Nat)
  /\ pending \subseteq Requests /\ IsFiniteSet(pending) /\ Cardinality(pending) <= MaxPending

\* The inductive invariant of the settings.
SettingsInv == StoresSound /\ SettingsTyped /\ FormSound /\ ListShowsConnections

-----------------------------------------------------------------------------
(* Numbers that are not used.                                                 *)

\* Pairs of numbers, the smaller one first.
LessThan == {p \in Nat \X Nat : p[1] < p[2]}

\* Every set of numbers that is not empty has a least one.
LEMMA LeastOf == ASSUME NEW T, T \subseteq Nat, T # {} PROVE \E n \in T : \A m \in T : n <= m
<1>1. IsWellFoundedOn(LessThan, Nat)
  BY NatLessThanWellFounded DEF LessThan, OpToRel
<1>2. PICK n \in T : \A m \in T : ~ (<<m, n>> \in LessThan)
  BY <1>1, WFMin
<1>3. ASSUME NEW m \in T PROVE n <= m
  <2>1. m \in Nat /\ n \in Nat /\ ~ (<<m, n>> \in LessThan)
    BY <1>2
  <2> QED BY <2>1 DEF LessThan
<1> QED BY <1>3

\* How many numbers up to u are free.
LEMMA FreeUpTo ==
  ASSUME NEW used, IsFiniteSet(used), NEW u \in Nat
  PROVE  /\ Cardinality((1 .. u) \ used) \in Nat
         /\ u = 0 => Cardinality((1 .. u) \ used) = 0
         /\ u + 1 \in used => Cardinality((1 .. u + 1) \ used) = Cardinality((1 .. u) \ used)
         /\ u + 1 \notin used => Cardinality((1 .. u + 1) \ used) = Cardinality((1 .. u) \ used) + 1
         /\ Cardinality((1 .. u) \ used) >= u - Cardinality(used)
<1> DEFINE F == (1 .. u) \ used
           G == (1 .. u + 1) \ used
<1>1. IsFiniteSet(1 .. u) /\ Cardinality(1 .. u) = u
  <2>1. IsFiniteSet(1 .. u) /\ Cardinality(1 .. u) = IF 1 > u THEN 0 ELSE u - 1 + 1
    BY FS_Interval
  <2> QED BY <2>1
<1>2. IsFiniteSet(F) /\ Cardinality(F) = Cardinality(1 .. u) - Cardinality((1 .. u) \cap used)
  BY <1>1, FS_Difference
<1>3. IsFiniteSet((1 .. u) \cap used) /\ Cardinality((1 .. u) \cap used) <= Cardinality(used)
  <2>1. (1 .. u) \cap used \subseteq used
    OBVIOUS
  <2> QED BY <2>1, FS_Subset
<1>4. /\ Cardinality(F) \in Nat /\ Cardinality(used) \in Nat
      /\ Cardinality((1 .. u) \cap used) \in Nat
  BY <1>2, <1>3, FS_CardinalityType
<1>5. u = 0 => Cardinality(F) = 0
  BY <1>1, <1>2, <1>4
<1>6. u + 1 \in used => G = F
  OBVIOUS
<1>7. u + 1 \notin used => G = F \cup {u + 1} /\ u + 1 \notin F
  OBVIOUS
<1>8. u + 1 \notin used => Cardinality(G) = Cardinality(F) + 1
  <2> HIDE DEF F, G
  <2> QED BY <1>2, <1>7, FS_AddElement
<1>9. Cardinality(F) >= u - Cardinality(used)
  <2> HIDE DEF F
  <2> QED BY <1>1, <1>2, <1>3, <1>4
<1> HIDE DEF F, G
<1> QED BY <1>4, <1>5, <1>6, <1>8, <1>9 DEF F, G

\* There is an n-th free number, and it is free.
LEMMA UnusedIsFree ==
  ASSUME NEW used, IsFiniteSet(used), NEW n \in Nat, n # 0
  PROVE  /\ Unused(used, n) \in Nat /\ Unused(used, n) # 0 /\ Unused(used, n) \notin used
         /\ Cardinality((1 .. Unused(used, n)) \ used) = n
<1> DEFINE Free(u) == Cardinality((1 .. u) \ used)
           T == {v \in Nat : Free(v) >= n}
           top == Cardinality(used) + n
<1>1. Cardinality(used) \in Nat /\ top \in Nat
  BY FS_CardinalityType
<1>2. top \in T
  <2>1. Free(top) \in Nat /\ Free(top) >= top - Cardinality(used)
    BY <1>1, FreeUpTo
  <2> QED BY <1>1, <2>1
<1>3. PICK u \in T : \A v \in T : u <= v
  <2>1. T \subseteq Nat /\ T # {}
    BY <1>2
  <2> HIDE DEF T
  <2> QED BY <2>1, LeastOf
<1>4. u \in Nat /\ u <= top /\ Free(u) >= n
  BY <1>2, <1>3
<1>5. u # 0
  <2>1. u = 0 => Free(u) = 0
    BY <1>4, FreeUpTo
  <2> QED BY <1>4, <2>1
<1>6. u - 1 \in Nat /\ (u - 1) + 1 = u
  BY <1>4, <1>5
<1>7. Free(u - 1) < n
  <2>1. u - 1 \notin T
    BY <1>3, <1>4, <1>6
  <2>2. Free(u - 1) \in Nat
    BY <1>6, FreeUpTo
  <2> QED BY <1>6, <2>1, <2>2
<1>8. /\ Free(u - 1) \in Nat
      /\ u \in used => Free(u) = Free(u - 1)
      /\ u \notin used => Free(u) = Free(u - 1) + 1
  BY <1>6, FreeUpTo
<1> HIDE DEF Free, T
<1>9. u \notin used /\ Free(u) = n
  BY <1>4, <1>7, <1>8
<1>10. \E w \in 1 .. (Cardinality(used) + n) : w \notin used /\ Cardinality((1 .. w) \ used) = n
  <2>1. u \in 1 .. (Cardinality(used) + n)
    BY <1>1, <1>4, <1>5
  <2>2. u \notin used /\ Cardinality((1 .. u) \ used) = n
    BY <1>9 DEF Free
  <2> QED BY <2>1, <2>2, Zenon
<1>11. /\ Unused(used, n) \in 1 .. (Cardinality(used) + n)
       /\ Unused(used, n) \notin used /\ Cardinality((1 .. Unused(used, n)) \ used) = n
  BY <1>10, Zenon DEF Unused
<1> QED BY <1>1, <1>11

-----------------------------------------------------------------------------
(* Stored connections.                                                        *)

\* A function on 1 .. n is a sequence.
LEMMA FunctionIsSeq == ASSUME NEW S, NEW n \in Nat, NEW f \in [1 .. n -> S] PROVE f \in Seq(S) /\ Len(f) = n
OBVIOUS

\* Two connections that differ at most in the cached name of the set.
Alike(r, q) == r.id = q.id /\ r.uuid = q.uuid /\ r.parts = q.parts /\ r.origin = q.origin

\* Connections taken from others, each at most once, are as sound as those.
LEMMA Rearranged ==
  ASSUME NEW c, NEW d, NEW p,
         \A k \in DOMAIN d : p[k] \in DOMAIN c /\ Alike(d[k], c[p[k]]),
         \A j, k \in DOMAIN d : p[j] = p[k] => j = k,
         RecordsSound(c)
  PROVE  RecordsSound(d) /\ (NothingImported(c) => NothingImported(d))
<1>1. \A k \in DOMAIN d : /\ p[k] \in DOMAIN c
                          /\ d[k].id = c[p[k]].id /\ d[k].uuid = c[p[k]].uuid
                          /\ d[k].parts = c[p[k]].parts /\ d[k].origin = c[p[k]].origin
  BY Zenon DEF Alike
<1>2. ASSUME NEW j \in DOMAIN d, NEW k \in DOMAIN d PROVE p[j] = p[k] => j = k
  OBVIOUS
<1>3. IdsApart(d)
  BY <1>1, <1>2 DEF IdsApart, RecordsSound
<1>4. UuidsApart(d)
  BY <1>1, <1>2 DEF UuidsApart, RecordsSound
<1>5. OriginsApart(d)
  BY <1>1, <1>2 DEF OriginsApart, RecordsSound
<1>6. WholeForms(d)
  BY <1>1 DEF WholeForms, RecordsSound
<1>7. NothingImported(c) => NothingImported(d)
  BY <1>1, Zenon DEF NothingImported
<1> QED BY <1>3, <1>4, <1>5, <1>6, <1>7, Zenon DEF RecordsSound

\* The same place by place.
LEMMA AlikeSound ==
  ASSUME NEW c, NEW d, DOMAIN d = DOMAIN c, \A k \in DOMAIN c : Alike(d[k], c[k]), RecordsSound(c)
  PROVE  RecordsSound(d) /\ (NothingImported(c) => NothingImported(d))
<1> DEFINE p == [k \in DOMAIN d |-> k]
<1>1. \A k \in DOMAIN d : p[k] \in DOMAIN c /\ Alike(d[k], c[p[k]])
  OBVIOUS
<1>2. \A j, k \in DOMAIN d : p[j] = p[k] => j = k
  OBVIOUS
<1> HIDE DEF p
<1> QED BY <1>1, <1>2, Rearranged, Zenon

\* The members of a store.
LEMMA StoredMembers ==
  ASSUME NEW s \in Stored
  PROVE  /\ s.connections \in Seq(Record) /\ s.imported \in BOOLEAN /\ s.eula \in BOOLEAN
         /\ s.option \in BOOLEAN /\ s.shortcutsOff \in BOOLEAN
         /\ Len(s.connections) \in Nat /\ DOMAIN s.connections = 1 .. Len(s.connections)
         /\ \A k \in DOMAIN s.connections : s.connections[k] \in Record
<1>1. /\ s.connections \in Seq(Record) /\ s.imported \in BOOLEAN /\ s.eula \in BOOLEAN
      /\ s.option \in BOOLEAN /\ s.shortcutsOff \in BOOLEAN
  BY DEF Stored
<1> QED BY <1>1, LenProperties

\* A store with other connections.
LEMMA WithConnections ==
  ASSUME NEW s \in Stored, NEW d \in Seq(Record)
  PROVE  LET t == [s EXCEPT !.connections = d]
         IN  /\ t \in Stored /\ t.connections = d /\ t.imported = s.imported
             /\ t.eula = s.eula /\ t.option = s.option /\ t.shortcutsOff = s.shortcutsOff
BY DEF Stored

LEMMA RearrangedStore ==
  ASSUME NEW s, StoreSound(s), NEW d \in Seq(Record), RecordsSound(d),
         NothingImported(s.connections) => NothingImported(d)
  PROVE  StoreSound([s EXCEPT !.connections = d])
<1>1. s \in Stored
  BY DEF StoreSound
<1> DEFINE t == [s EXCEPT !.connections = d]
<1>2. t \in Stored /\ t.connections = d /\ t.imported = s.imported
  BY <1>1, WithConnections
<1> HIDE DEF t
<1>3. StoreSound(t)
  BY <1>2, Zenon DEF StoreSound
<1> QED BY <1>3 DEF t

\* convertToMap writes what was sound.
LEMMA ConvertedSound == ASSUME NEW s, StoreSound(s) PROVE StoreSound(convertToMap(s))
<1> DEFINE c == s.connections
           d == [k \in DOMAIN c |-> toVariant(c[k])]
<1>1. /\ s \in Stored /\ c \in Seq(Record) /\ Len(c) \in Nat /\ DOMAIN c = 1 .. Len(c)
      /\ \A k \in DOMAIN c : c[k] \in Record
  BY StoredMembers DEF StoreSound
<1> HIDE DEF c
<1>2. ASSUME NEW k \in DOMAIN c PROVE d[k] \in Record /\ Alike(d[k], c[k])
  <2>1. d[k] = toVariant(c[k]) /\ c[k] \in Record
    BY <1>1
  <2>2. ASSUME NEW r \in Record PROVE toVariant(r) \in Record /\ Alike(toVariant(r), r)
    BY DEF toVariant, Alike, Record, IsReplicaSet
  <2> QED BY <2>1, <2>2
<1>3. d \in Seq(Record) /\ DOMAIN d = DOMAIN c
  <2>1. d \in [1 .. Len(c) -> Record]
    BY <1>1, <1>2
  <2> HIDE DEF d
  <2> QED BY <1>1, <2>1, FunctionIsSeq
<1>4. convertToMap(s) = [s EXCEPT !.connections = d]
  BY <1>1 DEF convertToMap, c, Stored
<1> HIDE DEF d
<1>5. RecordsSound(c)
  BY DEF StoreSound, c
<1>6. RecordsSound(d) /\ (NothingImported(c) => NothingImported(d))
  BY <1>2, <1>3, <1>5, AlikeSound
<1>7. StoreSound([s EXCEPT !.connections = d])
  BY <1>3, <1>6, RearrangedStore DEF c
<1> QED BY <1>4, <1>7

\* The identities and uuids of connections are finitely many.
LEMMA FiniteKeys == ASSUME NEW c \in Seq(Record) PROVE IsFiniteSet(Ids(c)) /\ IsFiniteSet(Uuids(c))
<1>1. Len(c) \in Nat /\ DOMAIN c = 1 .. Len(c)
  BY LenProperties
<1>2. IsFiniteSet(DOMAIN c)
  BY <1>1, FS_Interval
<1> DEFINE f == [k \in DOMAIN c |-> c[k].id]
           g == [k \in DOMAIN c |-> c[k].uuid]
<1>3. f \in Surjection(DOMAIN c, Ids(c))
  BY DEF Surjection, Ids, Range
<1>4. g \in Surjection(DOMAIN c, Uuids(c))
  BY DEF Surjection, Uuids, Range
<1> HIDE DEF f, g
<1> QED BY <1>2, <1>3, <1>4, FS_Surjection

\* The connections as fromVariant reads them.
Read(c) == [k \in DOMAIN c |-> fromVariant(c, k)]

\* How many of the first k connections have no uuid.
Nameless(c, k) == {j \in 1 .. k : c[j].uuid = 0}

\* The place of a uuid among those that are free.
Rank(c, u) == Cardinality((1 .. u) \ (Uuids(c) \cup {OldUuid}))

\* What is read of one connection: a uuid that is given is nobody's, and tells it
\* from the others that are given one.
ReadAs(c, k, r) ==
  /\ r \in Record /\ r.id = k /\ r.parts = c[k].parts /\ r.origin = c[k].origin
  /\ c[k].uuid # 0 => r.uuid = c[k].uuid
  /\ c[k].uuid = 0 => /\ r.uuid \notin Uuids(c) /\ r.uuid # OldUuid /\ r.uuid # 0
                      /\ Rank(c, r.uuid) = Cardinality(Nameless(c, k))

LEMMA ReadOne == ASSUME NEW c \in Seq(Record), NEW k \in DOMAIN c PROVE ReadAs(c, k, fromVariant(c, k))
<1> DEFINE used == Uuids(c) \cup {OldUuid}
           n == Cardinality(Nameless(c, k))
<1>1. Len(c) \in Nat /\ DOMAIN c = 1 .. Len(c) /\ c[k] \in Record /\ k \in Nat
  BY LenProperties
<1>2. IsFiniteSet(used)
  BY FiniteKeys, FS_Singleton, FS_Union
<1>3. IsFiniteSet(Nameless(c, k)) /\ n \in Nat
  <2>1. IsFiniteSet(1 .. k) /\ Nameless(c, k) \in SUBSET (1 .. k)
    BY <1>1, FS_Interval DEF Nameless
  <2> QED BY <2>1, FS_Subset, FS_CardinalityType
<1>4. c[k].uuid = 0 => n # 0
  <2>1. c[k].uuid = 0 => k \in Nameless(c, k)
    BY <1>1 DEF Nameless
  <2>2. n = 0 => Nameless(c, k) = {}
    BY <1>3, FS_EmptySet
  <2> QED BY <2>1, <2>2
<1>5. c[k].uuid = 0 => /\ Unused(used, n) \in Nat /\ Unused(used, n) # 0 /\ Unused(used, n) \notin used
                       /\ Cardinality((1 .. Unused(used, n)) \ used) = n
  BY <1>2, <1>3, <1>4, UnusedIsFree
<1>6. fromVariant(c, k) = [c[k] EXCEPT !.id = k, !.uuid = IF c[k].uuid = 0 THEN Unused(used, n) ELSE c[k].uuid]
  BY <1>1 DEF fromVariant, Nameless, Record
<1> HIDE DEF used, n
<1>7. c[k].uuid \in Nat
  BY <1>1 DEF Record
<1> DEFINE r == fromVariant(c, k)
<1>8. CASE c[k].uuid = 0
  <2>1. PICK u : u = Unused(used, n)
    OBVIOUS
  <2>2. u \in Nat /\ u # 0 /\ u \notin Uuids(c) /\ u # OldUuid /\ Rank(c, u) = n
    BY <1>5, <1>8, <2>1 DEF used, Rank
  <2>3. r = [c[k] EXCEPT !.id = k, !.uuid = u]
    BY <1>6, <1>8, <2>1
  <2>4. r \in Record /\ r.id = k /\ r.uuid = u /\ r.parts = c[k].parts /\ r.origin = c[k].origin
    BY <1>1, <2>2, <2>3 DEF Record
  <2> QED BY <1>8, <2>2, <2>4, Zenon DEF n, ReadAs
<1>9. CASE c[k].uuid # 0
  <2>1. r = [c[k] EXCEPT !.id = k, !.uuid = c[k].uuid]
    BY <1>6, <1>9
  <2>2. r \in Record /\ r.id = k /\ r.uuid = c[k].uuid /\ r.parts = c[k].parts /\ r.origin = c[k].origin
    BY <1>1, <1>7, <2>1 DEF Record
  <2> QED BY <1>9, <2>2, Zenon DEF ReadAs
<1> QED BY <1>8, <1>9

\* The connections read are as sound as those in the file, and numbered.
LEMMA ReadSound ==
  ASSUME NEW c \in Seq(Record), RecordsSound(c)
  PROVE  /\ Read(c) \in Seq(Record) /\ RecordsSound(Read(c))
         /\ Len(Read(c)) = Len(c) /\ \A k \in 1 .. Len(c) : Read(c)[k].id = k
         /\ NothingImported(c) => NothingImported(Read(c))
<1> DEFINE d == Read(c)
<1>1. Len(c) \in Nat /\ DOMAIN c = 1 .. Len(c)
  BY LenProperties
<1>2. d \in [1 .. Len(c) -> Record]
  <2>1. \A k \in DOMAIN c : fromVariant(c, k) \in Record
    BY ReadOne DEF ReadAs
  <2> QED BY <1>1, <2>1 DEF Read
<1>3. d \in Seq(Record) /\ Len(d) = Len(c) /\ DOMAIN d = DOMAIN c
  <2> HIDE DEF d
  <2> QED BY <1>1, <1>2, FunctionIsSeq
<1>4. \A k \in DOMAIN c : ReadAs(c, k, d[k])
  BY ReadOne DEF Read
<1> HIDE DEF d
<1>5. IdsApart(d)
  BY <1>3, <1>4 DEF IdsApart, ReadAs
<1>6. OriginsApart(d)
  BY <1>3, <1>4 DEF OriginsApart, RecordsSound, ReadAs
<1>7. WholeForms(d)
  BY <1>3, <1>4 DEF WholeForms, RecordsSound, ReadAs
<1>8. NothingImported(c) => NothingImported(d)
  BY <1>3, <1>4 DEF NothingImported, ReadAs
<1>9. ASSUME NEW j \in DOMAIN c, NEW k \in DOMAIN c, c[j].uuid = 0, c[k].uuid = 0, j < k
      PROVE  d[j].uuid # d[k].uuid
  <2>1. j \in Nat /\ k \in Nat
    BY <1>1
  <2>2. IsFiniteSet(Nameless(c, k))
    <3>1. IsFiniteSet(1 .. k) /\ Nameless(c, k) \in SUBSET (1 .. k)
      BY <2>1, FS_Interval DEF Nameless
    <3> QED BY <3>1, FS_Subset
  <2>3. Nameless(c, j) \in SUBSET Nameless(c, k)
    BY <1>9, <2>1 DEF Nameless
  <2>4. k \in Nameless(c, k) /\ k \notin Nameless(c, j)
    BY <1>1, <1>9, <2>1 DEF Nameless
  <2>5. Cardinality(Nameless(c, k)) # Cardinality(Nameless(c, j))
    BY <2>2, <2>3, <2>4, FS_Subset
  <2> QED BY <1>4, <1>9, <2>5 DEF ReadAs
<1>10. UuidsApart(d)
  <2> SUFFICES ASSUME NEW j \in DOMAIN c, NEW k \in DOMAIN c, d[j].uuid # 0, d[j].uuid = d[k].uuid
               PROVE  j = k
    BY <1>3 DEF UuidsApart
  <2>1. \A i \in DOMAIN c : c[i].uuid \in Uuids(c)
    BY DEF Uuids, Range
  <2>2. CASE c[j].uuid # 0 /\ c[k].uuid # 0
    BY <1>4, <2>2 DEF RecordsSound, UuidsApart, ReadAs
  <2>3. CASE c[j].uuid = 0 /\ c[k].uuid # 0
    BY <1>4, <2>1, <2>3 DEF ReadAs
  <2>4. CASE c[j].uuid # 0 /\ c[k].uuid = 0
    BY <1>4, <2>1, <2>4 DEF ReadAs
  <2>5. CASE c[j].uuid = 0 /\ c[k].uuid = 0
    <3>1. j \in Nat /\ k \in Nat
      BY <1>1
    <3>2. ~ (j < k) /\ ~ (k < j)
      BY <1>9, <2>5
    <3> QED BY <3>1, <3>2
  <2> QED BY <2>2, <2>3, <2>4, <2>5
<1>11. RecordsSound(d)
  BY <1>5, <1>6, <1>7, <1>10 DEF RecordsSound
<1>12. \A k \in 1 .. Len(c) : d[k].id = k
  BY <1>1, <1>4 DEF ReadAs
<1> QED BY <1>3, <1>8, <1>11, <1>12 DEF d

\* A connection is added that is told from all the others.
LEMMA AppendedSound ==
  ASSUME NEW c \in Seq(Record), RecordsSound(c), NEW r \in Record,
         \A k \in DOMAIN c : /\ c[k].id # r.id
                             /\ r.uuid # 0 => c[k].uuid # r.uuid
                             /\ r.origin # "none" => c[k].origin # r.origin,
         \E f \in {"single", "unnamed", "named"} : r.parts = Whole(f)
  PROVE  /\ Append(c, r) \in Seq(Record) /\ RecordsSound(Append(c, r))
         /\ NothingImported(c) /\ r.origin = "none" /\ r.uuid # OldUuid => NothingImported(Append(c, r))
<1> DEFINE d == Append(c, r)
<1>1. Len(c) \in Nat /\ DOMAIN c = 1 .. Len(c)
  BY LenProperties
<1>2. /\ d \in Seq(Record) /\ Len(d) = Len(c) + 1
      /\ \A k \in 1 .. Len(c) : d[k] = c[k]
      /\ d[Len(c) + 1] = r
  BY AppendProperties
<1>3. DOMAIN d = 1 .. Len(d)
  BY <1>2, LenProperties
<1> HIDE DEF d
<1>4. \A k \in DOMAIN d : (k \in DOMAIN c /\ d[k] = c[k]) \/ (k = Len(c) + 1 /\ d[k] = r)
  <2>1. \A k \in DOMAIN d : k \in DOMAIN c \/ k = Len(c) + 1
    BY <1>1, <1>2, <1>3
  <2> QED BY <1>1, <1>2, <2>1
<1>5. IdsApart(d)
  BY <1>4 DEF IdsApart, RecordsSound
<1>6. UuidsApart(d)
  BY <1>4 DEF UuidsApart, RecordsSound
<1>7. OriginsApart(d)
  BY <1>4 DEF OriginsApart, RecordsSound
<1>8. WholeForms(d)
  BY <1>4 DEF WholeForms, RecordsSound
<1>9. NothingImported(c) /\ r.origin = "none" /\ r.uuid # OldUuid => NothingImported(d)
  BY <1>4 DEF NothingImported
<1>10. RecordsSound(d)
  BY <1>5, <1>6, <1>7, <1>8 DEF RecordsSound
<1> QED BY <1>2, <1>9, <1>10 DEF d

\* importConnections: what it adds was never added before.
LEMMA ImportedSound ==
  ASSUME NEW s, StoreSound(s), old \in Old,
         \A k \in 1 .. Len(s.connections) : s.connections[k].id = k
  PROVE  StoreSound(importConnections(s))
<1> DEFINE c == s.connections
           d == importConnectionsFromOldVersion(c)
<1>1. /\ s \in Stored /\ c \in Seq(Record) /\ Len(c) \in Nat /\ DOMAIN c = 1 .. Len(c)
      /\ RecordsSound(c)
  BY StoredMembers DEF StoreSound
<1>2. CASE s.imported \/ old = "none"
  BY <1>2 DEF importConnections
<1>3. CASE ~ s.imported /\ old # "none"
  <2>1. NothingImported(c)
    BY <1>3 DEF StoreSound
  <2>2. \A k \in DOMAIN c : c[k].id # Len(c) + 1
    BY <1>1
  <2>3. \A k \in DOMAIN c : c[k].origin = "none" /\ c[k].uuid # OldUuid
    BY <2>1 DEF NothingImported
  <2> HIDE DEF c
  <2>4. ASSUME NEW r \in Record, r.id = Len(c) + 1, r.uuid \in {0, OldUuid}, r.origin # "none",
               \E f \in {"single", "unnamed", "named"} : r.parts = Whole(f)
        PROVE  Append(c, r) \in Seq(Record) /\ RecordsSound(Append(c, r))
    BY <1>1, <2>2, <2>3, <2>4, AppendedSound
  <2>5. d \in Seq(Record) /\ RecordsSound(d)
    <3>1. CASE old = "0.8.5"
      <4> DEFINE r == [id |-> Len(c) + 1, uuid |-> 0, parts |-> Whole("single"), cached |-> FALSE,
                       origin |-> "0.8.5", phrase |-> FALSE]
      <4>1. r \in Record /\ r.id = Len(c) + 1 /\ r.uuid = 0 /\ r.origin # "none" /\ r.parts = Whole("single")
        BY <1>1, <3>1 DEF Record, Whole
      <4>2. d = c \/ d = Append(c, r)
        BY <3>1 DEF importConnectionsFromOldVersion, importConnectionsFrom_0_8_5
      <4> HIDE DEF r, d
      <4>3. Append(c, r) \in Seq(Record) /\ RecordsSound(Append(c, r))
        BY <2>4, <4>1
      <4> QED BY <1>1, <4>2, <4>3
    <3>2. CASE old = "newer"
      <4> DEFINE r == [id |-> Len(c) + 1, uuid |-> OldUuid, parts |-> Whole("unnamed"), cached |-> FALSE,
                       origin |-> "newer", phrase |-> FALSE]
      <4>1. r \in Record /\ r.id = Len(c) + 1 /\ r.uuid = OldUuid /\ r.origin # "none" /\ r.parts = Whole("unnamed")
        BY <1>1, <3>2 DEF Record, Whole, OldUuid
      <4>2. d = Append(c, r)
        BY <3>2 DEF importConnectionsFromOldVersion
      <4> HIDE DEF r, d
      <4>3. Append(c, r) \in Seq(Record) /\ RecordsSound(Append(c, r))
        BY <2>4, <4>1
      <4> QED BY <4>2, <4>3
    <3>3. CASE old \notin {"0.8.5", "newer"}
      BY <1>1, <3>3 DEF importConnectionsFromOldVersion
    <3> QED BY <3>1, <3>2, <3>3
  <2>6. importConnections(s) = [s EXCEPT !.connections = d, !.imported = TRUE]
    BY <1>3 DEF importConnections, c
  <2> HIDE DEF d
  <2> DEFINE t == [s EXCEPT !.connections = d, !.imported = TRUE]
  <2>7. t \in Stored /\ t.connections = d /\ t.imported
    BY <1>1, <2>5 DEF Stored
  <2> HIDE DEF t
  <2>8. StoreSound(t)
    BY <2>5, <2>7 DEF StoreSound
  <2> QED BY <2>6, <2>8 DEF t
<1> QED BY <1>1, <1>2, <1>3 DEF StoreSound, Stored

\* loadFromMap.
LEMMA LoadedSound == ASSUME NEW s, StoreSound(s), old \in Old PROVE StoreSound(loadFromMap(s))
<1> DEFINE c == s.connections
           t == [s EXCEPT !.connections = Read(c)]
<1>1. s \in Stored /\ c \in Seq(Record) /\ RecordsSound(c)
  BY StoredMembers DEF StoreSound
<1>2. /\ Read(c) \in Seq(Record) /\ RecordsSound(Read(c))
      /\ Len(Read(c)) = Len(c) /\ \A k \in 1 .. Len(c) : Read(c)[k].id = k
      /\ NothingImported(c) => NothingImported(Read(c))
  BY <1>1, ReadSound
<1>3. StoreSound(t)
  BY <1>2, RearrangedStore
<1>4. t.connections = Read(c)
  BY <1>1, <1>2, WithConnections
<1>5. loadFromMap(s) = importConnections(t)
  BY <1>1 DEF loadFromMap, Read, Stored
<1> HIDE DEF t, c
<1>6. StoreSound(importConnections(t))
  BY <1>2, <1>3, <1>4, ImportedSound
<1> QED BY <1>5, <1>6

LEMMA BlankSound == ASSUME NEW g \in BOOLEAN PROVE StoreSound(Blank(g))
<1>1. Blank(g) \in Stored /\ Blank(g).connections = << >>
  BY DEF Blank, Stored
<1> QED BY <1>1 DEF StoreSound, RecordsSound, IdsApart, UuidsApart, OriginsApart, WholeForms, NothingImported

\* save: the file that is found afterwards is one a save wrote as a whole, or none.
LEMMA SavedSound ==
  ASSUME NEW s, StoreSound(s), file # NULL => StoreSound(file), Save(s)
  PROVE  (file' # NULL => StoreSound(file')) /\ damaged' \in BOOLEAN
<1>1. StoreSound(convertToMap(s))
  BY ConvertedSound
<1>2. CASE file' = convertToMap(s) /\ damaged' = FALSE
  BY <1>1, <1>2
<1>3. CASE file' \in {file, NULL} /\ damaged' = TRUE
  BY <1>3
<1> QED BY <1>2, <1>3 DEF Save

-----------------------------------------------------------------------------
(* The steps of the settings.                                                 *)

LEMMA InitSettingsInv == SettingsInit => SettingsInv
<1> SUFFICES ASSUME SettingsInit PROVE SettingsInv
  OBVIOUS
<1> USE DEF SettingsInit
<1>1. StoresSound
  BY BlankSound DEF StoresSound
<1>2. SettingsTyped
  <2>1. IsFiniteSet({}) /\ Cardinality({}) = 0
    BY FS_EmptySet
  <2>2. 0 \in 0 .. MaxOps /\ 0 <= MaxPending
    BY SettingsAssumption
  <2>3. pending = {} /\ ops = 0 /\ items = << >> /\ listed = << >> /\ run = "off" /\ damaged = FALSE /\ old \in Old
    OBVIOUS
  <2>4. ops \in 0 .. MaxOps /\ items \in Seq(Nat) /\ listed \in Seq(Nat)
    BY <2>2, <2>3
  <2>5. pending \subseteq Requests /\ IsFiniteSet(pending) /\ Cardinality(pending) <= MaxPending
    BY <2>1, <2>2, <2>3
  <2>6. damaged \in BOOLEAN
    BY <2>3, Zenon
  <2> QED BY <2>3, <2>4, <2>5, <2>6 DEF SettingsTyped
<1>3. FormSound /\ ListShowsConnections
  BY DEF FormSound, ListShowsConnections
<1> QED BY <1>1, <1>2, <1>3 DEF SettingsInv

\* Outside the dialogs there is neither a list nor a form to keep.
LEMMA NoDialogStep ==
  ASSUME SettingsInv, StoresSound', SettingsTyped', form' = NULL, run' \notin {"list", "form"}
  PROVE  SettingsInv'
<1>1. FormSound' /\ ListShowsConnections'
  BY DEF FormSound, ListShowsConnections
<1> QED BY <1>1 DEF SettingsInv

\* Without a form, run is elsewhere.
LEMMA NoForm == ASSUME SettingsInv, run # "form" PROVE form = NULL
BY DEF SettingsInv, FormSound

LEMMA StartStep == ASSUME SettingsInv, Start PROVE SettingsInv'
<1>1. StoresSound'
  <2>1. PICK garbage \in BOOLEAN :
          IF file # NULL
          THEN settings' = loadFromMap(file) /\ UNCHANGED <<file, damaged>>
          ELSE /\ Save(Blank(garbage))
               /\ settings' = IF damaged' THEN Blank(garbage) ELSE loadFromMap(convertToMap(Blank(garbage)))
    BY DEF Start
  <2>2. old \in Old /\ (file # NULL => StoreSound(file))
    BY DEF SettingsInv, SettingsTyped, StoresSound
  <2>3. CASE file # NULL
    <3>1. StoreSound(loadFromMap(file))
      BY <2>2, <2>3, LoadedSound
    <3> QED BY <2>1, <2>2, <2>3, <3>1 DEF StoresSound
  <2>4. CASE file = NULL
    <3>1. StoreSound(Blank(garbage))
      BY BlankSound
    <3>2. StoreSound(loadFromMap(convertToMap(Blank(garbage))))
      <4>1. StoreSound(convertToMap(Blank(garbage)))
        BY <3>1, ConvertedSound
      <4> QED BY <2>2, <4>1, LoadedSound
    <3>3. file' # NULL => StoreSound(file')
      BY <2>1, <2>2, <2>4, <3>1, SavedSound
    <3>4. StoreSound(settings')
      BY <2>1, <2>4, <3>1, <3>2
    <3> QED BY <3>3, <3>4 DEF StoresSound
  <2> QED BY <2>3, <2>4
<1>2. damaged' \in BOOLEAN
  BY DEF Start, Save, SettingsInv, SettingsTyped
<1>3. SettingsTyped' /\ run' \notin {"list", "form"} /\ form' = form /\ run = "off"
  BY <1>2 DEF Start, SettingsInv, SettingsTyped
<1> QED BY <1>1, <1>3, NoDialogStep, NoForm

\* The settings are saved as they are.
LEMMA SavedStep ==
  ASSUME SettingsInv, Save(settings), settings' = settings
  PROVE  StoresSound' /\ damaged' \in BOOLEAN
BY SavedSound DEF SettingsInv, StoresSound

LEMMA InitStyleStep == ASSUME SettingsInv, InitStyle PROVE SettingsInv'
<1>1. StoresSound' /\ damaged' \in BOOLEAN
  BY SavedStep DEF InitStyle
<1>2. SettingsTyped' /\ run' = "main" /\ form' = form /\ run = "style"
  BY <1>1 DEF InitStyle, SettingsInv, SettingsTyped
<1> QED BY <1>1, <1>2, NoDialogStep, NoForm

\* Anything but the connections and the import may change.
LEMMA OptionsSound ==
  ASSUME NEW s, StoreSound(s), NEW t \in Stored, t.connections = s.connections, t.imported = s.imported
  PROVE  StoreSound(t)
BY Zenon DEF StoreSound

LEMMA AcceptEulaStep == ASSUME SettingsInv, AcceptEula PROVE SettingsInv'
<1>1. StoreSound(settings')
  <2>1. settings \in Stored /\ settings' = [settings EXCEPT !.eula = TRUE] /\ StoreSound(settings)
    BY DEF AcceptEula, SettingsInv, StoresSound, StoreSound
  <2>2. settings' \in Stored /\ settings'.connections = settings.connections
          /\ settings'.imported = settings.imported
    BY <2>1 DEF Stored
  <2> QED BY <2>1, <2>2, OptionsSound
<1>2. StoresSound' /\ damaged' \in BOOLEAN
  BY <1>1, SavedSound DEF AcceptEula, SettingsInv, StoresSound
<1>3. SettingsTyped' /\ run' = "style" /\ form' = form /\ run = "eula"
  BY <1>2 DEF AcceptEula, SettingsInv, SettingsTyped
<1> QED BY <1>2, <1>3, NoDialogStep, NoForm

\* The process ends.
LEMMA TerminateStep ==
  ASSUME SettingsInv, Terminate, UNCHANGED <<file, old, damaged, ops>> PROVE SettingsInv'
<1>1. StoresSound'
  BY BlankSound DEF Terminate, SettingsInv, StoresSound
<1>2. SettingsTyped' /\ run' = "off" /\ form' = NULL
  BY FS_EmptySet, SettingsAssumption DEF Terminate, Closed, SettingsInv, SettingsTyped
<1> QED BY <1>1, <1>2, NoDialogStep

LEMMA EndStep == ASSUME SettingsInv, End PROVE SettingsInv'
BY TerminateStep DEF End

LEMMA UseOldVersionStep == ASSUME SettingsInv, UseOldVersion PROVE SettingsInv'
<1>1. StoresSound'
  BY DEF UseOldVersion, SettingsInv, StoresSound
<1>2. SettingsTyped' /\ run' = "off" /\ form' = form /\ run = "off"
  BY DEF UseOldVersion, SettingsInv, SettingsTyped
<1> QED BY <1>1, <1>2, NoDialogStep, NoForm

LEMMA SetOptionsStep ==
  ASSUME SettingsInv, NEW v \in BOOLEAN, saveOption(v) \/ setDisableConnectionShortcuts(v) PROVE SettingsInv'
<1>0. settings \in Stored /\ StoreSound(settings)
  BY DEF SettingsInv, StoresSound, StoreSound
<1>1. PICK s : (s = [settings EXCEPT !.option = v] \/ s = [settings EXCEPT !.shortcutsOff = v]) /\ SetOptions(s)
  BY DEF saveOption, setDisableConnectionShortcuts
<1>2. s \in Stored /\ s.connections = settings.connections /\ s.imported = settings.imported
  BY <1>0, <1>1 DEF Stored
<1>3. StoreSound(s)
  BY <1>0, <1>2, OptionsSound
<1>4. StoresSound' /\ damaged' \in BOOLEAN
  BY <1>1, <1>3, SavedSound DEF SetOptions, SettingsInv, StoresSound
<1>5. SettingsTyped' /\ run' = "main" /\ form' = form /\ run = "main"
  BY <1>1, <1>4, SettingsAssumption DEF SetOptions, SettingsInv, SettingsTyped
<1> QED BY <1>4, <1>5, NoDialogStep, NoForm

\* The connection an item stands for.
LEMMA PositionOf ==
  ASSUME SettingsInv, NEW k \in DOMAIN settings.connections
  PROVE  Position(settings.connections[k].id) = k /\ RecordOf(settings.connections[k].id) = settings.connections[k]
<1>1. IdsApart(settings.connections)
  BY DEF SettingsInv, StoresSound, StoreSound, RecordsSound
<1>2. /\ Position(settings.connections[k].id) \in DOMAIN settings.connections
      /\ settings.connections[Position(settings.connections[k].id)].id = settings.connections[k].id
  BY Zenon DEF Position
<1>3. Position(settings.connections[k].id) = k
  BY <1>1, <1>2, Zenon DEF IdsApart
<1> QED BY <1>3 DEF RecordOf

\* The items of the list are the connections, and no two the same.
LEMMA ListedItems ==
  ASSUME SettingsInv, run \in {"list", "form"}
  PROVE  /\ DOMAIN listed = DOMAIN settings.connections /\ Len(listed) = Len(settings.connections)
         /\ \A k \in DOMAIN listed : listed[k] = settings.connections[k].id
         /\ \A k \in DOMAIN listed : Position(listed[k]) = k /\ RecordOf(listed[k]) = settings.connections[k]
         /\ IsInjective(listed)
<1>1. /\ Len(settings.connections) \in Nat /\ DOMAIN settings.connections = 1 .. Len(settings.connections)
  BY StoredMembers DEF SettingsInv, StoresSound, StoreSound
<1>2. listed = [k \in DOMAIN settings.connections |-> settings.connections[k].id] /\ listed \in Seq(Nat)
  BY DEF SettingsInv, ListShowsConnections, SettingsTyped
<1>3. DOMAIN listed = DOMAIN settings.connections /\ \A k \in DOMAIN listed : listed[k] = settings.connections[k].id
  BY <1>2
<1>4. Len(listed) = Len(settings.connections)
  BY <1>1, <1>2, <1>3
<1>5. \A k \in DOMAIN listed : Position(listed[k]) = k /\ RecordOf(listed[k]) = settings.connections[k]
  BY <1>3, PositionOf
<1>6. IsInjective(listed)
  BY <1>5 DEF IsInjective
<1> QED BY <1>3, <1>4, <1>5, <1>6

\* The list is opened, with an item for each connection.
LEMMA OpenListStep == ASSUME SettingsInv, OpenList PROVE SettingsInv'
<1> DEFINE c == settings.connections
<1>1. Len(c) \in Nat /\ DOMAIN c = 1 .. Len(c) /\ \A k \in DOMAIN c : c[k].id \in Nat
  <2>1. Len(c) \in Nat /\ DOMAIN c = 1 .. Len(c) /\ \A k \in DOMAIN c : c[k] \in Record
    BY StoredMembers DEF SettingsInv, StoresSound, StoreSound
  <2> QED BY <2>1 DEF Record
<1>2. [k \in DOMAIN c |-> c[k].id] \in Seq(Nat)
  <2> DEFINE f == [k \in DOMAIN c |-> c[k].id]
  <2>1. f \in [1 .. Len(c) -> Nat]
    BY <1>1
  <2> HIDE DEF f
  <2>2. f \in Seq(Nat)
    BY <1>1, <2>1, FunctionIsSeq
  <2> QED BY <2>2 DEF f
<1>3. StoresSound'
  BY DEF OpenList, SettingsInv, StoresSound
<1>4. SettingsTyped'
  BY <1>2 DEF OpenList, SettingsInv, SettingsTyped
<1>5. FormSound' /\ ListShowsConnections'
  BY NoForm DEF OpenList, FormSound, ListShowsConnections
<1> QED BY <1>3, <1>4, <1>5 DEF SettingsInv

\* The list is closed, and a connection may have been chosen.
LEMMA CloseListStep == ASSUME SettingsInv, CloseList PROVE SettingsInv'
<1>1. StoresSound' /\ damaged' \in BOOLEAN
  BY SavedStep DEF CloseList
<1>2. SettingsTyped' /\ run' = "main" /\ form' = NULL
  BY <1>1 DEF CloseList, Closed, SettingsInv, SettingsTyped
<1> QED BY <1>1, <1>2, NoDialogStep

\* A request more, where there is room for it.
LEMMA PendingStep ==
  ASSUME SettingsInv, Room, NEW r \in Record, NEW type \in {"primary", "test"},
         pending' \in {pending, pending \cup {Request(r, type)}}
  PROVE  (pending \subseteq Requests /\ IsFiniteSet(pending) /\ Cardinality(pending) <= MaxPending)'
<1>1. pending \subseteq Requests /\ IsFiniteSet(pending) /\ Cardinality(pending) < MaxPending
  BY DEF SettingsInv, SettingsTyped, Room
<1>2. Request(r, type) \in Requests
  BY DEF Request, Requests, Record, FormTab
<1>3. /\ IsFiniteSet(pending \cup {Request(r, type)})
      /\ \/ Cardinality(pending \cup {Request(r, type)}) = Cardinality(pending)
         \/ Cardinality(pending \cup {Request(r, type)}) = Cardinality(pending) + 1
  BY <1>1, FS_AddElement
<1>4. Cardinality(pending) \in Nat
  BY <1>1, FS_CardinalityType
<1>5. CASE pending' = pending
  BY <1>1, <1>4, <1>5, SettingsAssumption
<1>6. CASE pending' = pending \cup {Request(r, type)}
  BY <1>1, <1>2, <1>3, <1>4, <1>6, SettingsAssumption
<1> QED BY <1>5, <1>6

\* openServer changes at most the passphrase of the connection.
LEMMA ServerOpened ==
  ASSUME NEW r \in Record, NEW type, NEW o \in openServer(r, type)
  PROVE  /\ \E v \in BOOLEAN : o.record = [r EXCEPT !.phrase = v]
         /\ o.record \in Record /\ Alike(o.record, r)
         /\ o.pending \in {pending, pending \cup {Request(r, type)}}
<1>1. r.phrase \in BOOLEAN /\ r = [r EXCEPT !.phrase = r.phrase]
  BY DEF Record
<1>2. PICK v \in BOOLEAN :
         /\ o.record = [r EXCEPT !.phrase = v]
         /\ o.pending \in {pending, pending \cup {Request(r, type)}}
  <2>1. CASE o = [record |-> r, pending |-> pending]
    BY <1>1, <2>1
  <2>2. CASE \E e \in BOOLEAN :
               o = [record |-> [r EXCEPT !.phrase = IF AskPassphrase(r) THEN e ELSE @],
                    pending |-> pending \cup {Request(r, type)}]
    <3>1. PICK e \in BOOLEAN :
               o = [record |-> [r EXCEPT !.phrase = IF AskPassphrase(r) THEN e ELSE r.phrase],
                    pending |-> pending \cup {Request(r, type)}]
      BY <2>2
    <3>2. PICK v \in BOOLEAN : v = IF AskPassphrase(r) THEN e ELSE r.phrase
      BY <1>1
    <3> QED BY <3>1, <3>2
  <2> QED BY <2>1, <2>2 DEF openServer
<1>3. [r EXCEPT !.phrase = v] \in Record /\ Alike([r EXCEPT !.phrase = v], r)
  BY DEF Record, Alike
<1> QED BY <1>2, <1>3

\* A stored connection is opened: nothing that tells it from the others changes, and
\* of what a save would write only its passphrase does.
LEMMA StoredOpened ==
  ASSUME SettingsInv, Room, NEW id, NEW k \in DOMAIN settings.connections,
         id = settings.connections[k].id, OpenStored(id)
  PROVE  /\ StoreSound(settings') /\ DOMAIN settings'.connections = DOMAIN settings.connections
         /\ \A j \in DOMAIN settings.connections : Alike(settings'.connections[j], settings.connections[j])
         /\ settings'.option = settings.option /\ settings'.shortcutsOff = settings.shortcutsOff
         /\ (pending \subseteq Requests /\ IsFiniteSet(pending) /\ Cardinality(pending) <= MaxPending)'
         /\ WithoutPhrases(convertToMap(settings')) = WithoutPhrases(convertToMap(settings))
<1> DEFINE c == settings.connections
<1>0. StoreSound(settings)
  BY DEF SettingsInv, StoresSound
<1>1. /\ settings \in Stored /\ c \in Seq(Record) /\ RecordsSound(c) /\ Len(c) \in Nat
      /\ DOMAIN c = 1 .. Len(c) /\ \A j \in DOMAIN c : c[j] \in Record
  BY <1>0, StoredMembers DEF StoreSound
<1>2. Position(id) = k /\ RecordOf(id) = c[k]
  BY PositionOf
<1>3. PICK o \in openServer(c[k], "primary") :
         settings' = [settings EXCEPT !.connections[k] = o.record] /\ pending' = o.pending
  BY <1>2 DEF OpenStored
<1>4. PICK v \in BOOLEAN : o.record = [c[k] EXCEPT !.phrase = v]
  BY <1>1, <1>3, ServerOpened
<1>5. /\ o.record \in Record /\ Alike(o.record, c[k])
      /\ pending' \in {pending, pending \cup {Request(c[k], "primary")}}
  BY <1>1, <1>3, ServerOpened
<1>6. (pending \subseteq Requests /\ IsFiniteSet(pending) /\ Cardinality(pending) <= MaxPending)'
  BY <1>1, <1>5, PendingStep
<1> DEFINE d == [c EXCEPT ![k] = o.record]
<1>7. settings' = [settings EXCEPT !.connections = d]
  BY <1>1, <1>3 DEF Stored
<1>8. d \in Seq(Record) /\ DOMAIN d = DOMAIN c /\ d[k] = o.record /\ \A j \in DOMAIN c : j # k => d[j] = c[j]
  BY <1>1, <1>5, ExceptSeq, LenProperties
<1> HIDE DEF c, d
<1>9. \A j \in DOMAIN c : Alike(d[j], c[j])
  <2> SUFFICES ASSUME NEW j \in DOMAIN c PROVE Alike(d[j], c[j])
    OBVIOUS
  <2>1. CASE j = k
    BY <1>5, <1>8, <2>1
  <2>2. CASE j # k
    BY <1>8, <2>2 DEF Alike
  <2> QED BY <2>1, <2>2
<1>10. RecordsSound(d) /\ (NothingImported(c) => NothingImported(d))
  BY <1>1, <1>8, <1>9, AlikeSound
<1>11. /\ settings'.connections = d /\ settings'.option = settings.option
       /\ settings'.shortcutsOff = settings.shortcutsOff
  BY <1>1, <1>7, <1>8, WithConnections
<1>12. StoreSound(settings')
  BY <1>0, <1>7, <1>8, <1>10, RearrangedStore DEF c
<1>13. WithoutPhrases(convertToMap(settings')) = WithoutPhrases(convertToMap(settings))
  <2> DEFINE Written(e) == [j \in DOMAIN e |-> [toVariant(e[j]) EXCEPT !.phrase = FALSE]]
  <2>1. Written(d) = Written(c)
    <3>1. ASSUME NEW r \in Record
          PROVE  [toVariant([r EXCEPT !.phrase = v]) EXCEPT !.phrase = FALSE] = [toVariant(r) EXCEPT !.phrase = FALSE]
      BY DEF Record, toVariant, IsReplicaSet
    <3>2. ASSUME NEW j \in DOMAIN c
          PROVE  [toVariant(d[j]) EXCEPT !.phrase = FALSE] = [toVariant(c[j]) EXCEPT !.phrase = FALSE]
      <4>1. CASE j = k
        BY <1>1, <1>4, <1>8, <3>1, <4>1 DEF c
      <4>2. CASE j # k
        BY <1>8, <4>2
      <4> QED BY <4>1, <4>2
    <3> QED BY <1>8, <3>2
  <2>2. ASSUME NEW t \in Stored
        PROVE  WithoutPhrases(convertToMap(t)) = [t EXCEPT !.connections = Written(t.connections)]
    <3> DEFINE w == [j \in DOMAIN t.connections |-> toVariant(t.connections[j])]
    <3>1. convertToMap(t) = [t EXCEPT !.connections = w]
      BY DEF convertToMap
    <3>2. DOMAIN w = DOMAIN t.connections /\ \A j \in DOMAIN w : w[j] = toVariant(t.connections[j])
      OBVIOUS
    <3> HIDE DEF w
    <3>3. [t EXCEPT !.connections = w].connections = w
      BY DEF Stored
    <3>4. WithoutPhrases(convertToMap(t))
            = [[t EXCEPT !.connections = w] EXCEPT !.connections = [j \in DOMAIN w |-> [w[j] EXCEPT !.phrase = FALSE]]]
      BY <3>1, <3>3 DEF WithoutPhrases
    <3>5. [j \in DOMAIN w |-> [w[j] EXCEPT !.phrase = FALSE]] = Written(t.connections)
      BY <3>2
    <3> HIDE DEF Written
    <3> QED BY <3>4, <3>5 DEF Stored
  <2>3. settings' \in Stored
    BY <1>12 DEF StoreSound
  <2>4. /\ WithoutPhrases(convertToMap(settings')) = [settings' EXCEPT !.connections = Written(d)]
        /\ WithoutPhrases(convertToMap(settings)) = [settings EXCEPT !.connections = Written(c)]
    BY <1>1, <1>11, <2>2, <2>3 DEF c
  <2> HIDE DEF Written
  <2>5. [settings' EXCEPT !.connections = Written(c)] = [settings EXCEPT !.connections = Written(c)]
    BY <1>1, <1>7 DEF Stored
  <2> QED BY <2>1, <2>4, <2>5
<1> QED BY <1>6, <1>8, <1>9, <1>11, <1>12, <1>13 DEF c

\* The connection of an item of the list.
LEMMA ListedPlace ==
  ASSUME SettingsInv, run = "list", NEW id \in Range(listed)
  PROVE  \E k \in DOMAIN settings.connections : id = settings.connections[k].id
<1>1. PICK k \in DOMAIN listed : id = listed[k]
  BY DEF Range
<1> QED BY <1>1, ListedItems

LEMMA ConnectStep == ASSUME SettingsInv, NEW id \in Range(listed), Connect(id) PROVE SettingsInv'
<1>1. PICK k \in DOMAIN settings.connections : id = settings.connections[k].id
  BY ListedPlace DEF Connect
<1>2. StoreSound(settings') /\ (pending \subseteq Requests /\ IsFiniteSet(pending) /\ Cardinality(pending) <= MaxPending)'
  BY <1>1, StoredOpened DEF Connect
<1>3. (file' # NULL => StoreSound(file')) /\ damaged' \in BOOLEAN
  BY SavedSound DEF Connect, SettingsInv, StoresSound
<1>4. SettingsTyped' /\ run' = "main" /\ form' = NULL /\ StoresSound'
  BY <1>2, <1>3 DEF Connect, Closed, SettingsInv, SettingsTyped, StoresSound
<1> QED BY <1>4, NoDialogStep

\* An entry of the menu opens a connection.
LEMMA MenuPlace ==
  ASSUME NEW k, ConnectFromMenu(k)
  PROVE  \E j \in DOMAIN settings.connections : OpenStored(settings.connections[j].id)
BY DEF ConnectFromMenu, Ids, Range

LEMMA ConnectFromMenuStep == ASSUME SettingsInv, NEW k, ConnectFromMenu(k) PROVE SettingsInv'
<1>1. PICK j \in DOMAIN settings.connections : OpenStored(settings.connections[j].id)
  BY MenuPlace
<1>2. StoreSound(settings') /\ (pending \subseteq Requests /\ IsFiniteSet(pending) /\ Cardinality(pending) <= MaxPending)'
  BY <1>1, StoredOpened DEF ConnectFromMenu
<1>3. StoresSound'
  BY <1>2 DEF ConnectFromMenu, SettingsInv, StoresSound
<1>4. SettingsTyped' /\ run' = "main" /\ form' = form /\ run = "main"
  BY <1>2 DEF ConnectFromMenu, SettingsInv, SettingsTyped
<1> QED BY <1>3, <1>4, NoDialogStep, NoForm

\* While the list is in front, its changes keep the invariant when they keep the
\* connections sound and show them.
LEMMA ListStep ==
  ASSUME SettingsInv, run = "list", NEW d \in Seq(Record),
         settings' = [settings EXCEPT !.connections = d],
         RecordsSound(d), NothingImported(settings.connections) => NothingImported(d),
         listed' = [k \in DOMAIN d |-> d[k].id], listed' \in Seq(Nat), items' \in Seq(Nat),
         ops < MaxOps, ops' = ops + 1, UNCHANGED <<file, old, run, form, pending, damaged>>
  PROVE  SettingsInv'
<1>1. StoreSound(settings) /\ settings \in Stored
  BY DEF SettingsInv, StoresSound, StoreSound
<1>2. StoreSound(settings') /\ settings'.connections = d
  BY <1>1, RearrangedStore, WithConnections
<1>3. StoresSound'
  BY <1>2 DEF SettingsInv, StoresSound
<1>4. SettingsTyped'
  BY SettingsAssumption DEF SettingsInv, SettingsTyped
<1>5. FormSound' /\ ListShowsConnections'
  BY <1>2, NoForm DEF FormSound, ListShowsConnections
<1> QED BY <1>3, <1>4, <1>5 DEF SettingsInv

LEMMA RemoveConnectionStep ==
  ASSUME SettingsInv, NEW id \in Range(listed), RemoveConnection(id) PROVE SettingsInv'
<1> DEFINE c == settings.connections
<1>1. /\ settings \in Stored /\ c \in Seq(Record) /\ Len(c) \in Nat /\ DOMAIN c = 1 .. Len(c)
      /\ RecordsSound(c) /\ \A j \in DOMAIN c : c[j] \in Record
  BY StoredMembers DEF SettingsInv, StoresSound, StoreSound
<1>2. PICK k \in DOMAIN listed : listed[k] = id /\ listed' = RemoveAt(listed, k)
  BY DEF RemoveConnection
<1>3. /\ run = "list" /\ settings' = [settings EXCEPT !.connections = RemoveAt(c, Position(id))]
      /\ items' = [j \in DOMAIN items |-> IF items[j] = id THEN 0 ELSE items[j]]
      /\ ops < MaxOps /\ ops' = ops + 1 /\ UNCHANGED <<file, old, run, form, pending, damaged>>
  BY DEF RemoveConnection
<1>4. /\ k \in DOMAIN c /\ Position(id) = k /\ DOMAIN listed = DOMAIN c /\ Len(listed) = Len(c)
      /\ \A j \in DOMAIN c : listed[j] = c[j].id
  BY <1>2, <1>3, ListedItems
<1> DEFINE d == RemoveAt(c, k)
           p == [j \in DOMAIN d |-> IF j < k THEN j ELSE j + 1]
<1> HIDE DEF c
<1>5. /\ d \in Seq(Record) /\ Len(d) = Len(c) - 1
      /\ \A j \in 1 .. Len(c) - 1 : d[j] = IF j < k THEN c[j] ELSE c[j + 1]
  BY <1>1, <1>4, Removed
<1>6. listed \in Seq(Nat)
  BY DEF SettingsInv, SettingsTyped
<1>7. /\ listed' \in Seq(Nat) /\ Len(listed') = Len(c) - 1
      /\ \A j \in 1 .. Len(c) - 1 : listed'[j] = IF j < k THEN listed[j] ELSE listed[j + 1]
  <2>1. k \in 1 .. Len(listed)
    BY <1>1, <1>4
  <2>2. /\ RemoveAt(listed, k) \in Seq(Nat) /\ Len(RemoveAt(listed, k)) = Len(listed) - 1
        /\ \A j \in 1 .. Len(listed) - 1 : RemoveAt(listed, k)[j] = IF j < k THEN listed[j] ELSE listed[j + 1]
    BY <1>6, <2>1, Removed
  <2> QED BY <1>2, <1>4, <2>2
<1> HIDE DEF d
<1>8. DOMAIN d = 1 .. Len(c) - 1 /\ DOMAIN listed' = 1 .. Len(c) - 1
  BY <1>5, <1>7, LenProperties
<1>9. \A j \in DOMAIN d : p[j] \in DOMAIN c /\ d[j] = c[p[j]]
  BY <1>1, <1>4, <1>5, <1>8
<1>10. \A i, j \in DOMAIN d : p[i] = p[j] => i = j
  BY <1>1, <1>4, <1>8
<1>11. RecordsSound(d) /\ (NothingImported(c) => NothingImported(d))
  <2> HIDE DEF p
  <2>1. \A j \in DOMAIN d : p[j] \in DOMAIN c /\ Alike(d[j], c[p[j]])
    BY <1>9 DEF Alike
  <2> QED BY <1>1, <1>10, <2>1, Rearranged
<1>12. listed' = [j \in DOMAIN d |-> d[j].id]
  <2>1. ASSUME NEW j \in DOMAIN d PROVE listed'[j] = d[j].id
    <3>1. j \in DOMAIN c /\ j + 1 \in DOMAIN c
      BY <1>1, <1>8
    <3>2. CASE j < k
      BY <1>4, <1>5, <1>7, <1>8, <3>1, <3>2
    <3>3. CASE ~ (j < k)
      BY <1>4, <1>5, <1>7, <1>8, <3>1, <3>3
    <3> QED BY <3>2, <3>3
  <2>2. listed' = [j \in 1 .. Len(c) - 1 |-> listed'[j]]
    BY <1>7, <1>8
  <2> QED BY <1>8, <2>1, <2>2
<1>13. items' \in Seq(Nat)
  <2>1. items \in Seq(Nat) /\ Len(items) \in Nat /\ DOMAIN items = 1 .. Len(items)
    BY LenProperties DEF SettingsInv, SettingsTyped
  <2>2. items' \in [1 .. Len(items) -> Nat]
    BY <1>3, <2>1
  <2> QED BY <2>1, <2>2, FunctionIsSeq
<1> QED BY <1>3, <1>4, <1>5, <1>7, <1>11, <1>12, <1>13, ListStep DEF c, d

LEMMA ReorderStep ==
  ASSUME SettingsInv, NEW i \in DOMAIN listed, NEW j \in DOMAIN listed, Reorder(i, j) PROVE SettingsInv'
<1> DEFINE c == settings.connections
           d == [k \in DOMAIN listed' |-> RecordOf(listed'[k])]
<1>1. /\ c \in Seq(Record) /\ Len(c) \in Nat /\ DOMAIN c = 1 .. Len(c)
      /\ RecordsSound(c) /\ \A k \in DOMAIN c : c[k] \in Record
  BY StoredMembers DEF SettingsInv, StoresSound, StoreSound
<1>2. /\ run = "list" /\ listed' = InsertAt(RemoveAt(listed, i), j, listed[i])
      /\ settings' = [settings EXCEPT !.connections = d]
      /\ ops < MaxOps /\ ops' = ops + 1 /\ UNCHANGED <<file, old, run, items, form, pending, damaged>>
  BY DEF Reorder
<1>3. /\ DOMAIN listed = DOMAIN c /\ Len(listed) = Len(c) /\ IsInjective(listed)
      /\ \A k \in DOMAIN listed : listed[k] = c[k].id /\ Position(listed[k]) = k /\ RecordOf(listed[k]) = c[k]
  BY <1>2, ListedItems
<1>4. listed \in Seq(Nat)
  BY DEF SettingsInv, SettingsTyped
<1>5. /\ listed' \in Seq(Nat) /\ IsInjective(listed') /\ TabsOf(listed') = TabsOf(listed)
      /\ Len(listed') = Len(listed)
  BY <1>1, <1>2, <1>3, <1>4, MovedTab
<1>6. DOMAIN listed' = DOMAIN c
  BY <1>1, <1>3, <1>5, LenProperties
<1> DEFINE p == [k \in DOMAIN c |-> Position(listed'[k])]
<1>7. ASSUME NEW k \in DOMAIN c
      PROVE  /\ p[k] \in DOMAIN c /\ RecordOf(listed'[k]) = c[p[k]] /\ listed'[k] = c[p[k]].id
  <2>1. PICK m \in DOMAIN listed : listed'[k] = listed[m]
    <3>1. listed'[k] \in TabsOf(listed)
      BY <1>5, <1>6 DEF TabsOf
    <3> QED BY <3>1 DEF TabsOf
  <2>2. p[k] = m
    BY <1>3, <2>1
  <2> HIDE DEF p
  <2> QED BY <1>3, <2>1, <2>2
<1>8. DOMAIN d = DOMAIN c /\ \A k \in DOMAIN c : d[k] = c[p[k]] /\ p[k] \in DOMAIN c /\ d[k].id = listed'[k]
  BY <1>6, <1>7
<1>9. \A k, m \in DOMAIN c : p[k] = p[m] => k = m
  <2> HIDE DEF p
  <2> SUFFICES ASSUME NEW k \in DOMAIN c, NEW m \in DOMAIN c, p[k] = p[m] PROVE k = m
    OBVIOUS
  <2>1. listed'[k] = listed'[m]
    BY <1>7
  <2> QED BY <1>5, <1>6, <2>1 DEF IsInjective
<1> HIDE DEF p, d
<1>10. d \in Seq(Record)
  <2>1. d \in [1 .. Len(c) -> Record]
    <3>1. \A k \in 1 .. Len(c) : d[k] \in Record
      BY <1>1, <1>8
    <3> QED BY <1>1, <1>8, <3>1 DEF d
  <2> QED BY <1>1, <2>1, FunctionIsSeq
<1>11. RecordsSound(d) /\ (NothingImported(c) => NothingImported(d))
  <2>1. \A k \in DOMAIN d : p[k] \in DOMAIN c /\ Alike(d[k], c[p[k]])
    BY <1>8 DEF Alike
  <2>2. \A k, m \in DOMAIN d : p[k] = p[m] => k = m
    BY <1>8, <1>9
  <2> QED BY <1>1, <2>1, <2>2, Rearranged
<1>12. listed' = [k \in DOMAIN d |-> d[k].id]
  <2>1. listed' = [k \in DOMAIN c |-> listed'[k]]
    BY <1>5, <1>6
  <2> QED BY <1>8, <2>1
<1>13. items' \in Seq(Nat)
  BY <1>2 DEF SettingsInv, SettingsTyped
<1> QED BY <1>2, <1>5, <1>10, <1>11, <1>12, <1>13, ListStep

\* A new object and a new uuid are nobody's.
LEMMA NewKeys ==
  ASSUME SettingsInv
  PROVE  /\ NewId \in Nat /\ NewId \notin Ids(settings.connections)
         /\ Unused(UsedUuids, 1) \in Nat /\ Unused(UsedUuids, 1) # OldUuid
         /\ Unused(UsedUuids, 1) \notin Uuids(settings.connections)
<1>1. IsFiniteSet(Ids(settings.connections)) /\ IsFiniteSet(Uuids(settings.connections))
  BY StoredMembers, FiniteKeys DEF SettingsInv, StoresSound, StoreSound
<1> DEFINE ids == IF form = NULL THEN {} ELSE {form.copy.id}
           asked == {p.uuid : p \in pending}
           stored == IF file = NULL THEN {} ELSE Uuids(file.connections)
           open == IF form = NULL THEN {} ELSE {form.copy.uuid}
<1>2. IsFiniteSet(ids) /\ IsFiniteSet(open)
  BY FS_EmptySet, FS_Singleton
<1>3. IsFiniteSet(asked)
  <2> DEFINE g == [p \in pending |-> p.uuid]
  <2>1. g \in Surjection(pending, asked)
    BY DEF Surjection
  <2>2. IsFiniteSet(pending)
    BY DEF SettingsInv, SettingsTyped
  <2> HIDE DEF g, asked
  <2> QED BY <2>1, <2>2, FS_Surjection
<1>4. IsFiniteSet(stored)
  <2>1. CASE file = NULL
    BY <2>1, FS_EmptySet
  <2>2. CASE file # NULL
    <3>1. IsFiniteSet(Uuids(file.connections))
      BY <2>2, StoredMembers, FiniteKeys DEF SettingsInv, StoresSound, StoreSound
    <3> QED BY <2>2, <3>1
  <2> QED BY <2>1, <2>2
<1> HIDE DEF ids, asked, stored, open
<1>5. IsFiniteSet(Ids(settings.connections) \cup ids)
  BY <1>1, <1>2, FS_Union
<1>6. IsFiniteSet(UsedUuids)
  <2>1. IsFiniteSet(Uuids(settings.connections) \cup asked)
    BY <1>1, <1>3, FS_Union
  <2>2. IsFiniteSet(Uuids(settings.connections) \cup asked \cup {OldUuid})
    BY <2>1, FS_Singleton, FS_Union
  <2>3. IsFiniteSet(Uuids(settings.connections) \cup asked \cup {OldUuid} \cup stored)
    BY <1>4, <2>2, FS_Union
  <2>4. IsFiniteSet(Uuids(settings.connections) \cup asked \cup {OldUuid} \cup stored \cup open)
    BY <1>2, <2>3, FS_Union
  <2> QED BY <2>4 DEF UsedUuids, asked, stored, open
<1>7. /\ Unused(UsedUuids, 1) \in Nat /\ Unused(UsedUuids, 1) \notin UsedUuids
  <2>1. 1 \in Nat /\ 1 # 0
    OBVIOUS
  <2> QED BY <1>6, <2>1, UnusedIsFree, Zenon
<1>8. NewId \in Nat /\ NewId \notin Ids(settings.connections) \cup ids
  <2>1. NewId = Unused(Ids(settings.connections) \cup ids, 1)
    BY DEF NewId, ids
  <2>2. 1 \in Nat /\ 1 # 0
    OBVIOUS
  <2> QED BY <1>5, <2>1, <2>2, UnusedIsFree, Zenon
<1>9. OldUuid \in UsedUuids /\ Uuids(settings.connections) \subseteq UsedUuids
  BY DEF UsedUuids
<1> QED BY <1>7, <1>8, <1>9

\* The dialog opens on settings of its own.
LEMMA FormOpened ==
  ASSUME SettingsInv, NEW purpose \in {"add", "edit", "clone"}, NEW target \in Nat, NEW copy \in Record,
         Open(purpose, target, copy),
         NEW f, f = [for |-> purpose, target |-> target, copy |-> copy],
         purpose = "edit" => EditSound(settings.connections, f),
         purpose # "edit" => NewSound(settings.connections, f)
  PROVE  SettingsInv'
<1>1. f \in OpenForm /\ f.for = purpose
  BY DEF OpenForm
<1>2. f # NULL
  BY <1>1, NullAssumption
<1>3. form' = f /\ run = "list" /\ run' = "form" /\ settings' = settings /\ listed' = listed
  BY DEF Open
<1>4. StoresSound'
  BY DEF Open, SettingsInv, StoresSound
<1>5. SettingsTyped'
  BY SettingsAssumption DEF Open, SettingsInv, SettingsTyped
<1>6. FormSound'
  BY <1>1, <1>2, <1>3 DEF FormSound
<1>7. ListShowsConnections'
  BY <1>3 DEF SettingsInv, ListShowsConnections
<1> QED BY <1>4, <1>5, <1>6, <1>7 DEF SettingsInv

LEMMA AddStep == ASSUME SettingsInv, Add PROVE SettingsInv'
<1> DEFINE r == [id |-> NewId, uuid |-> 0, parts |-> Whole("single"), cached |-> FALSE,
                  origin |-> "none", phrase |-> FALSE]
           f == [for |-> "add", target |-> 0, copy |-> r]
<1>1. Open("add", 0, r)
  BY DEF Add
<1>2. r \in Record /\ r.id = NewId /\ r.uuid = 0 /\ r.origin = "none"
  BY NewKeys, SettingsAssumption DEF Record, Whole
<1>3. f.copy = r
  OBVIOUS
<1>4. \A k \in DOMAIN settings.connections : settings.connections[k].id # NewId
  BY NewKeys DEF Ids, Range
<1> HIDE DEF r
<1>5. NewSound(settings.connections, f)
  BY <1>2, <1>3, <1>4 DEF NewSound, OldUuid
<1> QED BY <1>1, <1>2, <1>5, FormOpened

\* The connection of an item, as a dialog finds it.
LEMMA ListedRecord ==
  ASSUME SettingsInv, run = "list", NEW id \in Range(listed)
  PROVE  /\ RecordOf(id) \in Record /\ id \in Nat
         /\ \E k \in DOMAIN settings.connections : RecordOf(id) = settings.connections[k] /\ settings.connections[k].id = id
<1>1. PICK k \in DOMAIN listed : id = listed[k]
  BY DEF Range
<1>2. RecordOf(id) = settings.connections[k] /\ k \in DOMAIN settings.connections /\ settings.connections[k].id = id
  BY <1>1, ListedItems
<1>3. settings.connections[k] \in Record
  BY <1>2, StoredMembers DEF SettingsInv, StoresSound, StoreSound
<1>4. id \in Nat
  BY <1>2, <1>3 DEF Record
<1> QED BY <1>2, <1>3, <1>4

LEMMA EditStep == ASSUME SettingsInv, NEW id \in Range(listed), Edit(id) PROVE SettingsInv'
<1> DEFINE r == [RecordOf(id) EXCEPT !.id = NewId]
           f == [for |-> "edit", target |-> id, copy |-> r]
<1>1. Open("edit", id, r) /\ run = "list"
  BY DEF Edit, Open
<1>2. PICK k \in DOMAIN settings.connections : RecordOf(id) = settings.connections[k] /\ settings.connections[k].id = id
  BY <1>1, ListedRecord
<1>3. RecordOf(id) \in Record /\ id \in Nat
  BY <1>1, ListedRecord
<1>4. r \in Record /\ r.origin = RecordOf(id).origin
  BY <1>3, NewKeys DEF Record
<1>5. f.copy = r /\ f.target = id
  OBVIOUS
<1> HIDE DEF r
<1>6. EditSound(settings.connections, f)
  BY <1>2, <1>4, <1>5 DEF EditSound
<1> QED BY <1>1, <1>3, <1>4, <1>6, FormOpened

LEMMA CloneStep == ASSUME SettingsInv, NEW id \in Range(listed), Clone(id) PROVE SettingsInv'
<1> DEFINE r == [RecordOf(id) EXCEPT !.id = NewId, !.uuid = Unused(UsedUuids, 1),
                                     !.cached = FALSE, !.origin = "none"]
           f == [for |-> "clone", target |-> 0, copy |-> r]
<1>1. Open("clone", 0, r) /\ run = "list"
  BY DEF Clone, Open
<1>2. RecordOf(id) \in Record
  BY <1>1, ListedRecord
<1>3. r \in Record /\ r.id = NewId /\ r.uuid = Unused(UsedUuids, 1) /\ r.origin = "none"
  BY <1>2, NewKeys, SettingsAssumption DEF Record
<1>4. f.copy = r
  OBVIOUS
<1>5. \A k \in DOMAIN settings.connections :
        settings.connections[k].id # NewId /\ settings.connections[k].uuid # Unused(UsedUuids, 1)
  BY NewKeys DEF Ids, Uuids, Range
<1> HIDE DEF r
<1>6. NewSound(settings.connections, f)
  BY <1>3, <1>4, <1>5, NewKeys DEF NewSound
<1> QED BY <1>1, <1>3, <1>6, FormOpened

\* validateAndApply keeps whose settings they are; when nothing is refused, every tab
\* is as the dialog has it.
LEMMA Applied ==
  ASSUME NEW r \in Record, NEW f \in Form, NEW refused \in {"", "members", "ssh", "ssl"}
  PROVE  /\ validateAndApply(r, f, refused).copy \in Record
         /\ validateAndApply(r, f, refused).ok <=> refused = ""
         /\ validateAndApply(r, f, refused).copy.id = r.id
         /\ validateAndApply(r, f, refused).copy.uuid = r.uuid
         /\ validateAndApply(r, f, refused).copy.origin = r.origin
         /\ refused = "" => validateAndApply(r, f, refused).copy.parts = Whole(f)
<1> DEFINE Same(q) == q \in Record /\ q.id = r.id /\ q.uuid = r.uuid /\ q.origin = r.origin
<1>0. f \in {"single", "unnamed", "named"}
  BY SettingsAssumption
<1>1. ASSUME NEW q, Same(q), NEW t \in FormTab PROVE Same([q EXCEPT !.parts[t] = f])
  BY <1>0, <1>1 DEF Record
<1>2. ASSUME NEW q, Same(q), NEW t \in FormTab, NEW u \in FormTab
      PROVE  [q EXCEPT !.parts[t] = f].parts[u] = IF u = t THEN f ELSE q.parts[u]
  BY <1>2 DEF Record
<1> DEFINE auth == acceptAuth(r, f)
           basic == acceptBasic(auth, f, refused # "members")
           ssh == acceptSsh(basic, f, refused # "ssh")
           ssl == acceptSsl(ssh, f)
<1>3. "auth" \in FormTab /\ "type" \in FormTab /\ "members" \in FormTab /\ "ssh" \in FormTab /\ "ssl" \in FormTab
  BY DEF FormTab
<1>4. Same(r)
  OBVIOUS
<1>5. Same(auth) /\ auth.parts["auth"] = f
  <2>1. auth = [r EXCEPT !.parts["auth"] = f]
    BY DEF acceptAuth
  <2>2. auth.parts["auth"] = f
    BY <1>3, <2>1 DEF Record
  <2> HIDE DEF auth, Same
  <2>3. Same(auth)
    BY <1>1, <1>3, <1>4, <2>1
  <2> QED BY <2>2, <2>3
<1> HIDE DEF auth
<1>6. Same(basic) /\ (refused # "members" => basic.parts["auth"] = f /\ basic.parts["type"] = f /\ basic.parts["members"] = f)
  <2>1. CASE refused = "members"
    <3>1. basic = [auth EXCEPT !.parts["type"] = f]
      BY <2>1 DEF acceptBasic
    <3> HIDE DEF basic, Same
    <3> QED BY <1>1, <1>3, <1>5, <2>1, <3>1
  <2>2. CASE refused # "members"
    <3>1. basic = [auth EXCEPT !.parts["type"] = f, !.parts["members"] = f, !.cached = @ /\ f = "single"]
      BY <2>2 DEF acceptBasic
    <3>2. auth \in Record
      BY <1>5
    <3> HIDE DEF basic
    <3>3. basic \in Record /\ basic.id = auth.id /\ basic.uuid = auth.uuid /\ basic.origin = auth.origin
      BY <1>0, <1>3, <3>1, <3>2 DEF Record
    <3>4. basic.parts["auth"] = auth.parts["auth"] /\ basic.parts["type"] = f /\ basic.parts["members"] = f
      BY <1>3, <3>1, <3>2 DEF Record
    <3> QED BY <1>5, <3>3, <3>4
  <2> QED BY <2>1, <2>2
<1> HIDE DEF basic
<1>7. /\ Same(ssh)
      /\ refused = "" => /\ ssh.parts["auth"] = f /\ ssh.parts["type"] = f /\ ssh.parts["members"] = f
                         /\ ssh.parts["ssh"] = f
  <2>1. CASE refused = "ssh"
    <3>1. ssh = basic
      BY <2>1 DEF acceptSsh
    <3> QED BY <1>6, <2>1, <3>1
  <2>2. CASE refused # "ssh"
    <3>1. ssh = [basic EXCEPT !.parts["ssh"] = f]
      BY <2>2 DEF acceptSsh
    <3> HIDE DEF ssh
    <3>2. Same(ssh)
      <4> HIDE DEF Same
      <4> QED BY <1>1, <1>3, <1>6, <3>1
    <3>3. \A u \in FormTab : ssh.parts[u] = IF u = "ssh" THEN f ELSE basic.parts[u]
      <4> HIDE DEF Same
      <4> QED BY <1>2, <1>3, <1>6, <3>1
    <3>4. /\ refused = "" => refused # "members"
          /\ ssh.parts["auth"] = basic.parts["auth"] /\ ssh.parts["type"] = basic.parts["type"]
          /\ ssh.parts["members"] = basic.parts["members"] /\ ssh.parts["ssh"] = f
      BY <1>3, <3>3
    <3> HIDE DEF Same
    <3> QED BY <1>6, <3>2, <3>4
  <2> QED BY <2>1, <2>2
<1> HIDE DEF ssh
<1>8. /\ Same(ssl)
      /\ refused = "" => ssl.parts = Whole(f)
  <2> DEFINE set == [ssh EXCEPT !.parts["ssl"] = f]
  <2>1. Same(set) /\ \A u \in FormTab : set.parts[u] = IF u = "ssl" THEN f ELSE ssh.parts[u]
    <3> HIDE DEF Same
    <3> QED BY <1>1, <1>2, <1>3, <1>7
  <2>2. ssl = [set EXCEPT !.phrase = FALSE]
    BY DEF acceptSsl
  <2> HIDE DEF ssl, set
  <2>3. Same(ssl) /\ \A u \in FormTab : ssl.parts[u] = IF u = "ssl" THEN f ELSE ssh.parts[u]
    BY <2>1, <2>2 DEF Record
  <2>4. refused = "" => \A u \in FormTab : ssl.parts[u] = f
    BY <1>7, <2>3 DEF FormTab
  <2>5. ssl.parts \in [FormTab -> {"single", "unnamed", "named"}]
    BY <2>3 DEF Record
  <2>6. refused = "" => ssl.parts = Whole(f)
    BY <2>4, <2>5 DEF Whole
  <2> HIDE DEF Same
  <2> QED BY <2>3, <2>6
<1> HIDE DEF ssl
<1> DEFINE v == validateAndApply(r, f, refused)
<1>9. v = [ok |-> refused = "", copy |-> CASE refused = "members" -> basic [] refused = "ssh" -> ssh [] OTHER -> ssl]
  BY DEF validateAndApply, auth, basic, ssh, ssl
<1>10. (v.ok <=> refused = "") /\ (v.copy = basic \/ v.copy = ssh \/ v.copy = ssl) /\ (refused = "" => v.copy = ssl)
  <2>1. PICK x : x = CASE refused = "members" -> basic [] refused = "ssh" -> ssh [] OTHER -> ssl
    OBVIOUS
  <2>2. v = [ok |-> refused = "", copy |-> x]
    BY <1>9, <2>1, Zenon
  <2>3. PICK w : w = v
    OBVIOUS
  <2>4. (w.ok <=> refused = "") /\ w.copy = x
    <3>1. CASE refused = ""
      <4>1. (refused = "") = TRUE
        BY <3>1, Zenon
      <4>2. w = [ok |-> TRUE, copy |-> x]
        BY <2>2, <2>3, <4>1, Zenon
      <4> QED BY <3>1, <4>2
    <3>2. CASE refused # ""
      <4>1. (refused = "") = FALSE
        BY <3>2, Zenon
      <4>2. w = [ok |-> FALSE, copy |-> x]
        BY <2>2, <2>3, <4>1, Zenon
      <4> QED BY <3>2, <4>2
    <3> QED BY <3>1, <3>2
  <2>5. x = basic \/ x = ssh \/ x = ssl
    BY <2>1
  <2>6. refused = "" => x = ssl
    BY <2>1
  <2> QED BY <2>3, <2>4, <2>5, <2>6
<1> HIDE DEF v
<1>11. Same(v.copy) /\ (refused = "" => v.copy.parts = Whole(f))
  <2> HIDE DEF Same
  <2> QED BY <1>6, <1>7, <1>8, <1>10
<1> QED BY <1>10, <1>11 DEF v

\* What is known while a form is open.
LEMMA OpenedForm ==
  ASSUME SettingsInv, run = "form"
  PROVE  /\ form # NULL /\ form \in OpenForm /\ form.copy \in Record
         /\ form.for = "edit" => EditSound(settings.connections, form)
         /\ form.for # "edit" => NewSound(settings.connections, form)
<1>1. /\ form # NULL /\ form \in OpenForm
      /\ form.for = "edit" => EditSound(settings.connections, form)
      /\ form.for # "edit" => NewSound(settings.connections, form)
  BY DEF SettingsInv, FormSound
<1>2. form.copy \in Record
  BY <1>1 DEF OpenForm
<1> QED BY <1>1, <1>2

\* A change of the user's is counted.
LEMMA OpsStep == ASSUME SettingsInv, ops < MaxOps, ops' = ops + 1 PROVE ops' \in 0 .. MaxOps
BY SettingsAssumption DEF SettingsInv, SettingsTyped

LEMMA OneOutcome ==
  ASSUME NEW x, NEW y, NEW o \in {[record |-> x, pending |-> y]}
  PROVE  o.record = x /\ o.pending = y
OBVIOUS

\* The tabs are applied to the dialog's own settings.
LEMMA TryFormStep ==
  ASSUME SettingsInv, NEW f \in Form, NEW refused \in {"", "members", "ssh", "ssl"},
         refused = "" => Room, TryForm(f, refused)
  PROVE  SettingsInv'
<1> DEFINE result == validateAndApply(form.copy, f, refused)
<1>0. /\ run = "form" /\ run' = "form"
      /\ \E o \in IF result.ok THEN openServer(result.copy, "test")
                ELSE {[record |-> result.copy, pending |-> pending]} :
           form' = [form EXCEPT !.copy = o.record] /\ pending' = o.pending
      /\ ops < MaxOps /\ ops' = ops + 1 /\ UNCHANGED <<file, old, settings, listed, items, damaged>>
  BY DEF TryForm
<1>1. /\ form \in OpenForm /\ form.copy \in Record
      /\ form.for = "edit" => EditSound(settings.connections, form)
      /\ form.for # "edit" => NewSound(settings.connections, form)
  BY <1>0, OpenedForm
<1>2. /\ result.copy \in Record /\ (result.ok <=> refused = "") /\ result.copy.id = form.copy.id
      /\ result.copy.uuid = form.copy.uuid /\ result.copy.origin = form.copy.origin
  BY <1>1, Applied
<1> HIDE DEF result
<1>3. PICK q \in Record :
        /\ form' = [form EXCEPT !.copy = q]
        /\ q.id = form.copy.id /\ q.uuid = form.copy.uuid /\ q.origin = form.copy.origin
        /\ (pending \subseteq Requests /\ IsFiniteSet(pending) /\ Cardinality(pending) <= MaxPending)'
  <2>1. CASE refused = ""
    <3>1. PICK o \in openServer(result.copy, "test") : form' = [form EXCEPT !.copy = o.record] /\ pending' = o.pending
      BY <1>0, <1>2, <2>1
    <3>2. /\ o.record \in Record /\ Alike(o.record, result.copy)
          /\ pending' \in {pending, pending \cup {Request(result.copy, "test")}}
      BY <1>2, <3>1, ServerOpened
    <3>3. (pending \subseteq Requests /\ IsFiniteSet(pending) /\ Cardinality(pending) <= MaxPending)'
      BY <1>2, <2>1, <3>2, PendingStep
    <3> QED BY <1>2, <3>1, <3>2, <3>3 DEF Alike
  <2>2. CASE refused # ""
    <3>1. form' = [form EXCEPT !.copy = result.copy] /\ pending' = pending
      <4>1. ~ result.ok
        BY <1>2, <2>2, Zenon
      <4>2. PICK o \in {[record |-> result.copy, pending |-> pending]} :
               form' = [form EXCEPT !.copy = o.record] /\ pending' = o.pending
        BY <1>0, <4>1, Zenon
      <4>3. o.record = result.copy /\ o.pending = pending
        BY <4>2, OneOutcome
      <4> QED BY <4>2, <4>3
    <3> QED BY <1>2, <3>1 DEF SettingsInv, SettingsTyped
  <2> QED BY <2>1, <2>2
<1>4. /\ form' \in OpenForm /\ form'.for = form.for /\ form'.target = form.target
      /\ form'.copy = q
  BY <1>1, <1>3 DEF OpenForm
<1>5. FormSound'
  <2>1. form' # NULL
    BY <1>4, NullAssumption
  <2>2. form'.for = "edit" => EditSound(settings.connections, form')
    BY <1>1, <1>3, <1>4 DEF EditSound
  <2>3. form'.for # "edit" => NewSound(settings.connections, form')
    BY <1>1, <1>3, <1>4 DEF NewSound
  <2> QED BY <1>0, <1>4, <2>1, <2>2, <2>3 DEF FormSound
<1>6. StoresSound' /\ ListShowsConnections'
  BY <1>0 DEF SettingsInv, StoresSound, ListShowsConnections
<1>7. SettingsTyped'
  <2>1. run' = "form" /\ ops < MaxOps /\ ops' = ops + 1 /\ UNCHANGED <<old, listed, items, damaged>>
    BY <1>0
  <2>2. ops' \in 0 .. MaxOps
    BY <2>1, OpsStep, Zenon
  <2>3. old' \in Old /\ damaged' \in BOOLEAN /\ items' \in Seq(Nat) /\ listed' \in Seq(Nat)
    BY <2>1 DEF SettingsInv, SettingsTyped
  <2> QED BY <1>3, <2>1, <2>2, <2>3 DEF SettingsTyped
<1> QED BY <1>5, <1>6, <1>7 DEF SettingsInv

\* Back in the list, with the connections it shows.
LEMMA BackInList ==
  ASSUME SettingsInv, run' = "list", form' = NULL, NEW d \in Seq(Record),
         settings' = [settings EXCEPT !.connections = d],
         RecordsSound(d), NothingImported(settings.connections) => NothingImported(d),
         listed' = [k \in DOMAIN d |-> d[k].id], listed' \in Seq(Nat), items' \in Seq(Nat),
         UNCHANGED <<file, old, pending, damaged, ops>>
  PROVE  SettingsInv'
<1>1. StoreSound(settings) /\ settings \in Stored
  BY DEF SettingsInv, StoresSound, StoreSound
<1>2. StoreSound(settings') /\ settings'.connections = d
  BY <1>1, RearrangedStore, WithConnections
<1>3. StoresSound'
  BY <1>2 DEF SettingsInv, StoresSound
<1>4. SettingsTyped'
  BY DEF SettingsInv, SettingsTyped
<1>5. FormSound' /\ ListShowsConnections'
  BY <1>2 DEF FormSound, ListShowsConnections
<1> QED BY <1>3, <1>4, <1>5 DEF SettingsInv

LEMMA CancelFormStep == ASSUME SettingsInv, CancelForm PROVE SettingsInv'
<1>1. StoresSound'
  BY DEF CancelForm, SettingsInv, StoresSound
<1>2. SettingsTyped'
  BY DEF CancelForm, SettingsInv, SettingsTyped
<1>3. FormSound' /\ ListShowsConnections'
  BY DEF CancelForm, SettingsInv, FormSound, ListShowsConnections
<1> QED BY <1>1, <1>2, <1>3 DEF SettingsInv

\* A new connection joins the list.
LEMMA AcceptNewStep == ASSUME SettingsInv, NEW f \in Form, AcceptNew(f) PROVE SettingsInv'
<1> DEFINE c == settings.connections
           r == validateAndApply(form.copy, f, "").copy
<1>0. /\ run = "form" /\ run' = "list" /\ form.for \in {"add", "clone"} /\ form' = NULL
      /\ settings' = [settings EXCEPT !.connections = Append(c, r)]
      /\ listed' = Append(listed, form.copy.id) /\ items' = Append(items, form.copy.id)
      /\ UNCHANGED <<file, old, pending, damaged, ops>>
  BY DEF AcceptNew
<1>1. form \in OpenForm /\ form.copy \in Record /\ NewSound(c, form)
  BY <1>0, OpenedForm
<1>2. /\ r \in Record /\ r.id = form.copy.id /\ r.uuid = form.copy.uuid /\ r.origin = form.copy.origin
      /\ r.parts = Whole(f)
  BY <1>1, Applied
<1>3. c \in Seq(Record) /\ RecordsSound(c) /\ Len(c) \in Nat /\ DOMAIN c = 1 .. Len(c)
  BY StoredMembers DEF SettingsInv, StoresSound, StoreSound
<1>4. listed \in Seq(Nat) /\ items \in Seq(Nat) /\ form.copy.id \in Nat
  BY <1>1 DEF SettingsInv, SettingsTyped, Record
<1>5. DOMAIN listed = DOMAIN c /\ Len(listed) = Len(c) /\ \A k \in DOMAIN listed : listed[k] = c[k].id
  BY <1>0, ListedItems
<1> HIDE DEF r, c
<1> DEFINE d == Append(c, r)
<1>6. /\ d \in Seq(Record) /\ RecordsSound(d)
      /\ NothingImported(c) => NothingImported(d)
  <2>1. f \in {"single", "unnamed", "named"}
    BY SettingsAssumption
  <2>2. \E g \in {"single", "unnamed", "named"} : r.parts = Whole(g)
    BY <1>2, <2>1
  <2>3. \A k \in DOMAIN c : /\ c[k].id # r.id
                            /\ r.uuid # 0 => c[k].uuid # r.uuid
                            /\ r.origin # "none" => c[k].origin # r.origin
    BY <1>1, <1>2 DEF NewSound
  <2>4. r.origin = "none" /\ r.uuid # OldUuid
    BY <1>1, <1>2 DEF NewSound
  <2> QED BY <1>2, <1>3, <2>2, <2>3, <2>4, AppendedSound
<1>7. listed' \in Seq(Nat) /\ items' \in Seq(Nat)
  BY <1>0, <1>4
<1>8. listed' = [k \in DOMAIN d |-> d[k].id]
  <2>1. /\ Len(d) = Len(c) + 1 /\ DOMAIN d = 1 .. Len(c) + 1 /\ d[Len(c) + 1] = r
        /\ \A k \in 1 .. Len(c) : d[k] = c[k]
    BY <1>2, <1>3, AppendProperties, LenProperties
  <2>2. /\ Len(listed') = Len(c) + 1 /\ DOMAIN listed' = 1 .. Len(c) + 1
        /\ listed'[Len(c) + 1] = form.copy.id
        /\ \A k \in 1 .. Len(c) : listed'[k] = listed[k]
    BY <1>0, <1>4, <1>5, <1>7, AppendProperties, LenProperties
  <2> HIDE DEF d
  <2>3. ASSUME NEW k \in 1 .. Len(c) + 1 PROVE listed'[k] = d[k].id
    <3>1. CASE k \in 1 .. Len(c)
      BY <1>3, <1>5, <2>1, <2>2, <3>1
    <3>2. CASE k = Len(c) + 1
      BY <1>2, <2>1, <2>2, <3>2
    <3> QED BY <1>3, <3>1, <3>2
  <2>4. listed' = [k \in 1 .. Len(c) + 1 |-> listed'[k]]
    BY <1>7, <2>2
  <2> QED BY <2>1, <2>3, <2>4
<1> QED BY <1>0, <1>6, <1>7, <1>8, BackInList DEF c

\* The copy is applied to the connection it was made of.
LEMMA AcceptEditStep == ASSUME SettingsInv, NEW f \in Form, AcceptEdit(f) PROVE SettingsInv'
<1> DEFINE c == settings.connections
           q == validateAndApply(form.copy, f, "").copy
           k == Position(form.target)
           d == [c EXCEPT ![k] = apply(c[k], q)]
<1>0. /\ run = "form" /\ form.for = "edit"
      /\ \/ /\ run' = "list" /\ form' = NULL
            /\ settings' = [settings EXCEPT !.connections[k] = apply(@, q)]
            /\ UNCHANGED <<listed, items, pending>>
         \/ Terminate
      /\ UNCHANGED <<file, old, damaged, ops>>
  BY DEF AcceptEdit
<1>1. CASE Terminate
  BY <1>0, <1>1, TerminateStep
<1>2. CASE /\ run' = "list" /\ form' = NULL
           /\ settings' = [settings EXCEPT !.connections[k] = apply(@, q)]
           /\ UNCHANGED <<listed, items, pending>>
  <2>1. form \in OpenForm /\ form.copy \in Record /\ EditSound(c, form)
    BY <1>0, OpenedForm
  <2>2. /\ q \in Record /\ q.origin = form.copy.origin /\ q.parts = Whole(f)
    BY <2>1, Applied
  <2>3. /\ settings \in Stored /\ c \in Seq(Record) /\ RecordsSound(c) /\ Len(c) \in Nat
        /\ DOMAIN c = 1 .. Len(c) /\ \A j \in DOMAIN c : c[j] \in Record
    BY StoredMembers DEF SettingsInv, StoresSound, StoreSound
  <2>4. PICK i \in DOMAIN c : c[i].id = form.target /\ c[i].origin = form.copy.origin
    BY <2>1 DEF EditSound
  <2>5. k = i
    BY <2>4, PositionOf
  <2>6. settings' = [settings EXCEPT !.connections = d]
    BY <1>2, <2>3 DEF Stored
  <2>7. apply(c[k], q) \in Record /\ apply(c[k], q).id = c[k].id /\ apply(c[k], q).uuid = c[k].uuid
          /\ apply(c[k], q).origin = c[k].origin /\ apply(c[k], q).parts = Whole(f)
    <3>1. ASSUME NEW r \in Record
          PROVE  apply(r, q) \in Record /\ apply(r, q).id = r.id /\ apply(r, q).uuid = r.uuid
                   /\ apply(r, q).origin = q.origin /\ apply(r, q).parts = q.parts
      BY <2>2 DEF apply, Record
    <3>2. c[k] \in Record /\ c[k].origin = q.origin
      BY <2>2, <2>3, <2>4, <2>5
    <3> QED BY <2>2, <3>1, <3>2
  <2>8. DOMAIN listed = DOMAIN c /\ (\A j \in DOMAIN listed : listed[j] = c[j].id) /\ listed \in Seq(Nat)
          /\ items \in Seq(Nat)
    BY <1>0, ListedItems DEF SettingsInv, SettingsTyped
  <2> HIDE DEF q, k, c
  <2>9. d \in Seq(Record) /\ DOMAIN d = DOMAIN c
    BY <2>3, <2>4, <2>5, <2>7, ExceptSeq
  <2>10. ASSUME NEW j \in DOMAIN c
         PROVE  d[j].id = c[j].id /\ d[j].uuid = c[j].uuid /\ d[j].origin = c[j].origin
                  /\ (d[j].parts = c[j].parts \/ d[j].parts = Whole(f))
    <3>1. CASE j = k
      BY <2>7, <3>1
    <3>2. CASE j # k
      BY <3>2
    <3> QED BY <3>1, <3>2
  <2> HIDE DEF d
  <2>11. IdsApart(d)
    BY <2>3, <2>9, <2>10 DEF RecordsSound, IdsApart
  <2>12. UuidsApart(d)
    BY <2>3, <2>9, <2>10 DEF RecordsSound, UuidsApart
  <2>13. OriginsApart(d)
    BY <2>3, <2>9, <2>10 DEF RecordsSound, OriginsApart
  <2>14. WholeForms(d)
    <3>1. f \in {"single", "unnamed", "named"}
      BY SettingsAssumption
    <3> QED BY <2>3, <2>9, <2>10, <3>1 DEF RecordsSound, WholeForms
  <2>15. NothingImported(c) => NothingImported(d)
    BY <2>9, <2>10 DEF NothingImported
  <2>16. RecordsSound(d)
    BY <2>11, <2>12, <2>13, <2>14 DEF RecordsSound
  <2>17. listed' = [j \in DOMAIN d |-> d[j].id]
    <3>1. listed' = [j \in DOMAIN c |-> listed[j]]
      BY <1>2, <2>3, <2>8
    <3> QED BY <2>8, <2>9, <2>10, <3>1
  <2>18. listed' \in Seq(Nat) /\ items' \in Seq(Nat)
    BY <1>2, <2>8
  <2> QED BY <1>0, <1>2, <2>6, <2>9, <2>15, <2>16, <2>17, <2>18, BackInList DEF c
<1> QED BY <1>0, <1>1, <1>2

\* An answer changes what is cached of one connection and nothing that tells it from
\* the others, whatever dialog is open.
LEMMA AnswerChanges ==
  ASSUME SettingsInv, NEW p \in pending, NEW isError \in BOOLEAN, Answer(p, isError)
  PROVE  /\ StoreSound(settings') /\ DOMAIN settings'.connections = DOMAIN settings.connections
         /\ \A k \in DOMAIN settings.connections : Alike(settings'.connections[k], settings.connections[k])
         /\ settings'.option = settings.option /\ settings'.shortcutsOff = settings.shortcutsOff
         /\ UNCHANGED <<settings, file, damaged>> \/ Save(settings')
<1> DEFINE c == settings.connections
           k == ByUuid(p.uuid)
<1>0. StoreSound(settings)
  BY DEF SettingsInv, StoresSound
<1>1. CASE UNCHANGED <<settings, file, damaged>>
  BY <1>0, <1>1 DEF Alike
<1>2. CASE /\ k # 0 /\ Save(settings')
           /\ settings' = [settings EXCEPT !.connections[k].cached = p.form = "unnamed" /\ ~ isError]
  <2>1. /\ settings \in Stored /\ c \in Seq(Record) /\ RecordsSound(c) /\ Len(c) \in Nat
        /\ DOMAIN c = 1 .. Len(c) /\ \A j \in DOMAIN c : c[j] \in Record
    BY <1>0, StoredMembers DEF StoreSound
  <2>2. k \in DOMAIN c
    <3> DEFINE F == {i \in DOMAIN c : c[i].uuid = p.uuid}
    <3>1. F # {} /\ k = CHOOSE i \in F : \A j \in F : i <= j
      BY <1>2 DEF ByUuid
    <3>2. F \subseteq Nat
      BY <2>1
    <3>3. \E i \in F : \A j \in F : i <= j
      <4> HIDE DEF F
      <4> QED BY <3>1, <3>2, LeastOf
    <3>4. k \in F
      <4> HIDE DEF F
      <4> QED BY <3>1, <3>3, Zenon
    <3> QED BY <3>4
  <2>3. PICK v \in BOOLEAN : settings' = [settings EXCEPT !.connections[k].cached = v]
    <3>1. (p.form = "unnamed" /\ ~ isError) \in BOOLEAN
      BY Zenon
    <3> QED BY <1>2, <3>1, Zenon
  <2> DEFINE d == [c EXCEPT ![k].cached = v]
  <2>4. settings' = [settings EXCEPT !.connections = d]
    BY <2>1, <2>3 DEF Stored
  <2> HIDE DEF k, c
  <2>5. [c[k] EXCEPT !.cached = v] \in Record /\ Alike([c[k] EXCEPT !.cached = v], c[k])
    <3>1. ASSUME NEW r \in Record PROVE [r EXCEPT !.cached = v] \in Record /\ Alike([r EXCEPT !.cached = v], r)
      BY DEF Record, Alike
    <3> QED BY <2>1, <2>2, <3>1
  <2>6. d = [c EXCEPT ![k] = [c[k] EXCEPT !.cached = v]]
    OBVIOUS
  <2>7. d \in Seq(Record) /\ DOMAIN d = DOMAIN c
    <3> HIDE DEF d
    <3> QED BY <2>1, <2>2, <2>5, <2>6, ExceptSeq, LenProperties
  <2>8. \A j \in DOMAIN c : Alike(d[j], c[j])
    <3> HIDE DEF d
    <3> SUFFICES ASSUME NEW j \in DOMAIN c PROVE Alike(d[j], c[j])
      OBVIOUS
    <3>1. CASE j = k
      BY <2>1, <2>2, <2>5, <2>6, <3>1
    <3>2. CASE j # k
      <4>1. d[j] = c[j]
        BY <2>6, <3>2
      <4> QED BY <4>1 DEF Alike
    <3> QED BY <3>1, <3>2
  <2> HIDE DEF d
  <2>9. RecordsSound(d) /\ (NothingImported(c) => NothingImported(d))
    BY <2>1, <2>7, <2>8, AlikeSound
  <2>10. /\ settings'.connections = d /\ settings'.option = settings.option
         /\ settings'.shortcutsOff = settings.shortcutsOff
    BY <2>1, <2>4, <2>7, WithConnections
  <2>11. StoreSound(settings')
    BY <1>0, <2>4, <2>7, <2>9, RearrangedStore DEF c
  <2> QED BY <1>2, <2>7, <2>8, <2>10, <2>11 DEF c
<1> QED BY <1>1, <1>2 DEF Answer

LEMMA AnswerStep ==
  ASSUME SettingsInv, NEW p \in pending, NEW isError \in BOOLEAN, Answer(p, isError) PROVE SettingsInv'
<1>1. /\ StoreSound(settings') /\ DOMAIN settings'.connections = DOMAIN settings.connections
      /\ \A k \in DOMAIN settings.connections : Alike(settings'.connections[k], settings.connections[k])
      /\ UNCHANGED <<settings, file, damaged>> \/ Save(settings')
  BY AnswerChanges
<1>2. pending' = pending \ {p} /\ UNCHANGED <<old, run, listed, items, form, ops>>
  BY DEF Answer
<1>3. StoresSound' /\ damaged' \in BOOLEAN
  <2>1. CASE UNCHANGED <<settings, file, damaged>>
    BY <2>1 DEF SettingsInv, StoresSound, SettingsTyped
  <2>2. CASE Save(settings')
    BY <1>1, <2>2, SavedSound DEF SettingsInv, StoresSound
  <2> QED BY <1>1, <2>1, <2>2
<1>4. (pending \subseteq Requests /\ IsFiniteSet(pending) /\ Cardinality(pending) <= MaxPending)'
  <2>1. /\ pending \subseteq Requests /\ IsFiniteSet(pending) /\ Cardinality(pending) <= MaxPending
        /\ pending' \in SUBSET pending
    BY <1>2 DEF SettingsInv, SettingsTyped
  <2>2. IsFiniteSet(pending') /\ Cardinality(pending') <= Cardinality(pending)
    BY <2>1, FS_Subset
  <2>3. Cardinality(pending') \in Nat /\ Cardinality(pending) \in Nat
    BY <2>1, <2>2, FS_CardinalityType
  <2> QED BY <2>1, <2>2, <2>3, SettingsAssumption
<1>5. SettingsTyped'
  BY <1>2, <1>3, <1>4 DEF SettingsInv, SettingsTyped
<1>6. \A k \in DOMAIN settings.connections :
        /\ settings'.connections[k].id = settings.connections[k].id
        /\ settings'.connections[k].uuid = settings.connections[k].uuid
        /\ settings'.connections[k].origin = settings.connections[k].origin
  BY <1>1 DEF Alike
<1>7. ListShowsConnections'
  BY <1>1, <1>2, <1>6 DEF SettingsInv, ListShowsConnections
<1>8. FormSound'
  <2>1. FormSound
    BY DEF SettingsInv
  <2>2. EditSound(settings.connections, form) => EditSound(settings'.connections, form)
    BY <1>1, <1>6 DEF EditSound
  <2>3. NewSound(settings.connections, form) => NewSound(settings'.connections, form)
    BY <1>1, <1>6 DEF NewSound
  <2> QED BY <1>2, <2>1, <2>2, <2>3 DEF FormSound
<1> QED BY <1>3, <1>5, <1>7, <1>8 DEF SettingsInv

-----------------------------------------------------------------------------
(* The settings and the menus together.                                       *)

\* The options in the menu are those of the settings while there is a window.
MenuSound ==
  run \in {"main", "list", "form"} =>
    /\ menu = [option |-> settings.option, shortcutsOff |-> settings.shortcutsOff, connections |-> menu.connections]
    /\ run = "main" => menu.connections = ConnectionEntries(settings)

\* The inductive invariant of MenuSpec.
MenuInv == SettingsInv /\ FileCurrent /\ MenuSound

LEMMA MenuNextSettings == ASSUME SettingsInv, [MenuNext]_menuVars PROVE SettingsInv'
<1>1. CASE Start \/ AcceptEula \/ UseOldVersion \/ InitStyle
  BY <1>1, StartStep, AcceptEulaStep, UseOldVersionStep, InitStyleStep
<1>2. CASE AcceptEditOrEnd
  BY <1>2, EndStep, AcceptEditStep DEF AcceptEditOrEnd
<1>3. ASSUME NEW v \in BOOLEAN, ChooseEntry(v) PROVE SettingsInv'
  BY <1>3, SetOptionsStep DEF ChooseEntry
<1>4. CASE ToggleShortcuts
  <2>1. (~ menu.shortcutsOff) \in BOOLEAN
    BY Zenon
  <2> QED BY <1>4, <2>1, SetOptionsStep, Zenon DEF ToggleShortcuts
<1>5. CASE ListNext
  BY <1>5, OpenListStep, RemoveConnectionStep, ReorderStep DEF ListNext
<1>6. CASE FormNext
  <2>1. CASE Add \/ CancelForm
    BY <2>1, AddStep, CancelFormStep
  <2>2. ASSUME NEW id \in Range(listed), Edit(id) \/ Clone(id) PROVE SettingsInv'
    BY <2>2, EditStep, CloneStep
  <2>3. ASSUME NEW f \in Form, NEW refused \in {"members", "ssh", "ssl"}, TryForm(f, refused) PROVE SettingsInv'
    <3>1. refused \in {"", "members", "ssh", "ssl"} /\ refused # ""
      OBVIOUS
    <3> QED BY <2>3, <3>1, TryFormStep
  <2>4. ASSUME NEW f \in Form, Room, TryForm(f, "") PROVE SettingsInv'
    BY <2>4, TryFormStep
  <2>5. ASSUME NEW f \in Form, AcceptNew(f) PROVE SettingsInv'
    BY <2>5, AcceptNewStep
  <2> QED BY <1>6, <2>1, <2>2, <2>3, <2>4, <2>5 DEF FormNext
<1>7. CASE ManageConnections \/ ManageAndConnect
  BY <1>7, CloseListStep, ConnectStep DEF ManageConnections, ManageAndConnect
<1>8. ASSUME NEW k, ConnectFromMenu(k) PROVE SettingsInv'
  BY <1>8, ConnectFromMenuStep
<1>9. ASSUME NEW p \in pending, NEW isError \in BOOLEAN, Answer(p, isError) PROVE SettingsInv'
  BY <1>9, AnswerStep
<1>10. CASE UNCHANGED menuVars
  <2>1. /\ UNCHANGED <<settings, file>> /\ UNCHANGED <<old, damaged, ops, run, items, listed, pending>>
        /\ UNCHANGED form
    BY <1>10 DEF menuVars, settingsVars
  <2>2. StoresSound' /\ SettingsTyped' /\ FormSound' /\ ListShowsConnections'
    BY <2>1 DEF SettingsInv, StoresSound, SettingsTyped, FormSound, ListShowsConnections
  <2> QED BY <2>2 DEF SettingsInv
<1> QED BY <1>1, <1>2, <1>3, <1>4, <1>5, <1>6, <1>7, <1>8, <1>9, <1>10 DEF MenuNext

\* A save that was not refused wrote what was to be saved.
LEMMA SaveWrites == ASSUME NEW s, Save(s), ~ damaged' PROVE file' = convertToMap(s)
BY DEF Save

LEMMA MenuNextFile ==
  ASSUME SettingsInv, SettingsInv', FileCurrent, [MenuNext]_menuVars PROVE FileCurrent'
<1> DEFINE FileNow == file' # NULL /\ WithoutPhrases(file') = WithoutPhrases(convertToMap(settings'))
<1> SUFFICES ASSUME run' = "main", ~ damaged' PROVE FileNow
  BY DEF FileCurrent
<1>0. ASSUME NEW t, StoreSound(t), Save(t) PROVE file' = convertToMap(t) /\ file' # NULL
  <2>1. file' = convertToMap(t)
    BY <1>0, SaveWrites
  <2> QED BY <1>0, <2>1, ConvertedSound, NullAssumption DEF StoreSound
<1>1. CASE Save(settings')
  BY <1>0, <1>1 DEF SettingsInv, StoresSound
<1>2. CASE run = "main" /\ UNCHANGED <<file, damaged, settings>>
  BY <1>2 DEF FileCurrent
<1>3. CASE Start \/ AcceptEula \/ UseOldVersion \/ End
  BY <1>3 DEF Start, AcceptEula, UseOldVersion, End, Terminate
<1>4. CASE InitStyle
  BY <1>1, <1>4 DEF InitStyle
<1>5. ASSUME NEW f \in Form, AcceptEdit(f) PROVE FALSE
  BY <1>5 DEF AcceptEdit, Terminate
<1>6. ASSUME NEW v, ChooseEntry(v) PROVE Save(settings')
  BY <1>6 DEF ChooseEntry, saveOption, SetOptions
<1>7. CASE ToggleShortcuts
  BY <1>1, <1>7 DEF ToggleShortcuts, setDisableConnectionShortcuts, SetOptions
<1>8. CASE ListNext
  BY <1>8 DEF ListNext, OpenList, RemoveConnection, Reorder
<1>9. CASE FormNext
  BY <1>9 DEF FormNext, Add, Edit, Clone, Open, TryForm, AcceptNew, CancelForm
<1>10. CASE ManageConnections \/ ManageAndConnect
  <2>1. CASE ManageConnections
    BY <1>1, <2>1 DEF ManageConnections, CloseList
  <2>2. CASE ManageAndConnect
    <3>1. PICK id \in Range(listed) : Connect(id)
      BY <2>2 DEF ManageAndConnect
    <3>2. PICK k \in DOMAIN settings.connections : id = settings.connections[k].id
      BY <3>1, ListedPlace DEF Connect
    <3>3. WithoutPhrases(convertToMap(settings')) = WithoutPhrases(convertToMap(settings))
      BY <3>1, <3>2, StoredOpened DEF Connect
    <3>4. file' = convertToMap(settings) /\ file' # NULL
      BY <1>0, <3>1 DEF Connect, SettingsInv, StoresSound
    <3> QED BY <3>3, <3>4
  <2> QED BY <1>10, <2>1, <2>2
<1>11. ASSUME NEW k, ConnectFromMenu(k) PROVE FileNow
  <2>1. PICK j \in DOMAIN settings.connections : OpenStored(settings.connections[j].id)
    BY <1>11, MenuPlace
  <2>2. WithoutPhrases(convertToMap(settings')) = WithoutPhrases(convertToMap(settings))
    BY <1>11, <2>1, StoredOpened DEF ConnectFromMenu
  <2>3. run = "main" /\ UNCHANGED <<file, damaged>>
    BY <1>11 DEF ConnectFromMenu
  <2> QED BY <2>2, <2>3 DEF FileCurrent
<1>12. ASSUME NEW p \in pending, NEW isError \in BOOLEAN, Answer(p, isError)
       PROVE  Save(settings') \/ (run = "main" /\ UNCHANGED <<file, damaged, settings>>)
  BY <1>12, AnswerChanges DEF Answer
<1>13. CASE UNCHANGED menuVars
  BY <1>2, <1>13 DEF menuVars, settingsVars
<1> QED BY <1>1, <1>2, <1>3, <1>4, <1>5, <1>6, <1>7, <1>8, <1>9, <1>10, <1>11, <1>12, <1>13
        DEF MenuNext, AcceptEditOrEnd

\* The entries depend on the connections' objects and order, and on one option.
LEMMA SameEntries ==
  ASSUME NEW s, NEW t, DOMAIN s.connections = DOMAIN t.connections, s.shortcutsOff = t.shortcutsOff,
         \A k \in DOMAIN t.connections : s.connections[k].id = t.connections[k].id
  PROVE  ConnectionEntries(s) = ConnectionEntries(t)
BY DEF ConnectionEntries

\* NewMenu is what MenuSound asks for.
LEMMA NewMenuMembers ==
  ASSUME NEW s
  PROVE  /\ NewMenu(s).option = s.option /\ NewMenu(s).shortcutsOff = s.shortcutsOff
         /\ NewMenu(s).connections = ConnectionEntries(s)
         /\ NewMenu(s) = [option |-> s.option, shortcutsOff |-> s.shortcutsOff, connections |-> NewMenu(s).connections]
BY DEF NewMenu

LEMMA SoundFromNew == ASSUME menu' = NewMenu(settings') PROVE MenuSound'
BY NewMenuMembers DEF MenuSound

\* The menu stays, and so do the options; the list is not left.
LEMMA MenuKept ==
  ASSUME MenuSound, UNCHANGED menu, settings'.option = settings.option,
         settings'.shortcutsOff = settings.shortcutsOff,
         run' \in {"main", "list", "form"} => run \in {"main", "list", "form"},
         run' = "main" => run = "main" /\ ConnectionEntries(settings') = ConnectionEntries(settings)
  PROVE  MenuSound'
BY DEF MenuSound

LEMMA MenuNextMenu ==
  ASSUME SettingsInv, SettingsInv', MenuSound, [MenuNext]_menuVars PROVE MenuSound'
<1>0. settings \in Stored
  BY DEF SettingsInv, StoresSound, StoreSound
<1>1. CASE Start \/ AcceptEula \/ UseOldVersion
  <2>1. run' \notin {"main", "list", "form"}
    BY <1>1 DEF Start, AcceptEula, UseOldVersion
  <2> QED BY <2>1 DEF MenuSound
<1>2. CASE InitStyle /\ menu' = NewMenu(settings)
  BY <1>2, SoundFromNew DEF InitStyle
<1>3. CASE AcceptEditOrEnd
  <2>1. CASE run' = "off"
    BY <2>1 DEF MenuSound
  <2>2. CASE run' # "off"
    <3>1. PICK f \in Form : AcceptEdit(f)
      BY <1>3, <2>2 DEF AcceptEditOrEnd, End, Terminate
    <3>2. UNCHANGED menu
      BY <1>3, <2>2 DEF AcceptEditOrEnd
    <3>3. PICK k, x : /\ run = "form" /\ run' = "list"
                      /\ settings' = [settings EXCEPT !.connections[k] = x]
      BY <2>2, <3>1 DEF AcceptEdit, Terminate
    <3>4. settings'.option = settings.option /\ settings'.shortcutsOff = settings.shortcutsOff
      BY <1>0, <3>3 DEF Stored
    <3> QED BY <3>2, <3>3, <3>4, MenuKept
  <2> QED BY <2>1, <2>2
<1>4. ASSUME NEW v \in BOOLEAN, ChooseEntry(v) PROVE MenuSound'
  <2>1. run = "main" /\ run' = "main" /\ settings' = [settings EXCEPT !.option = v] /\ menu' = [menu EXCEPT !.option = v]
    BY <1>4 DEF ChooseEntry, saveOption, SetOptions
  <2>2. /\ menu = [option |-> settings.option, shortcutsOff |-> settings.shortcutsOff, connections |-> menu.connections]
        /\ menu.connections = ConnectionEntries(settings)
    BY <2>1 DEF MenuSound
  <2>3. /\ settings'.option = v /\ settings'.shortcutsOff = settings.shortcutsOff
        /\ settings'.connections = settings.connections
    BY <1>0, <2>1 DEF Stored
  <2>4. ConnectionEntries(settings') = ConnectionEntries(settings)
    BY <2>3, SameEntries
  <2>5. PICK o, c, e : menu = [option |-> o, shortcutsOff |-> c, connections |-> e] /\ e = menu.connections
                         /\ c = settings.shortcutsOff
    BY <2>2
  <2>6. menu' = [option |-> v, shortcutsOff |-> c, connections |-> e]
    BY <2>1, <2>5
  <2>7. menu'.connections = e
    BY <2>6
  <2> QED BY <2>1, <2>2, <2>3, <2>4, <2>5, <2>6, <2>7 DEF MenuSound
<1>5. CASE ToggleShortcuts
  <2>1. PICK v : run = "main" /\ settings' = [settings EXCEPT !.shortcutsOff = v]
                   /\ menu' = [NewMenu(settings') EXCEPT !.option = menu.option]
    BY <1>5, Zenon DEF ToggleShortcuts, setDisableConnectionShortcuts, SetOptions
  <2>2. settings'.option = settings.option
    BY <1>0, <2>1 DEF Stored
  <2>3. menu.option = settings.option
    BY <2>1 DEF MenuSound
  <2>4. menu' = NewMenu(settings')
    BY <2>1, <2>2, <2>3 DEF NewMenu
  <2> QED BY <2>4, SoundFromNew
<1>6. CASE ListNext /\ UNCHANGED menu
  <2>1. run' = "list" /\ run \in {"main", "list"}
    BY <1>6 DEF ListNext, OpenList, RemoveConnection, Reorder
  <2>2. settings'.option = settings.option /\ settings'.shortcutsOff = settings.shortcutsOff
    <3>1. settings' = settings \/ \E d : settings' = [settings EXCEPT !.connections = d]
      BY <1>6 DEF ListNext, OpenList, RemoveConnection, Reorder
    <3> QED BY <1>0, <3>1 DEF Stored
  <2> QED BY <1>6, <2>1, <2>2, MenuKept
<1>7. CASE FormNext /\ UNCHANGED menu
  <2>1. run' \in {"list", "form"} /\ run \in {"list", "form"}
    BY <1>7 DEF FormNext, Add, Edit, Clone, Open, TryForm, AcceptNew, CancelForm
  <2>2. settings'.option = settings.option /\ settings'.shortcutsOff = settings.shortcutsOff
    <3>1. settings' = settings \/ \E d : settings' = [settings EXCEPT !.connections = d]
      BY <1>7 DEF FormNext, Add, Edit, Clone, Open, TryForm, AcceptNew, CancelForm
    <3> QED BY <1>0, <3>1 DEF Stored
  <2> QED BY <1>7, <2>1, <2>2, MenuKept
<1>8. CASE ManageConnections \/ ManageAndConnect
  <2>1. /\ run = "list" /\ menu' = [menu EXCEPT !.connections = ConnectionEntries(settings')]
        /\ settings'.option = settings.option /\ settings'.shortcutsOff = settings.shortcutsOff
    <3>1. CASE ManageConnections
      BY <3>1 DEF ManageConnections, CloseList, updateConnectionsMenu
    <3>2. CASE ManageAndConnect
      <4>1. PICK id \in Range(listed) : Connect(id)
        BY <3>2 DEF ManageAndConnect
      <4>2. PICK k \in DOMAIN settings.connections : id = settings.connections[k].id
        BY <4>1, ListedPlace DEF Connect
      <4>3. settings'.option = settings.option /\ settings'.shortcutsOff = settings.shortcutsOff
        BY <4>1, <4>2, StoredOpened DEF Connect
      <4> QED BY <3>2, <4>1, <4>3 DEF ManageAndConnect, Connect, updateConnectionsMenu
    <3> QED BY <1>8, <3>1, <3>2
  <2>2. menu = [option |-> settings.option, shortcutsOff |-> settings.shortcutsOff, connections |-> menu.connections]
    BY <2>1 DEF MenuSound
  <2>3. PICK e, m : e = ConnectionEntries(settings') /\ m = menu.connections
    OBVIOUS
  <2>4. menu' = [option |-> settings.option, shortcutsOff |-> settings.shortcutsOff, connections |-> e]
    BY <2>1, <2>2, <2>3
  <2>5. menu' = NewMenu(settings')
    BY <2>1, <2>3, <2>4 DEF NewMenu
  <2> QED BY <2>5, SoundFromNew
<1>9. ASSUME NEW k, ConnectFromMenu(k) PROVE MenuSound'
  <2>1. PICK j \in DOMAIN settings.connections : OpenStored(settings.connections[j].id)
    BY <1>9, MenuPlace
  <2>2. /\ DOMAIN settings'.connections = DOMAIN settings.connections
        /\ \A i \in DOMAIN settings.connections : settings'.connections[i].id = settings.connections[i].id
        /\ settings'.option = settings.option /\ settings'.shortcutsOff = settings.shortcutsOff
    BY <1>9, <2>1, StoredOpened DEF ConnectFromMenu, Alike
  <2>3. ConnectionEntries(settings') = ConnectionEntries(settings)
    BY <2>2, SameEntries
  <2> QED BY <1>9, <2>2, <2>3, MenuKept DEF ConnectFromMenu
<1>10. ASSUME NEW p \in pending, NEW isError \in BOOLEAN, Answer(p, isError), UNCHANGED menu PROVE MenuSound'
  <2>1. /\ DOMAIN settings'.connections = DOMAIN settings.connections
        /\ \A k \in DOMAIN settings.connections : settings'.connections[k].id = settings.connections[k].id
        /\ settings'.option = settings.option /\ settings'.shortcutsOff = settings.shortcutsOff
    BY <1>10, AnswerChanges DEF Alike
  <2>2. ConnectionEntries(settings') = ConnectionEntries(settings)
    BY <2>1, SameEntries
  <2>3. run' = run
    BY <1>10 DEF Answer
  <2> QED BY <1>10, <2>1, <2>2, <2>3, MenuKept
<1>11. CASE UNCHANGED menuVars
  BY <1>11, MenuKept DEF menuVars, settingsVars
<1> QED BY <1>1, <1>2, <1>3, <1>4, <1>5, <1>6, <1>7, <1>8, <1>9, <1>10, <1>11 DEF MenuNext

\* The invariant of the settings, the file and the menus holds of MenuSpec.
LEMMA MenuInvariance == MenuSpec => []MenuInv
<1>1. MenuInit => MenuInv
  BY InitSettingsInv DEF MenuInit, MenuInv, FileCurrent, MenuSound, SettingsInit
<1>2. MenuInv /\ [MenuNext]_menuVars => MenuInv'
  BY MenuNextSettings, MenuNextFile, MenuNextMenu DEF MenuInv
<1> QED BY <1>1, <1>2, PTL DEF MenuSpec

\* The types of the settings, the file, the list and the dialog, and the bounds of the
\* requests and of the user's changes, through starts, dialogs, answers and ends.
THEOREM SettingsTypeCorrect == MenuSpec => []SettingsTypeOK
<1>1. MenuInv => SettingsTypeOK
  <2> SUFFICES ASSUME MenuInv PROVE SettingsTypeOK
    OBVIOUS
  <2>1. StoresSound /\ SettingsTyped /\ FormSound
    BY DEF MenuInv, SettingsInv
  <2>2. settings \in Stored /\ (file = NULL \/ file \in Stored)
    BY <2>1 DEF StoresSound, StoreSound
  <2>3. (run = "form" <=> form # NULL) /\ (form # NULL => form \in OpenForm)
    BY <2>1 DEF FormSound
  <2>4. form # NULL /\ form.for = "edit" => form.target \in Ids(settings.connections)
    <3> SUFFICES ASSUME form # NULL, form.for = "edit" PROVE form.target \in Ids(settings.connections)
      OBVIOUS
    <3>1. PICK k \in DOMAIN settings.connections : settings.connections[k].id = form.target
      BY <2>1 DEF FormSound, EditSound
    <3> QED BY <3>1 DEF Ids, Range
  <2> QED BY <2>1, <2>2, <2>3, <2>4 DEF SettingsTyped, SettingsTypeOK
<1> QED BY <1>1, MenuInvariance, PTL

\* importConnections: whatever saves failed, whenever the process ended between the
\* import and the save that records it, and whichever dialogs edited or cloned what was
\* imported, no two connections come from one old file.
THEOREM NeverImportedTwice == MenuSpec => []ImportedOnce
<1>1. MenuInv => ImportedOnce
  BY DEF MenuInv, SettingsInv, StoresSound, StoreSound, RecordsSound, OriginsApart, ImportedOnce
<1> QED BY <1>1, MenuInvariance, PTL

\* ConnectionsDialog, ConnectionDialog and updateReplicaSetSettings: for any number of
\* connections, dialogs and answers, the list shows the connections in their order, each
\* is as one dialog left it, and no uuid leads to another one.
THEOREM ConnectionsHoldTogether == MenuSpec => []ConnectionsSound
<1>1. MenuInv => ConnectionsSound
  <2> SUFFICES ASSUME MenuInv PROVE ConnectionsSound
    OBVIOUS
  <2>1. RecordsSound(settings.connections) /\ ListShowsConnections
    BY DEF MenuInv, SettingsInv, StoresSound, StoreSound
  <2>2. NoHalfForms
    BY <2>1 DEF NoHalfForms, RecordsSound, WholeForms, Range
  <2>3. UuidsTellApart
    BY <2>1 DEF UuidsTellApart, RecordsSound, UuidsApart
  <2> QED BY <2>1, <2>2, <2>3 DEF ConnectionsSound
<1> QED BY <1>1, MenuInvariance, PTL

\* SettingsManager::save: with the main window in front and the last save successful,
\* an end of the process loses no setting.
THEOREM FileHoldsSettings == MenuSpec => []FileCurrent
<1>1. MenuInv => FileCurrent
  BY DEF MenuInv
<1> QED BY <1>1, MenuInvariance, PTL

\* MainWindow: with the window in front every entry is checked as its option is set, and
\* the entries of the connections are the connections there are, in their order, with
\* the shortcuts of their places: no entry points to a connection that was removed.
THEOREM MenusFollowSettings == MenuSpec => []MenusCurrent
<1>1. MenuInv => MenusCurrent
  BY DEF MenuInv, MenuSound, MenusCurrent, NewMenu
<1> QED BY <1>1, MenuInvariance, PTL
=============================================================================

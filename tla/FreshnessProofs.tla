-------------------------- MODULE FreshnessProofs ---------------------------
(* What is shown of a server's data is what the server has: of the Welcome     *)
(* tab, for any number of versions, tabs and faults; and of the indexes of a   *)
(* collection, for any names, options, operations and reloads.                 *)
EXTENDS WelcomeTab, Indexes, FiniteSetTheorems, SequenceTheorems, TLAPS

\* A file is no older than the date recorded with it, and that date is one the
\* server gave.
CacheSound ==
  \A r \in Resource :
     /\ date[r] <= server[r]
     /\ file[r] > 0 /\ date[r] > 0 => file[r] >= date[r]

\* A reply without error is about a version no older than the tab, if it has a date
\* or a body at all, and no date is recorded for a resource before its exchange ends.
ExchangeSound ==
  \A r \in Resource :
     /\ noted[r] <= asked[r] /\ asked[r] <= server[r]
     /\ net[r].date <= server[r]
     /\ net[r].stage \in {"headReply", "getReply"} /\ net[r].status = "ok" =>
          net[r].date = Nothing \/ net[r].date >= asked[r]
     /\ net[r].body > 0 => /\ net[r].body >= net[r].date /\ net[r].body >= asked[r]
                           /\ net[r].status = "ok" /\ net[r].stage = "getReply"
     /\ net[r].stage # "idle" => noted[r] = date[r]

\* The inductive invariant. NotOutdated needs that file and date agree, and
\* NewsIsShown that the date compared is the one recorded when the tab was opened.
IInv == TypeOK /\ CacheSound /\ ExchangeSound /\ NotOutdated /\ NewsIsShown

\* The types and the facts of the cache alone.
CacheOK ==
  /\ file \in [Resource -> Bodies \cup {Missing}]
  /\ date \in [Resource -> Nat]
  /\ CacheSound

-----------------------------------------------------------------------------
\* Contents that are no version are no numbers of one.
LEMMA NoVersion ==
  /\ ~ (Empty > 0) /\ ~ (Part > 0) /\ ~ (Missing > 0)
  /\ Empty # Missing /\ Part # Missing /\ Empty # Part
  BY DEF Empty, Part, Missing

\* Every content is a number.
LEMMA BodiesAreIntegers == ASSUME NEW c \in Bodies \cup {Missing} PROVE c \in Int
  BY DEF Bodies, Empty, Part, Missing

\* The two exchanges a handler goes on to.
LEMMA NextExchange ==
  /\ Idle \in Exchanges /\ Download \in Exchanges
  /\ Idle.stage = "idle" /\ Download.stage = "get" /\ Idle # Download
  /\ Idle.date = 0 /\ Download.date = 0 /\ Idle.body = Empty /\ Download.body = Empty
<1>1. Idle \in Exchanges /\ Idle.stage = "idle" /\ Idle.date = 0 /\ Idle.body = Empty
  BY DEF Idle, Exchanges, Bodies, Nothing
<1>2. /\ Download \in Exchanges /\ Download.stage = "get"
      /\ Download.date = 0 /\ Download.body = Empty
  BY DEF Download, Request, Idle, Exchanges, Bodies, Nothing
<1> QED BY <1>1, <1>2

-----------------------------------------------------------------------------
(* The cache.                                                                 *)

\* Whatever fails in saveIntoCache, the cache stays sound when the body is no older
\* than its date.
LEMMA SaveSound ==
  ASSUME IInv, NEW r \in Resource, NEW body \in Bodies, NEW d \in Nat,
         d <= server[r], body > 0 => body >= d,
         r = "picture" /\ body > 0 => body >= date[r],
         saveIntoCache(r, body, d) \/ Interrupted(r, body, d), UNCHANGED server
  PROVE  CacheOK'
<1> USE DEF CacheOK, CacheSound, IInv, TypeOK, Bodies, Empty, Part, Missing
<1>1. ASSUME NEW c \in Bodies \cup {Missing}, c > 0 => c >= d,
             file' = [file EXCEPT ![r] = c], date' = [date EXCEPT ![r] = d]
      PROVE  CacheOK'
  BY <1>1
<1>2. ASSUME NEW c \in Bodies \cup {Missing}, c = file[r] \/ (c > 0 => c >= date[r]),
             file' = [file EXCEPT ![r] = c], UNCHANGED date
      PROVE  CacheOK'
  BY <1>2
<1>3. CASE saveIntoCache(r, body, d)
  <2>1. CASE \E c \in {body, Empty, Part} :
                file' = [file EXCEPT ![r] = c] /\ date' = [date EXCEPT ![r] = d]
    BY <2>1, <1>1
  <2>2. CASE \E c \in {Missing, file[r]} :
                file' = [file EXCEPT ![r] = c] /\ UNCHANGED date
    BY <2>2, <1>2
  <2> QED BY <1>3, <2>1, <2>2 DEF saveIntoCache
<1>4. CASE Interrupted(r, body, d)
  <2>1. CASE \E c \in {Missing, Empty, Part} :
                file' = [file EXCEPT ![r] = c] /\ UNCHANGED date
    BY <2>1, <1>2
  <2>2. CASE r = "picture" /\ file' = [file EXCEPT ![r] = body] /\ UNCHANGED date
    BY <2>2, <1>2
  <2>3. CASE \E c \in {Empty, Part} :
                file' = [file EXCEPT ![r] = c] /\ date' = [date EXCEPT ![r] = d]
    BY <2>3, <1>1
  <2> QED BY <1>4, <2>1, <2>2, <2>3 DEF Interrupted
<1> QED BY <1>3, <1>4

-----------------------------------------------------------------------------
(* The handlers.                                                              *)

\* The end of a handler: what has to be true of the content it shows, of the cache
\* it leaves and of the exchange it goes on to.
LEMMA HandledSound ==
  ASSUME IInv, NEW r \in Resource, NEW c \in Nat \cup {Part},
         NEW next \in {Idle, Download}, header' \in {"visible", "hidden"}, Handled(r, c, next),
         net[r].stage \in {"headReply", "getReply"}, faults' \in Nat, CacheOK',
         next = Download => UNCHANGED date,
         \A q \in Resource \ {r} : date'[q] = date[q],
         ~ Unusable(net[r]) /\ r \notin trouble =>
           /\ c > 0 => c >= asked[r]
           /\ next = Idle /\ noted[r] < asked[r] => c >= asked[r]
  PROVE  IInv'
<1>1. next \in Exchanges /\ next.date = 0 /\ ~ (next.body > 0)
      /\ next.stage \in {"idle", "get"} /\ (next.stage = "idle" <=> next = Idle)
  BY NextExchange, NoVersion
<1>2. TypeOK'
  BY <1>1 DEF CacheOK, Handled, IInv, TypeOK
<1>3. CacheSound'
  BY DEF CacheOK
<1>4. /\ server' = server /\ asked' = asked /\ noted' = noted
      /\ net'[r] = next /\ shown'[r] = c /\ (r \in trouble' <=> r \in trouble \/ Unusable(net[r]))
      /\ \A q \in Resource \ {r} :
            net'[q] = net[q] /\ shown'[q] = shown[q] /\ (q \in trouble' <=> q \in trouble)
  BY DEF Handled, IInv, TypeOK
<1>5. ASSUME NEW q \in Resource
      PROVE  /\ server[q] \in Nat /\ asked[q] \in Nat /\ noted[q] \in Nat
             /\ noted[q] <= asked[q] /\ asked[q] <= server[q]
  BY DEF IInv, TypeOK, ExchangeSound
<1>6. ExchangeSound'
  <2> SUFFICES ASSUME NEW q \in Resource
               PROVE  /\ noted'[q] <= asked'[q] /\ asked'[q] <= server'[q]
                      /\ net'[q].date <= server'[q]
                      /\ net'[q].stage \in {"headReply", "getReply"} /\ net'[q].status = "ok"
                           => net'[q].date = Nothing \/ net'[q].date >= asked'[q]
                      /\ net'[q].body > 0 => /\ net'[q].body >= net'[q].date
                                             /\ net'[q].body >= asked'[q]
                                             /\ net'[q].status = "ok" /\ net'[q].stage = "getReply"
                      /\ net'[q].stage # "idle" => noted'[q] = date'[q]
    BY DEF ExchangeSound
  <2>1. CASE q = r
    <3>1. next.stage # "idle" => noted[r] = date'[r]
      BY <1>1 DEF IInv, ExchangeSound
    <3>2. \A n \in Nat : 0 <= n
      OBVIOUS
    <3> QED BY <1>1, <1>4, <1>5, <2>1, <3>1, <3>2
  <2>2. CASE q # r
    BY <1>4, <1>5, <2>2 DEF IInv, ExchangeSound
  <2> QED BY <2>1, <2>2
<1>7. NotOutdated'
  BY <1>4 DEF NotOutdated, IInv
<1>8. NewsIsShown'
  BY <1>1, <1>4 DEF NewsIsShown, IInv
<1> QED BY <1>2, <1>3, <1>6, <1>7, <1>8 DEF IInv

\* What the invariant says of one reply.
LEMMA ReplySound ==
  ASSUME IInv, NEW r \in Resource, net[r].stage \in {"headReply", "getReply"}
  PROVE  /\ net[r] \in Exchanges /\ net[r].body \in Bodies /\ net[r].date \in Nat
         /\ file[r] \in Bodies \cup {Missing} /\ shown[r] \in Nat \cup {Part}
         /\ date[r] \in Nat /\ server[r] \in Nat
         /\ noted[r] \in Nat /\ asked[r] \in Nat /\ asked[r] > 0
         /\ CacheOK /\ faults \in Nat /\ header \in {"visible", "hidden"}
         /\ noted[r] = date[r] /\ noted[r] <= asked[r] /\ net[r].date <= server[r]
         /\ net[r].status = "ok" => net[r].date = Nothing \/ net[r].date >= asked[r]
         /\ net[r].body > 0 => /\ net[r].body >= net[r].date /\ net[r].body >= asked[r]
                               /\ net[r].status = "ok"
         /\ file[r] > 0 /\ date[r] > 0 => file[r] >= date[r]
         /\ shown[r] > 0 /\ r \notin trouble => shown[r] >= asked[r]
<1>1. ExchangeSound /\ TypeOK /\ CacheSound /\ NotOutdated
  BY DEF IInv
<1>2. /\ net[r] \in Exchanges /\ net[r].body \in Bodies /\ net[r].date \in Nat
      /\ file[r] \in Bodies \cup {Missing} /\ shown[r] \in Nat \cup {Part}
      /\ date[r] \in Nat /\ server[r] \in Nat
      /\ noted[r] \in Nat /\ asked[r] \in Nat /\ asked[r] > 0
      /\ faults \in Nat
  <2>1. net[r] \in Exchanges
    BY <1>1 DEF TypeOK
  <2>2. net[r].body \in Bodies /\ net[r].date \in Nat
    BY <2>1 DEF Exchanges
  <2> QED BY <1>1, <2>1, <2>2 DEF TypeOK
<1>3. CacheOK /\ header \in {"visible", "hidden"}
  BY <1>1 DEF CacheOK, TypeOK
<1>4. /\ noted[r] = date[r] /\ noted[r] <= asked[r] /\ net[r].date <= server[r]
      /\ net[r].status = "ok" => net[r].date = Nothing \/ net[r].date >= asked[r]
      /\ net[r].body > 0 => /\ net[r].body >= net[r].date /\ net[r].body >= asked[r]
                            /\ net[r].status = "ok"
  BY <1>1 DEF ExchangeSound
<1> QED BY <1>1, <1>2, <1>3, <1>4 DEF CacheSound, NotOutdated

\* The handler of a reply about the text.
LEMMA TextSound ==
  ASSUME IInv, on_downloadTextReply, WelcomeTabAssumption
  PROVE  IInv'
<1> DEFINE reply == net["text"]
<1>0. /\ "text" \in Resource /\ reply \in Exchanges /\ shown["text"] \in Nat \cup {Part}
      /\ file["text"] \in Bodies \cup {Missing} /\ faults \in Nat /\ header \in {"visible", "hidden"}
      /\ CacheOK /\ reply.body \in Bodies /\ reply.date \in Nat
      /\ shown["picture"] \in Nat \cup {Part}
  BY DEF Resource, IInv, TypeOK, CacheOK, Exchanges
<1>1. ASSUME NEW str \in Bodies, NEW t \in TextOf(str, shown["text"])
      PROVE  /\ t \in Nat \cup {Part}
             /\ t > 0 => t = str \/ t = shown["text"]
             /\ str > 0 => t = str
  BY <1>0, <1>1 DEF TextOf, Bodies, Part, Empty
<1>2. CASE reply.stage = "headReply" /\ (reply.status = "error" \/ IsCached("text")) /\ textFromCache
  <2>1. CacheOK' /\ UNCHANGED <<file, date>> /\ UNCHANGED server
    BY <1>0, <1>2 DEF textFromCache, Handled, CacheOK, CacheSound
  <2>2. ASSUME NEW t \in TextOf(file["text"], shown["text"]), file["text"] # Missing,
               Handled("text", t, Idle) /\ header' = HeaderFor(t), Faults(0)
        PROVE  IInv'
    <3>1. ~ Unusable(reply) /\ "text" \notin trouble =>
            /\ t > 0 => t >= asked["text"]
            /\ noted["text"] < asked["text"] => t >= asked["text"]
      <4> SUFFICES ASSUME ~ Unusable(reply), "text" \notin trouble
                   PROVE  /\ t > 0 => t >= asked["text"]
                          /\ noted["text"] < asked["text"] => t >= asked["text"]
        OBVIOUS
      <4>1. date["text"] >= asked["text"] /\ asked["text"] > 0 /\ noted["text"] = date["text"]
        <5>1. reply.status = "ok" /\ reply.date # Nothing /\ reply.date = date["text"]
          BY <1>0, <1>2 DEF Unusable, IsCached, Exchanges
        <5> QED BY <1>0, <1>2, <5>1, ReplySound
      <4>2. t > 0 => t >= asked["text"]
        BY <1>0, <1>1, <2>2, <4>1 DEF IInv, CacheSound, NotOutdated, TypeOK, Part, Bodies, Missing, Empty
      <4> QED BY <1>0, <4>1, <4>2 DEF IInv, TypeOK
    <3>2. HeaderFor(t) \in {"visible", "hidden"} /\ faults' \in Nat /\ t \in Nat \cup {Part}
      BY <1>0, <1>1, <2>2 DEF HeaderFor, Faults
    <3> QED BY <1>0, <1>2, <2>1, <2>2, <3>1, <3>2, HandledSound DEF Idle
  <2>3. ASSUME Handled("text", shown["text"], Idle) /\ UNCHANGED header,
               Faults(IF file["text"] = Missing THEN 0 ELSE 1)
        PROVE  IInv'
    <3>1. ~ Unusable(reply) /\ "text" \notin trouble =>
            /\ shown["text"] > 0 => shown["text"] >= asked["text"]
            /\ noted["text"] < asked["text"] => shown["text"] >= asked["text"]
      <4>1. ~ Unusable(reply) =>
              reply.status = "ok" /\ reply.date # Nothing /\ reply.date = date["text"]
        BY <1>0, <1>2 DEF Unusable, IsCached, Exchanges
      <4> QED BY <1>0, <1>2, <4>1, ReplySound
    <3>2. faults' \in Nat
      BY <1>0, <2>3 DEF Faults
    <3> QED BY <1>0, <1>2, <2>1, <2>3, <3>1, <3>2, HandledSound
  <2>4. \/ \E t \in TextOf(file["text"], shown["text"]) :
              /\ file["text"] # Missing
              /\ Handled("text", t, Idle) /\ header' = HeaderFor(t) /\ Faults(0)
        \/ /\ Handled("text", shown["text"], Idle) /\ UNCHANGED header
           /\ Faults(IF file["text"] = Missing THEN 0 ELSE 1)
    BY <1>2 DEF textFromCache
  <2> QED BY <2>2, <2>3, <2>4
<1>3. CASE /\ reply.stage = "headReply" /\ Handled("text", shown["text"], Download) /\ UNCHANGED header
           /\ UNCHANGED <<file, date, faults>>
  <2>1. CacheOK' /\ Download # Idle
    BY <1>0, <1>3 DEF Handled, CacheOK, CacheSound, Download, Request, Idle
  <2>2. "text" \notin trouble => (shown["text"] > 0 => shown["text"] >= asked["text"])
    BY <1>0 DEF IInv, NotOutdated
  <2> QED BY <1>0, <1>3, <2>1, <2>2, HandledSound
<1>4. CASE reply.stage = "getReply" /\ textFromNet
  <2>1. PICK t \in TextOf(reply.body, shown["text"]) :
           /\ Handled("text", t, Idle) /\ header' = HeaderFor(t)
           /\ IF reply.body = Empty THEN UNCHANGED <<file, date, faults>>
              ELSE saveIntoCache("text", reply.body, reply.date)
    BY <1>4 DEF textFromNet
  <2>2. /\ CacheOK' /\ faults' \in Nat
        /\ \A q \in Resource \ {"text"} : date'[q] = date[q]
    <3>1. CASE reply.body = Empty
      BY <1>0, <2>1, <3>1 DEF Handled, CacheOK, CacheSound
    <3>2. CASE saveIntoCache("text", reply.body, reply.date)
      <4>1. CacheOK'
        BY <1>0, <2>1, <3>2, SaveSound DEF Handled, IInv, ExchangeSound
      <4>2. faults' \in Nat /\ \A q \in Resource \ {"text"} : date'[q] = date[q]
        BY <1>0, <3>2 DEF saveIntoCache, Faults, CacheOK
      <4> QED BY <4>1, <4>2
    <3> QED BY <2>1, <3>1, <3>2
  <2>3. ~ Unusable(reply) => t >= asked["text"]
    BY <1>0, <1>1, <1>4, <2>1 DEF Unusable, IInv, ExchangeSound, TypeOK, Bodies, Empty, Part
  <2>4. HeaderFor(t) \in {"visible", "hidden"} /\ t \in Nat \cup {Part}
    BY <1>0, <1>1, <2>1 DEF HeaderFor
  <2> QED BY <1>0, <1>4, <2>1, <2>2, <2>3, <2>4, HandledSound DEF Download, Request, Idle
<1> QED BY <1>2, <1>3, <1>4 DEF on_downloadTextReply

\* The handler of a reply about the picture.
LEMMA PictureSound ==
  ASSUME IInv, on_downloadPictureReply
  PROVE  IInv'
<1> DEFINE reply == net["picture"]
           p == "picture"
<1>0. /\ p \in Resource /\ reply.stage \in {"headReply", "getReply"}
      /\ Idle \in {Idle, Download} /\ Download \in {Idle, Download} /\ Idle # Download
  BY NextExchange DEF Resource, on_downloadPictureReply
<1>1. /\ reply \in Exchanges /\ reply.body \in Bodies /\ reply.date \in Nat
      /\ file[p] \in Bodies \cup {Missing} /\ shown[p] \in Nat \cup {Part}
      /\ date[p] \in Nat /\ asked[p] \in Nat /\ noted[p] = date[p]
      /\ faults \in Nat /\ header \in {"visible", "hidden"} /\ asked[p] > 0 /\ server[p] \in Nat
      /\ reply.status = "ok" => reply.date = Nothing \/ reply.date >= asked[p]
      /\ reply.body > 0 => reply.body >= reply.date /\ reply.body >= asked[p]
      /\ file[p] > 0 /\ date[p] > 0 => file[p] >= date[p]
      /\ shown[p] > 0 /\ p \notin trouble => shown[p] >= asked[p]
      /\ reply.date <= server[p] /\ CacheOK
  BY <1>0, ReplySound
<1>2. CASE pictureFromCache /\ (Unusable(reply) \/ IsCached(p))
  <2>1. PICK image \in Nat \cup {Part} :
           /\ image = (IF file[p] > 0 THEN file[p] ELSE shown[p])
           /\ Handled(p, image, Idle)
    BY <1>1, <1>2, NoVersion DEF pictureFromCache, Bodies
  <2>2. CacheOK' /\ faults' \in Nat /\ UNCHANGED date /\ header' \in {"visible", "hidden"}
    BY <1>1, <1>2, <2>1 DEF pictureFromCache, Handled, CacheOK, CacheSound
  <2>3. ~ Unusable(reply) /\ p \notin trouble =>
          /\ image > 0 => image >= asked[p]
          /\ noted[p] < asked[p] => image >= asked[p]
    <3>1. ~ Unusable(reply) => date[p] >= asked[p]
      BY <1>1, <1>2 DEF Unusable, IsCached, Exchanges
    <3>2. file[p] \in Int /\ shown[p] \in Int
      BY <1>1, BodiesAreIntegers DEF Part
    <3> QED BY <1>1, <2>1, <3>1, <3>2
  <2> QED BY <1>0, <2>1, <2>2, <2>3, HandledSound
<1>3. CASE /\ Handled(p, shown[p], Download) /\ UNCHANGED header
           /\ UNCHANGED <<file, date, faults>>
  <2>1. CacheOK'
    BY <1>1, <1>3 DEF Handled, CacheOK, CacheSound
  <2> QED BY <1>0, <1>1, <1>3, <2>1, HandledSound
<1>4. CASE /\ reply.status = "ok" /\ reply.stage = "getReply" /\ reply.body > 0
           /\ Handled(p, reply.body, Idle) /\ UNCHANGED header
           /\ saveIntoCache(p, reply.body, reply.date)
  <2>1. CacheOK'
    <3>1. reply.body >= reply.date /\ reply.body >= date[p]
      <4>1. date[p] <= asked[p]
        BY <1>0, ReplySound
      <4> QED BY <1>1, <1>4, <4>1, BodiesAreIntegers
    <3>2. UNCHANGED server
      BY <1>4 DEF Handled
    <3> QED BY <1>0, <1>1, <1>4, <3>1, <3>2, SaveSound
  <2>2. faults' \in Nat /\ \A q \in Resource \ {p} : date'[q] = date[q]
    BY <1>1, <1>4 DEF saveIntoCache, Faults, CacheOK
  <2>3. reply.body \in Nat \cup {Part} /\ reply.body >= asked[p]
    BY <1>1, <1>4, NoVersion DEF Bodies
  <2> QED BY <1>0, <1>1, <1>4, <2>1, <2>2, <2>3, HandledSound
<1> QED BY <1>2, <1>3, <1>4 DEF on_downloadPictureReply, Unusable

\* The handler of a reply with the posts.
LEMMA RssSound ==
  ASSUME IInv, on_downloadRssReply
  PROVE  IInv'
<1> DEFINE reply == net["rss"]
           p == "rss"
<1>0. /\ p \in Resource /\ p # "picture" /\ reply.stage = "getReply"
      /\ Idle \in {Idle, Download} /\ Idle # Download
  BY NextExchange DEF Resource, on_downloadRssReply
<1>1. /\ reply \in Exchanges /\ reply.body \in Bodies /\ reply.date \in Nat
      /\ file[p] \in Bodies \cup {Missing} /\ shown[p] \in Nat \cup {Part}
      /\ asked[p] \in Nat /\ server[p] \in Nat
      /\ faults \in Nat /\ header \in {"visible", "hidden"}
      /\ reply.status = "ok" => reply.date = Nothing \/ reply.date >= asked[p]
      /\ reply.body > 0 => reply.body >= reply.date /\ reply.body >= asked[p]
      /\ shown[p] > 0 /\ p \notin trouble => shown[p] >= asked[p]
      /\ CacheOK
  BY <1>0, ReplySound
<1>2. RssFailed => Unusable(reply)
  BY <1>0 DEF RssFailed, Unusable, Empty
<1>3. CASE /\ RssData # Missing /\ UNCHANGED header
           /\ Handled(p, IF RssData = Empty THEN shown[p] ELSE RssData, Idle)
           /\ saveIntoCache(p, RssData, Nothing)
  <2>1. RssData \in Bodies
    BY <1>1, <1>3 DEF RssData
  <2>2. PICK c \in Nat \cup {Part} :
           c = (IF RssData = Empty THEN shown[p] ELSE RssData) /\ Handled(p, c, Idle)
    BY <1>1, <1>3, <2>1 DEF Bodies
  <2>3. CacheOK'
    <3>1. Nothing \in Nat /\ Nothing <= server[p]
      BY <1>1 DEF Nothing
    <3>2. RssData > 0 => RssData >= Nothing
      BY <2>1, BodiesAreIntegers DEF Nothing
    <3> QED BY <1>0, <1>3, <2>1, <2>2, <3>1, <3>2, SaveSound DEF Handled
  <2>4. faults' \in Nat /\ \A q \in Resource \ {p} : date'[q] = date[q]
    BY <1>1, <1>3 DEF saveIntoCache, Faults, CacheOK
  <2>5. ~ Unusable(reply) => c >= asked[p]
    <3>1. ~ Unusable(reply) => c = reply.body /\ reply.body > 0 /\ reply.status = "ok"
      BY <1>0, <1>1, <1>2, <2>2, NoVersion, BodiesAreIntegers DEF Unusable, RssData, Exchanges
    <3> QED BY <1>1, <3>1
  <2> QED BY <1>0, <1>1, <1>3, <2>2, <2>3, <2>4, <2>5, HandledSound
<1>4. CASE /\ RssFailed /\ Handled(p, shown[p], Idle) /\ UNCHANGED header
           /\ Faults(IF file[p] = Missing THEN 0 ELSE 1) /\ UNCHANGED <<file, date>>
  <2>1. CacheOK' /\ faults' \in Nat
    BY <1>1, <1>4 DEF Handled, CacheOK, CacheSound, Faults
  <2> QED BY <1>0, <1>1, <1>2, <1>4, <2>1, HandledSound
<1> QED BY <1>3, <1>4 DEF on_downloadRssReply

-----------------------------------------------------------------------------
(* The steps that handle no reply.                                            *)

\* A new version changes nothing but what the next reply will bring.
LEMMA PublishSound ==
  ASSUME IInv, NEW r \in Resource, Publish(r)
  PROVE  IInv'
<1>1. /\ server \in [Resource -> Nat \ {0}] /\ server' \in [Resource -> Nat \ {0}]
      /\ \A q \in Resource : server[q] <= server'[q]
  BY DEF Publish, IInv, TypeOK
<1>2. TypeOK' /\ NotOutdated' /\ NewsIsShown'
  BY <1>1 DEF Publish, IInv, TypeOK, NotOutdated, NewsIsShown
<1>3. CacheSound'
  BY <1>1 DEF Publish, IInv, TypeOK, CacheSound
<1>4. ExchangeSound'
  <2> SUFFICES ASSUME NEW q \in Resource
               PROVE  asked[q] <= server'[q] /\ net[q].date <= server'[q]
    BY DEF Publish, IInv, ExchangeSound
  <2>1. net[q].date \in Nat /\ asked[q] \in Nat /\ server[q] \in Nat /\ server'[q] \in Nat
    BY <1>1 DEF IInv, TypeOK, Exchanges
  <2> QED BY <1>1, <2>1 DEF IInv, ExchangeSound
<1> QED BY <1>2, <1>3, <1>4 DEF IInv

\* A reply without error carries the date of the newest version, or none.
LEMMA AnswerSound ==
  ASSUME IInv, NEW r \in Resource, Answer(r)
  PROVE  IInv'
<1> DEFINE op == IF net[r].stage = "head" THEN "headReply" ELSE "getReply"
<1>1. PICK a \in Replies(r, op) :
         net' = [net EXCEPT ![r] = a] /\ Faults(IF Unusable(a) THEN 1 ELSE 0)
  BY DEF Answer
<1>2. server[r] \in Nat /\ server[r] > 0 /\ asked[r] \in Nat /\ asked[r] <= server[r]
      /\ net[r].stage # "idle"
  BY DEF IInv, TypeOK, ExchangeSound, Answer
<1>3. /\ a \in Exchanges /\ a.stage = op /\ a.date <= server[r]
      /\ a.status = "ok" => a.date = Nothing \/ a.date = server[r]
      /\ a.body > 0 => a.body = server[r] /\ a.status = "ok" /\ a.stage = "getReply"
  <2>1. PICK b \in (IF op = "headReply" THEN {Empty} ELSE {Empty, Part, server[r]}) :
           \/ \E d \in {Nothing, server[r]} :
                 a = [stage |-> op, status |-> "ok", body |-> b, date |-> d]
           \/ /\ b # server[r]
              /\ \E d \in {Nothing, server[r]} :
                    a = [stage |-> op, status |-> "error", body |-> b, date |-> d]
    BY <1>1 DEF Replies
  <2>2. b \in Bodies /\ (b > 0 => b = server[r] /\ op = "getReply")
    BY <1>2, <2>1, NoVersion DEF Bodies
  <2>3. op \in {"headReply", "getReply"} /\ Nothing \in Nat /\ Nothing <= server[r]
    BY <1>2 DEF Nothing
  <2>4. CASE \E d \in {Nothing, server[r]} :
                a = [stage |-> op, status |-> "ok", body |-> b, date |-> d]
    BY <1>2, <2>2, <2>3, <2>4 DEF Exchanges
  <2>5. CASE /\ b # server[r]
             /\ \E d \in {Nothing, server[r]} :
                   a = [stage |-> op, status |-> "error", body |-> b, date |-> d]
    BY <1>2, <2>2, <2>3, <2>5 DEF Exchanges
  <2> QED BY <2>1, <2>4, <2>5
<1>4. /\ UNCHANGED <<server, file, date, shown, header, tabs, asked, noted, trouble>>
      /\ net'[r] = a /\ \A q \in Resource \ {r} : net'[q] = net[q]
  BY <1>1 DEF Answer, IInv, TypeOK
<1>5. TypeOK'
  BY <1>1, <1>3, <1>4 DEF Faults, IInv, TypeOK
<1>6. CacheSound' /\ NotOutdated' /\ NewsIsShown'
  <2>1. op # "idle"
    OBVIOUS
  <2> QED BY <1>3, <1>4, <2>1 DEF IInv, CacheSound, NotOutdated, NewsIsShown
<1>7. ExchangeSound'
  BY <1>2, <1>3, <1>4 DEF IInv, ExchangeSound
<1> QED BY <1>5, <1>6, <1>7 DEF IInv

\* A new tab shows nothing and has asked for everything.
LEMMA NewTabSound ==
  ASSUME IInv, CacheOK', NewTab, faults' \in Nat
  PROVE  IInv'
<1>1. \A r \in Resource :
         /\ FirstRequests[r] \in Exchanges /\ FirstRequests[r].stage \in {"head", "get"}
         /\ FirstRequests[r].date = 0 /\ FirstRequests[r].body = Empty
  <2> TAKE r \in Resource
  <2>1. FirstRequests[r] = Request("head") \/ FirstRequests[r] = Request("get")
    BY DEF FirstRequests
  <2> QED BY <2>1 DEF Request, Idle, Exchanges, Bodies, Nothing
<1>2. TypeOK'
  <2>1. FirstRequests \in [Resource -> Exchanges]
    BY <1>1 DEF FirstRequests
  <2>2. tabs' \in Nat
    BY DEF NewTab, IInv, TypeOK
  <2> QED BY <2>1, <2>2 DEF NewTab, CacheOK, IInv, TypeOK, Nothing
<1>3. CacheSound'
  BY DEF CacheOK
<1>4. NotOutdated' /\ NewsIsShown'
  BY <1>1 DEF NewTab, NotOutdated, NewsIsShown, Nothing
<1>5. ExchangeSound'
  <2> SUFFICES ASSUME NEW r \in Resource
               PROVE  /\ date'[r] <= server[r] /\ server[r] <= server[r]
                      /\ FirstRequests[r].date <= server[r]
                      /\ ~ (FirstRequests[r].body > 0)
    BY <1>1 DEF NewTab, ExchangeSound
  <2>1. server[r] \in Nat /\ date'[r] <= server[r]
    BY <1>3 DEF NewTab, CacheSound, IInv, TypeOK
  <2> QED BY <1>1, <2>1, NoVersion
<1> QED BY <1>2, <1>3, <1>4, <1>5 DEF IInv

\* A crash in the middle of saveIntoCache leaves a sound cache behind.
LEMMA CrashSound ==
  ASSUME IInv, CrashInSave
  PROVE  IInv'
<1>0. faults' \in Nat /\ UNCHANGED server /\ NewTab
  BY DEF CrashInSave, Faults, NewTab, IInv, TypeOK
<1>1. CASE /\ net["text"].stage = "getReply"
           /\ Interrupted("text", net["text"].body, net["text"].date)
  <2>1. "text" \in Resource /\ "text" # "picture" /\ net["text"].stage \in {"headReply", "getReply"}
    BY <1>1 DEF Resource
  <2>2. /\ net["text"].body \in Bodies /\ net["text"].date \in Nat
        /\ net["text"].date <= server["text"]
        /\ net["text"].body > 0 => net["text"].body >= net["text"].date
    BY <2>1, ReplySound
  <2>3. CacheOK'
    BY <1>0, <1>1, <2>1, <2>2, SaveSound
  <2> QED BY <1>0, <2>3, NewTabSound
<1>2. CASE /\ net["picture"].stage = "getReply" /\ net["picture"].body > 0
           /\ Interrupted("picture", net["picture"].body, net["picture"].date)
  <2>1. "picture" \in Resource /\ net["picture"].stage \in {"headReply", "getReply"}
    BY <1>2 DEF Resource
  <2>2. /\ net["picture"].body \in Bodies /\ net["picture"].date \in Nat
        /\ net["picture"].date <= server["picture"]
        /\ net["picture"].body >= net["picture"].date /\ net["picture"].body >= asked["picture"]
        /\ date["picture"] \in Nat /\ asked["picture"] \in Nat /\ date["picture"] <= asked["picture"]
    BY <1>2, <2>1, ReplySound
  <2>3. net["picture"].body >= net["picture"].date /\ net["picture"].body >= date["picture"]
    BY <2>2, BodiesAreIntegers
  <2>4. CacheOK'
    BY <1>0, <1>2, <2>1, <2>2, <2>3, SaveSound
  <2> QED BY <1>0, <2>4, NewTabSound
<1>3. CASE /\ net["rss"].stage = "getReply" /\ RssData # Missing
           /\ Interrupted("rss", RssData, Nothing)
  <2>1. "rss" \in Resource /\ "rss" # "picture" /\ net["rss"].stage \in {"headReply", "getReply"}
    BY <1>3 DEF Resource
  <2>2. RssData \in Bodies /\ server["rss"] \in Nat
    BY <1>3, <2>1, ReplySound DEF RssData
  <2>3. Nothing \in Nat /\ Nothing <= server["rss"] /\ (RssData > 0 => RssData >= Nothing)
    BY <2>2, BodiesAreIntegers DEF Nothing
  <2>4. CacheOK'
    BY <1>0, <1>3, <2>1, <2>2, <2>3, SaveSound
  <2> QED BY <1>0, <2>4, NewTabSound
<1> QED BY <1>1, <1>2, <1>3 DEF CrashInSave

-----------------------------------------------------------------------------
\* The invariant holds of a program that was never run before.
LEMMA InitSound == Init => IInv
<1> SUFFICES ASSUME Init PROVE IInv
  OBVIOUS
<1>1. \A r \in Resource :
         /\ FirstRequests[r] \in Exchanges /\ FirstRequests[r].stage \in {"head", "get"}
         /\ FirstRequests[r].date = 0 /\ FirstRequests[r].body = Empty
  <2> TAKE r \in Resource
  <2>1. FirstRequests[r] = Request("head") \/ FirstRequests[r] = Request("get")
    BY DEF FirstRequests
  <2> QED BY <2>1 DEF Request, Idle, Exchanges, Bodies, Nothing
<1>2. TypeOK
  <2>1. FirstRequests \in [Resource -> Exchanges]
    BY <1>1 DEF FirstRequests
  <2> QED BY <2>1 DEF Init, TypeOK, Nothing
<1>3. CacheSound /\ NotOutdated /\ NewsIsShown
  BY <1>1, NoVersion DEF Init, CacheSound, NotOutdated, NewsIsShown, Nothing
<1>4. ExchangeSound
  BY <1>1, NoVersion DEF Init, ExchangeSound, Nothing
<1> QED BY <1>2, <1>3, <1>4 DEF IInv

\* Every step preserves the invariant.
LEMMA NextSound == IInv /\ [Next]_vars => IInv'
<1> SUFFICES ASSUME IInv, [Next]_vars PROVE IInv'
  OBVIOUS
<1>1. CASE \E r \in Resource : Publish(r) \/ Answer(r)
  BY <1>1, PublishSound, AnswerSound
<1>2. CASE OnReply
  BY <1>2, TextSound, PictureSound, RssSound, WelcomeTabAssumption DEF OnReply
<1>3. CASE openWelcomeTab
  <2>1. CacheOK' /\ NewTab /\ faults' \in Nat
    BY <1>3 DEF openWelcomeTab, NewTab, IInv, TypeOK, CacheOK, CacheSound
  <2> QED BY <2>1, NewTabSound
<1>4. CASE CrashInSave
  BY <1>4, CrashSound
<1>5. CASE UNCHANGED vars
  BY <1>5 DEF vars, IInv, TypeOK, CacheSound, ExchangeSound, NotOutdated, NewsIsShown
<1> QED BY <1>1, <1>2, <1>3, <1>4, <1>5 DEF Next

\* The inductive invariant holds in every state.
THEOREM Invariance == Spec => []IInv
  BY InitSound, NextSound, PTL DEF Spec

\* What the handlers of the replies leave behind has the right types.
THEOREM TypeCorrect == Spec => []TypeOK
<1>1. IInv => TypeOK
  BY DEF IInv
<1> QED BY <1>1, Invariance, PTL

\* No file is passed off as newer than it is, whatever failed in saveIntoCache.
THEOREM NeverOutdated == Spec => []NotOutdated
<1>1. IInv => NotOutdated
  BY DEF IInv
<1> QED BY <1>1, Invariance, PTL

\* A version newer than the recorded date reaches the user.
THEOREM NewsReachesUser == Spec => []NewsIsShown
<1>1. IInv => NewsIsShown
  BY DEF IInv
<1> QED BY <1>1, Invariance, PTL

\* No step separates the header from what it stands over.
LEMMA HeaderSound == IInv /\ HeaderOverText /\ [Next]_vars => HeaderOverText'
<1> SUFFICES ASSUME IInv, HeaderOverText, [Next]_vars PROVE HeaderOverText'
  OBVIOUS
<1>0. /\ shown \in [Resource -> Nat \cup {Part}] /\ "text" \in Resource /\ "picture" \in Resource
      /\ Part # Nothing /\ Empty # Nothing /\ net["text"].body \in Bodies
      /\ file["text"] \in Bodies \cup {Missing} /\ net["picture"].body \in Bodies
  BY DEF IInv, TypeOK, Resource, Exchanges, Part, Empty, Nothing
<1>1. ASSUME NEW t, NEW next, Handled("text", t, next),
             \/ header' = HeaderFor(t)
             \/ header' = header /\ t = shown["text"]
      PROVE  HeaderOverText'
  BY <1>0, <1>1 DEF Handled, HeaderFor, HeaderOverText
<1>2. CASE on_downloadTextReply
  BY <1>1, <1>2 DEF on_downloadTextReply, textFromCache, textFromNet
<1>3. CASE on_downloadPictureReply
  <2>1. ASSUME NEW c, NEW next, Handled("picture", c, next), c # Nothing \/ c = shown["picture"],
               header' = header \/ (header' = "visible" /\ c # Nothing)
        PROVE  HeaderOverText'
    BY <1>0, <2>1 DEF Handled, HeaderOverText
  <2>2. CASE pictureFromCache
    BY <1>0, <2>1, <2>2 DEF pictureFromCache, Nothing
  <2>3. CASE Handled("picture", shown["picture"], Download) /\ UNCHANGED header
    BY <2>1, <2>3
  <2>4. CASE /\ Handled("picture", net["picture"].body, Idle) /\ UNCHANGED header
             /\ net["picture"].body > 0
    BY <2>1, <2>4 DEF Nothing
  <2> QED BY <1>3, <2>2, <2>3, <2>4 DEF on_downloadPictureReply
<1>4. CASE on_downloadRssReply
  <2>1. ASSUME NEW c, Handled("rss", c, Idle), UNCHANGED header
        PROVE  HeaderOverText'
    BY <1>0, <2>1 DEF Handled, HeaderOverText, Resource
  <2> QED BY <1>4, <2>1 DEF on_downloadRssReply
<1>5. CASE NewTab
  BY <1>0, <1>5 DEF NewTab, HeaderOverText
<1>6. CASE UNCHANGED <<shown, header>>
  BY <1>6 DEF HeaderOverText
<1> QED
  BY <1>2, <1>3, <1>4, <1>5, <1>6
  DEF Next, OnReply, openWelcomeTab, CrashInSave, Publish, Answer, vars

\* The header stands over something, and the text never without it.
THEOREM HeaderRight == Spec => []HeaderOverText
<1>1. Init => HeaderOverText
  BY DEF Init, HeaderOverText, Resource
<1> QED BY <1>1, HeaderSound, Invariance, PTL DEF Spec

-----------------------------------------------------------------------------
(* The indexes of a collection.                                               *)

NamesOf(infos) == {i.name : i \in infos}

\* A list of indexes: every one has a name, and no two the same.
IndexLists ==
  {infos \in SUBSET Infos :
     NamesOf(infos) \subseteq Name /\ \A i, j \in infos : i.name = j.name => i = j}

Requests ==
  [type : {"load"}, sender : Nat]
  \cup [type : {"drop"}, sender : Nat, name : Name \cup {""}]
  \cup [type : {"ensure"}, sender : Nat, old : Infos, new : Infos, entered : SUBSET Option]

Responses ==
  [type : {"list"}, receiver : Nat, error : {FALSE}, infos : IndexLists]
  \cup [type : {"list"}, receiver : Nat, error : {TRUE}, infos : {{}}]
  \cup [type : {"deleted"}, receiver : Nat, error : BOOLEAN, name : Name \cup {NULL}]

\* Of the lists among the responses rs the k-th response is the last; for 0 there is none.
LastList(rs, k) ==
  /\ k = 0 \/ rs[k].type = "list"
  /\ \A j \in k + 1 .. Len(rs) : rs[j].type = "deleted"

\* The names of the items its, or of the list that will replace them.
NamesFrom(its, rs, k) == NamesOf(IF k = 0 THEN its ELSE rs[k].infos)

\* The names of the indexes that the responses behind the k-th tell to be gone, or do
\* not tell; those in gone were not told before.
DroppedAfter(gone, rs, k) ==
  (IF k = 0 THEN gone ELSE {}) \cup {rs[j].name : j \in k + 1 .. Len(rs)}

\* What the items its will show when the responses rs have come: nothing, or the names
\* of the indexes f and of those that were not told to be gone.
WillShow(its, gone, rs, f) ==
  \A k \in 0 .. Len(rs) :
     LastList(rs, k) =>
       NamesFrom(its, rs, k) = {} \/ NamesFrom(its, rs, k) \ DroppedAfter(gone, rs, k) = DOMAIN f

\* A request or a response of an item that was replaced is under way: its delivery is
\* the use of a deleted item.
ForReplaced ==
  \/ \E k \in 1 .. Len(requests) : requests[k].sender # item
  \/ \E k \in 1 .. Len(responses) : responses[k].receiver # item

\* The types, of what is under way too.
IndexTyped ==
  /\ IndexTypeOK
  /\ item \in Nat \ {0} /\ items \in IndexLists
  /\ requests \in Seq(Requests) /\ \A k \in 1 .. Len(requests) : requests[k].sender <= item
  /\ responses \in Seq(Responses) /\ \A k \in 1 .. Len(responses) : responses[k].receiver <= item

\* The inductive invariant. FreshAtRest says nothing of the states in which an answer is
\* under way: in those the items lead, by the answers to come, to the indexes there are.
IndexInv == IndexTyped /\ (crashed \/ ForReplaced \/ WillShow(items, missed, responses, indexes))

-----------------------------------------------------------------------------
(* What a response does to what will be shown.                                *)

\* A list, of the indexes or of none, decides alone.
LEMMA ListDecides ==
  ASSUME NEW its, NEW gone, NEW f, NEW rs \in Seq(Responses), NEW r \in Responses,
         r.type = "list", NamesOf(r.infos) = {} \/ NamesOf(r.infos) = DOMAIN f
  PROVE  WillShow(its, gone, Append(rs, r), f)
<1> DEFINE n == Len(rs)
<1>1. n \in Nat /\ Len(Append(rs, r)) = n + 1 /\ Append(rs, r)[n + 1] = r
  BY AppendProperties
<1> SUFFICES ASSUME NEW k \in 0 .. n + 1, LastList(Append(rs, r), k)
             PROVE  \/ NamesFrom(its, Append(rs, r), k) = {}
                    \/ NamesFrom(its, Append(rs, r), k) \ DroppedAfter(gone, Append(rs, r), k) = DOMAIN f
  BY <1>1 DEF WillShow
<1>2. k = n + 1
  <2> SUFFICES ASSUME k < n + 1 PROVE FALSE
    BY <1>1
  <2>1. n + 1 \in k + 1 .. n + 1
    BY <1>1
  <2> QED BY <1>1, <2>1 DEF LastList
<1>3. k # 0 /\ k + 1 .. n + 1 = {}
  BY <1>1, <1>2
<1>4. DroppedAfter(gone, Append(rs, r), k) = {}
  BY <1>1, <1>3, Zenon DEF DroppedAfter
<1>5. NamesFrom(its, Append(rs, r), k) = NamesOf(r.infos)
  BY <1>1, <1>2, <1>3 DEF NamesFrom
<1> QED BY <1>4, <1>5

\* The answer to a drop takes its name away, from the indexes and from what will be shown.
LEMMA DropFollows ==
  ASSUME NEW its, NEW gone, NEW f, NEW g, NEW rs \in Seq(Responses), NEW r \in Responses,
         r.type = "deleted", WillShow(its, gone, rs, f), DOMAIN g = DOMAIN f \ {r.name}
  PROVE  WillShow(its, gone, Append(rs, r), g)
<1> DEFINE n == Len(rs)
           new == Append(rs, r)
<1>1. n \in Nat /\ Len(new) = n + 1 /\ new[n + 1] = r /\ \A j \in 1 .. n : new[j] = rs[j]
  BY AppendProperties
<1> HIDE DEF new
<1> SUFFICES ASSUME NEW k \in 0 .. n + 1, LastList(new, k)
             PROVE  NamesFrom(its, new, k) = {} \/ NamesFrom(its, new, k) \ DroppedAfter(gone, new, k) = DOMAIN g
  BY <1>1 DEF WillShow, new
<1>2. k \in 0 .. n
  <2>1. k # n + 1
    BY <1>1 DEF LastList
  <2> QED BY <1>1, <2>1
<1>3. LastList(rs, k)
  <2>1. k = 0 \/ rs[k].type = "list"
    BY <1>1, <1>2 DEF LastList
  <2>2. ASSUME NEW j \in k + 1 .. n PROVE rs[j].type = "deleted"
    <3>1. j \in k + 1 .. n + 1 /\ j \in 1 .. n
      BY <1>1, <1>2
    <3> QED BY <1>1, <3>1 DEF LastList
  <2> QED BY <2>1, <2>2 DEF LastList
<1>4. NamesFrom(its, new, k) = NamesFrom(its, rs, k)
  BY <1>1, <1>2 DEF NamesFrom
<1>5. DroppedAfter(gone, new, k) = DroppedAfter(gone, rs, k) \cup {r.name}
  <2>1. \A j : j \in k + 1 .. n + 1 <=> j \in k + 1 .. n \/ j = n + 1
    BY <1>1, <1>2
  <2>2. \A j \in k + 1 .. n : new[j] = rs[j]
    BY <1>1, <1>2
  <2> QED BY <1>1, <2>1, <2>2, ZenonT(30) DEF DroppedAfter
<1>6. NamesFrom(its, rs, k) = {} \/ NamesFrom(its, rs, k) \ DroppedAfter(gone, rs, k) = DOMAIN f
  BY <1>1, <1>2, <1>3 DEF WillShow
<1> QED BY <1>4, <1>5, <1>6

\* The responses behind the k-th of those that are left are those behind the next one.
LEMMA BehindHead ==
  ASSUME NEW rs \in Seq(Responses), rs # << >>, NEW k \in 0 .. Len(Tail(rs))
  PROVE  /\ (\A j \in k + 1 .. Len(Tail(rs)) : Tail(rs)[j].type = "deleted")
              => \A j \in k + 2 .. Len(rs) : rs[j].type = "deleted"
         /\ \A gone : DroppedAfter(gone, Tail(rs), k)
                        = (IF k = 0 THEN gone ELSE {}) \cup DroppedAfter({}, rs, k + 1)
<1> DEFINE n == Len(Tail(rs))
           t == Tail(rs)
           behind == {t[j].name : j \in k + 1 .. n}
           before == {rs[j].name : j \in k + 2 .. Len(rs)}
<1>1. n \in Nat /\ Len(rs) = n + 1 /\ \A j \in 1 .. n : t[j] = rs[j + 1]
  BY HeadTailProperties
<1>2. ASSUME NEW j \in k + 2 .. Len(rs) PROVE j - 1 \in k + 1 .. n /\ rs[j] = t[j - 1]
  BY <1>1
<1>3. ASSUME NEW j \in k + 1 .. n PROVE j + 1 \in k + 2 .. Len(rs) /\ rs[j + 1] = t[j]
  BY <1>1
<1>4. (k + 1) + 1 = k + 2 /\ k + 1 # 0
  BY <1>1
<1>5. \A x : x \in behind => x \in before
  BY <1>3, ZenonT(30)
<1>6. \A x : x \in before => x \in behind
  BY <1>2, ZenonT(30)
<1>7. behind = before
  BY <1>5, <1>6
<1>8. DroppedAfter({}, rs, k + 1) = before
  BY <1>4 DEF DroppedAfter
<1>9. \A gone : DroppedAfter(gone, t, k) = (IF k = 0 THEN gone ELSE {}) \cup behind
  BY DEF DroppedAfter
<1> HIDE DEF behind, before
<1>10. \A gone : DroppedAfter(gone, t, k) = (IF k = 0 THEN gone ELSE {}) \cup DroppedAfter({}, rs, k + 1)
  BY <1>7, <1>8, <1>9
<1> QED BY <1>2, <1>10, Zenon

\* Behind a list, or any response but the first, what was not told before is the same.
LEMMA AfterFirst ==
  ASSUME NEW rs, NEW gone, NEW k \in Nat
  PROVE  DroppedAfter(gone, rs, k + 1) = DroppedAfter({}, rs, k + 1)
<1>1. k + 1 # 0
  OBVIOUS
<1> QED BY <1>1 DEF DroppedAfter

\* A list that comes replaces the items.
LEMMA ListComes ==
  ASSUME NEW its, NEW gone, NEW f, NEW rs \in Seq(Responses), rs # << >>,
         Head(rs).type = "list", WillShow(its, gone, rs, f)
  PROVE  WillShow(Head(rs).infos, {}, Tail(rs), f)
<1> DEFINE n == Len(Tail(rs))
<1>1. n \in Nat /\ Len(rs) = n + 1 /\ rs[1] = Head(rs) /\ \A j \in 1 .. n : Tail(rs)[j] = rs[j + 1]
  BY HeadTailProperties
<1> SUFFICES ASSUME NEW k \in 0 .. n, LastList(Tail(rs), k)
             PROVE  \/ NamesFrom(Head(rs).infos, Tail(rs), k) = {}
                    \/ NamesFrom(Head(rs).infos, Tail(rs), k) \ DroppedAfter({}, Tail(rs), k) = DOMAIN f
  BY DEF WillShow
<1>2. LastList(rs, k + 1)
  <2>1. k + 1 # 0 /\ (k + 1) + 1 = k + 2
    BY <1>1
  <2>2. rs[k + 1].type = "list"
    BY <1>1 DEF LastList
  <2>3. \A j \in k + 2 .. Len(rs) : rs[j].type = "deleted"
    BY BehindHead, Zenon DEF LastList
  <2> QED BY <2>1, <2>2, <2>3, Zenon DEF LastList
<1>3. NamesFrom(Head(rs).infos, Tail(rs), k) = NamesFrom(its, rs, k + 1)
  BY <1>1 DEF NamesFrom
<1>4. DroppedAfter({}, Tail(rs), k) = DroppedAfter(gone, rs, k + 1)
  <2>1. DroppedAfter({}, Tail(rs), k) = DroppedAfter({}, rs, k + 1)
    BY BehindHead
  <2> QED BY <1>1, <2>1, AfterFirst
<1>5. k + 1 \in 0 .. Len(rs)
  BY <1>1
<1> QED BY <1>2, <1>3, <1>4, <1>5, Zenon DEF WillShow

\* The answer to a drop takes its name from the items; when it is an error, the index is
\* not told to be gone.
LEMMA DropComes ==
  ASSUME NEW its, NULL \notin NamesOf(its), NEW new, NEW gone, NEW still, NEW f,
         NEW rs \in Seq(Responses), rs # << >>,
         Head(rs).type = "deleted", WillShow(its, gone, rs, f),
         \/ NamesOf(new) = NamesOf(its) \ {Head(rs).name} /\ still = gone
         \/ NamesOf(new) = NamesOf(its) /\ still = gone \cup ({Head(rs).name} \ {NULL})
  PROVE  WillShow(new, still, Tail(rs), f)
<1> DEFINE n == Len(Tail(rs))
<1>1. n \in Nat /\ Len(rs) = n + 1 /\ rs[1] = Head(rs) /\ \A j \in 1 .. n : Tail(rs)[j] = rs[j + 1]
  BY HeadTailProperties
<1> SUFFICES ASSUME NEW k \in 0 .. n, LastList(Tail(rs), k)
             PROVE  \/ NamesFrom(new, Tail(rs), k) = {}
                    \/ NamesFrom(new, Tail(rs), k) \ DroppedAfter(still, Tail(rs), k) = DOMAIN f
  BY DEF WillShow
<1>2. /\ \A j \in k + 2 .. Len(rs) : rs[j].type = "deleted"
      /\ DroppedAfter(still, Tail(rs), k) = (IF k = 0 THEN still ELSE {}) \cup DroppedAfter({}, rs, k + 1)
  BY BehindHead DEF LastList
<1>3. CASE k = 0
  <2>1. \A j \in 1 .. Len(rs) : j = 1 \/ j \in 2 .. Len(rs)
    BY <1>1
  <2>2. LastList(rs, 0)
    BY <1>1, <1>2, <1>3, <2>1 DEF LastList
  <2>3. DroppedAfter(gone, rs, 0) = gone \cup DroppedAfter({}, rs, 1) \cup {Head(rs).name}
    <3>1. \A j : j \in 0 + 1 .. Len(rs) <=> j = 1 \/ j \in 1 + 1 .. Len(rs)
      BY <1>1
    <3>2. {rs[j].name : j \in 0 + 1 .. Len(rs)} = {rs[j].name : j \in 1 + 1 .. Len(rs)} \cup {Head(rs).name}
      BY <1>1, <3>1, ZenonT(30)
    <3>3. DroppedAfter({}, rs, 1) = {rs[j].name : j \in 1 + 1 .. Len(rs)}
      BY DEF DroppedAfter
    <3>4. DroppedAfter(gone, rs, 0) = gone \cup {rs[j].name : j \in 0 + 1 .. Len(rs)}
      BY DEF DroppedAfter
    <3> QED BY <3>2, <3>3, <3>4, Zenon
  <2>4. NamesOf(its) = {} \/ NamesOf(its) \ DroppedAfter(gone, rs, 0) = DOMAIN f
    <3>1. 0 \in 0 .. Len(rs)
      BY <1>1
    <3> QED BY <2>2, <3>1, Zenon DEF WillShow, NamesFrom
  <2>5. NamesFrom(new, Tail(rs), k) = NamesOf(new)
    BY <1>3 DEF NamesFrom
  <2>6. DroppedAfter(still, Tail(rs), k) = still \cup DroppedAfter({}, rs, 1)
    BY <1>2, <1>3
  <2> QED BY <2>3, <2>4, <2>5, <2>6
<1>4. CASE k # 0
  <2>1. LastList(rs, k + 1)
    BY <1>1, <1>2, <1>4 DEF LastList
  <2>2. NamesFrom(new, Tail(rs), k) = NamesFrom(its, rs, k + 1)
    BY <1>1, <1>4 DEF NamesFrom
  <2>3. k + 1 \in 0 .. Len(rs) /\ k \in Nat
    BY <1>1
  <2>4. DroppedAfter(still, Tail(rs), k) = DroppedAfter(gone, rs, k + 1)
    BY <1>2, <1>4, <2>3, AfterFirst
  <2> QED BY <2>1, <2>2, <2>3, <2>4, Zenon DEF WillShow
<1> QED BY <1>3, <1>4

-----------------------------------------------------------------------------
(* Lists of indexes.                                                          *)

\* No list is longer than there are names.
LEMMA ListsAreShort ==
  ASSUME NEW its \in IndexLists
  PROVE  Cardinality(its) \in 0 .. Cardinality(Name)
<1> DEFINE f == [i \in its |-> i.name]
<1>1. IsFiniteSet(Name)
  BY IndexesAssumption
<1>2. \A i \in its : i.name \in Name
  BY DEF IndexLists, NamesOf
<1>3. \A i, j \in its : i.name = j.name => i = j
  BY DEF IndexLists
<1>4. f \in [its -> Name]
  BY <1>2
<1>5. \A i, j \in its : f[i] = f[j] => i = j
  BY <1>3
<1>6. f \in Injection(its, Name)
  BY <1>4, <1>5, Zenon DEF Injection, IsInjective
<1>7. IsFiniteSet(its) /\ Cardinality(its) <= Cardinality(Name)
  BY <1>1, <1>6, FS_Injection, Zenon
<1>8. Cardinality(its) \in Nat /\ Cardinality(Name) \in Nat
  BY <1>1, <1>7, FS_CardinalityType
<1> QED BY <1>7, <1>8

\* What the server answers about the indexes f.
LEMMA AnswerLists ==
  ASSUME NEW f, DOMAIN f \subseteq Name, \A n \in DOMAIN f : f[n] \subseteq Option
  PROVE  AsInfos(f) \in IndexLists /\ NamesOf(AsInfos(f)) = DOMAIN f
<1>1. \A n \in DOMAIN f : [name |-> n, options |-> f[n]] \in Infos
  BY DEF Infos
<1>2. AsInfos(f) \subseteq Infos
  BY <1>1, Zenon DEF AsInfos
<1>3. NamesOf(AsInfos(f)) = DOMAIN f
  <2>1. ASSUME NEW n \in DOMAIN f PROVE n \in NamesOf(AsInfos(f))
    <3>1. [name |-> n, options |-> f[n]] \in AsInfos(f)
      BY Zenon DEF AsInfos
    <3> QED BY <3>1 DEF NamesOf
  <2>2. ASSUME NEW n \in NamesOf(AsInfos(f)) PROVE n \in DOMAIN f
    BY DEF NamesOf, AsInfos
  <2> QED BY <2>1, <2>2
<1>4. \A i, j \in AsInfos(f) : i.name = j.name => i = j
  BY DEF AsInfos
<1> QED BY <1>2, <1>3, <1>4 DEF IndexLists

\* Lists without some of their entries are lists.
LEMMA PartsAreLists ==
  ASSUME NEW its \in IndexLists, NEW new \in SUBSET its
  PROVE  new \in IndexLists
  BY DEF IndexLists, NamesOf

LEMMA NoneIsList == {} \in IndexLists /\ NamesOf({}) = {}
  BY DEF IndexLists, NamesOf

\* An insert keeps the types of the indexes.
LEMMA InsertedTyped ==
  ASSUME NEW f, DOMAIN f \subseteq Name, \A n \in DOMAIN f : f[n] \subseteq Option,
         NEW info, info.name \in Name, info.options \subseteq Option, NEW g \in Inserted(f, info)
  PROVE  DOMAIN g \subseteq Name /\ \A n \in DOMAIN g : g[n] \subseteq Option
<1> DEFINE all == AsInfos(f) \cup {info}
<1>1. CASE g = f
  BY <1>1
<1>2. CASE g = AsFunction(all)
  <2>1. \A i \in all : i.name \in Name /\ i.options \subseteq Option
    BY DEF AsInfos
  <2> HIDE DEF all
  <2>2. DOMAIN g = {i.name : i \in all}
    BY <1>2 DEF AsFunction
  <2>3. ASSUME NEW n \in DOMAIN g PROVE g[n] \subseteq Option
    <3>1. g[n] = (CHOOSE i \in all : i.name = n).options
      BY <1>2, <2>2 DEF AsFunction
    <3>2. \E i \in all : i.name = n
      BY <2>2
    <3>3. (CHOOSE i \in all : i.name = n) \in all
      BY <3>2, Zenon
    <3> QED BY <2>1, <3>1, <3>3, Zenon
  <2> QED BY <2>1, <2>2, <2>3
<1> QED BY <1>1, <1>2 DEF Inserted

-----------------------------------------------------------------------------
(* Asking, answering and delivering.                                          *)

\* The item asks the worker for something.
LEMMA AskedSound ==
  ASSUME IndexInv, IndexTypeOK', NEW q \in Requests, q.sender = item,
         requests' = Append(requests, q), UNCHANGED <<indexes, item, items, missed, responses>>, crashed => crashed'
  PROVE  IndexInv'
<1> DEFINE n == Len(requests)
<1>1. requests \in Seq(Requests) /\ item \in Nat
  BY DEF IndexInv, IndexTyped
<1>2. n \in Nat /\ Len(requests') = n + 1 /\ requests' \in Seq(Requests)
  BY <1>1, AppendProperties
<1>3. requests'[n + 1] = q /\ \A k \in 1 .. n : requests'[k] = requests[k]
  BY <1>1, AppendProperties
<1>4. \A k \in 1 .. n + 1 : k \in 1 .. n \/ k = n + 1
  BY <1>2
<1>5. \A k \in 1 .. n + 1 : requests'[k].sender <= item'
  <2>1. \A k \in 1 .. n : requests[k].sender <= item
    BY DEF IndexInv, IndexTyped
  <2>2. item <= item
    BY <1>1
  <2> QED BY <1>3, <1>4, <2>1, <2>2
<1>6. IndexTyped'
  BY <1>2, <1>5 DEF IndexInv, IndexTyped
<1>7. ForReplaced => ForReplaced'
  <2>1. \A k \in 1 .. n : k \in 1 .. n + 1
    BY <1>2
  <2> QED BY <1>2, <1>3, <2>1 DEF ForReplaced
<1> QED BY <1>6, <1>7 DEF IndexInv

\* The worker answers the first request.
LEMMA RepliedSound ==
  ASSUME IndexInv, IndexTypeOK', requests # << >>, NEW r \in Responses, r.receiver = Head(requests).sender,
         requests' = Tail(requests), responses' = Append(responses, r), UNCHANGED <<item, items, missed, crashed>>,
         WillShow(items, missed, responses, indexes) => WillShow(items', missed', responses', indexes')
  PROVE  IndexInv'
<1> DEFINE n == Len(requests')
           m == Len(responses)
<1>1. requests \in Seq(Requests) /\ responses \in Seq(Responses) /\ item \in Nat
  BY DEF IndexInv, IndexTyped
<1>2. /\ n \in Nat /\ Len(requests) = n + 1 /\ requests' \in Seq(Requests)
      /\ requests[1] = Head(requests) /\ \A k \in 1 .. n : requests'[k] = requests[k + 1]
  BY <1>1, HeadTailProperties
<1>3. m \in Nat /\ Len(responses') = m + 1 /\ responses' \in Seq(Responses)
  BY <1>1, AppendProperties
<1>4. responses'[m + 1] = r /\ \A k \in 1 .. m : responses'[k] = responses[k]
  BY <1>1, AppendProperties
<1>5. \A k \in 1 .. m + 1 : k \in 1 .. m \/ k = m + 1
  BY <1>3
<1>6. \A k \in 1 .. n + 1 : k = 1 \/ (k - 1 \in 1 .. n /\ (k - 1) + 1 = k)
  BY <1>2
<1>7. IndexTyped'
  <2>1. \A k \in 1 .. n + 1 : requests[k].sender <= item
    BY <1>2 DEF IndexInv, IndexTyped
  <2>2. \A k \in 1 .. n : requests'[k].sender <= item
    BY <1>2, <2>1
  <2>3. Head(requests).sender <= item
    BY <1>2, <2>1
  <2>4. \A k \in 1 .. m : responses[k].receiver <= item
    BY DEF IndexInv, IndexTyped
  <2>5. \A k \in 1 .. m + 1 : responses'[k].receiver <= item
    BY <1>4, <1>5, <2>3, <2>4
  <2> QED BY <1>2, <1>3, <2>2, <2>5 DEF IndexInv, IndexTyped
<1>8. ForReplaced => ForReplaced'
  <2>1. CASE \E k \in 1 .. n + 1 : requests[k].sender # item
    <3>1. PICK k \in 1 .. n + 1 : requests[k].sender # item
      BY <2>1
    <3>2. CASE k = 1
      BY <1>2, <1>3, <1>4, <3>1, <3>2 DEF ForReplaced
    <3>3. CASE k - 1 \in 1 .. n /\ (k - 1) + 1 = k
      BY <1>2, <3>1, <3>3 DEF ForReplaced
    <3> QED BY <1>6, <3>2, <3>3
  <2>2. CASE \E k \in 1 .. m : responses[k].receiver # item
    <3>1. \A k \in 1 .. m : k \in 1 .. m + 1
      BY <1>3
    <3> QED BY <1>3, <1>4, <2>2, <3>1 DEF ForReplaced
  <2> QED BY <1>2, <2>1, <2>2 DEF ForReplaced
<1> QED BY <1>7, <1>8 DEF IndexInv

\* A response of the item is delivered.
LEMMA DeliveredSound ==
  ASSUME IndexInv, IndexTypeOK', responses # << >>, Head(responses).receiver = item,
         responses' = Tail(responses), items' \in IndexLists, UNCHANGED <<indexes, item, requests, crashed>>,
         WillShow(items, missed, responses, indexes) => WillShow(items', missed', responses', indexes')
  PROVE  IndexInv'
<1> DEFINE m == Len(responses')
<1>1. responses \in Seq(Responses) /\ item \in Nat
  BY DEF IndexInv, IndexTyped
<1>2. /\ m \in Nat /\ Len(responses) = m + 1 /\ responses' \in Seq(Responses)
      /\ responses[1] = Head(responses) /\ \A k \in 1 .. m : responses'[k] = responses[k + 1]
  BY <1>1, HeadTailProperties
<1>3. \A k \in 1 .. m + 1 : k = 1 \/ (k - 1 \in 1 .. m /\ (k - 1) + 1 = k)
  BY <1>2
<1>4. IndexTyped'
  <2>1. \A k \in 1 .. m + 1 : responses[k].receiver <= item
    BY <1>2 DEF IndexInv, IndexTyped
  <2>2. \A k \in 1 .. m : responses'[k].receiver <= item
    BY <1>2, <2>1
  <2> QED BY <1>2, <2>2 DEF IndexInv, IndexTyped
<1>5. ForReplaced => ForReplaced'
  <2>1. ASSUME NEW k \in 1 .. m + 1, responses[k].receiver # item PROVE ForReplaced'
    <3>1. k - 1 \in 1 .. m /\ (k - 1) + 1 = k
      BY <1>2, <1>3, <2>1
    <3> QED BY <1>2, <2>1, <3>1 DEF ForReplaced
  <2> QED BY <1>2, <2>1 DEF ForReplaced
<1> QED BY <1>4, <1>5 DEF IndexInv

-----------------------------------------------------------------------------
(* The steps.                                                                 *)

\* The types of the dialog.
DialogOK == dialog # NULL => dialog.kind \in {"add", "edit", "drop"} /\ dialog.old \in Infos

\* Every entry of a list names an index.
LEMMA EntriesTyped == ASSUME IndexInv, NEW i \in items PROVE i \in Infos
  BY DEF IndexInv, IndexTyped, IndexLists

\* A dialog that is opened, or closed without an answer.
LEMMA DialogSound ==
  ASSUME IndexInv, ui_addIndexGui \/ ui_edit \/ ui_dropIndex \/ Cancel
  PROVE  IndexInv'
<1>1. UNCHANGED <<indexes, item, items, label, requests, responses, missed, crashed>>
  BY DEF ui_addIndexGui, ui_edit, ui_dropIndex, Cancel, Open
<1>2. DialogOK'
  <2>1. CASE ui_addIndexGui
    <3>1. Unnamed \in Infos
      BY DEF Unnamed, Infos
    <3> QED BY <2>1, <3>1 DEF ui_addIndexGui, Open, DialogOK
  <2>2. CASE ui_edit
    BY <2>2, EntriesTyped DEF ui_edit, Open, DialogOK
  <2>3. CASE ui_dropIndex
    BY <2>3, EntriesTyped DEF ui_dropIndex, Open, DialogOK
  <2>4. CASE Cancel
    BY <2>4 DEF Cancel, DialogOK
  <2> QED BY <2>1, <2>2, <2>3, <2>4
<1>3. IndexTypeOK'
  BY <1>1, <1>2 DEF IndexInv, IndexTyped, IndexTypeOK, DialogOK
<1>4. IndexTyped'
  BY <1>1, <1>3 DEF IndexInv, IndexTyped
<1>5. ForReplaced' = ForReplaced
  BY <1>1 DEF ForReplaced
<1> QED BY <1>1, <1>4, <1>5 DEF IndexInv

LEMMA ExpandSound == ASSUME IndexInv, expand PROVE IndexInv'
<1>1. /\ requests' = Append(requests, LoadIndexesRequest) /\ label' = Loading
      /\ UNCHANGED <<indexes, item, items, missed, responses, crashed, dialog>>
  BY DEF expand
<1>2. LoadIndexesRequest \in Requests /\ LoadIndexesRequest.sender = item
  BY DEF IndexInv, IndexTyped, LoadIndexesRequest, Requests
<1>3. IndexTypeOK'
  BY <1>1 DEF IndexInv, IndexTyped, IndexTypeOK
<1> QED BY <1>1, <1>2, <1>3, AskedSound

\* What a dialog has sent is typed, the entered options mixed with the old ones too.
LEMMA SentTyped ==
  ASSUME IndexInv, dialog # NULL, NEW entered \in Infos
  PROVE  /\ DropIndexRequest(dialog.old.name) \in Requests
         /\ DropIndexRequest(dialog.old.name).sender = item
         /\ EnsureIndexRequest(dialog.old, entered) \in Requests
         /\ EnsureIndexRequest(dialog.old, entered).sender = item
<1>1. item \in Nat /\ dialog.old \in Infos
  BY DEF IndexInv, IndexTyped, IndexTypeOK
<1>2. dialog.old.name \in Name \cup {""} /\ dialog.old.options \subseteq Option
  BY <1>1 DEF Infos
<1>3. entered.options \subseteq Option
  BY DEF Infos
<1>4. Info(dialog.old, entered) \in Infos
  BY <1>2, <1>3 DEF Info, Infos
<1> QED BY <1>1, <1>2, <1>3, <1>4 DEF DropIndexRequest, EnsureIndexRequest, Requests

LEMMA AcceptSound == ASSUME IndexInv, NEW entered \in Infos, Accept(entered) PROVE IndexInv'
<1>1. /\ dialog # NULL /\ ~ crashed /\ dialog' = NULL
      /\ UNCHANGED <<indexes, item, items, missed, label, responses>>
  BY DEF Accept
<1>2. IndexTypeOK'
  BY <1>1 DEF IndexInv, IndexTyped, IndexTypeOK
<1>3. CASE crashed'
  <2>1. requests' = requests
    BY <1>3 DEF Accept
  <2>2. IndexTyped'
    BY <1>1, <1>2, <2>1 DEF IndexInv, IndexTyped
  <2> QED BY <1>3, <2>2 DEF IndexInv
<1>4. CASE ~ crashed'
  <2>1. ~ dialog.dangling /\ crashed' = dialog.dangling
    BY <1>4, Zenon DEF Accept
  <2>2. PICK q \in Requests : q.sender = item /\ requests' = Append(requests, q)
    BY <1>1, <2>1, SentTyped, Zenon DEF Accept
  <2> QED BY <1>1, <1>2, <2>2, AskedSound
<1> QED BY <1>3, <1>4

\* New items for the collections: whatever is under way is now for an item that was
\* replaced, and the new one shows nothing.
LEMMA ReloadSound == ASSUME IndexInv, Reload PROVE IndexInv'
<1>1. /\ item' = item + 1 /\ items' = {} /\ missed' = {} /\ label' = Plain
      /\ dialog' = IF dialog = NULL THEN NULL ELSE [dialog EXCEPT !.dangling = TRUE]
      /\ UNCHANGED <<indexes, requests, responses, crashed>>
  BY DEF Reload
<1>2. item \in Nat \ {0} /\ DialogOK
  BY DEF IndexInv, IndexTyped, IndexTypeOK, DialogOK
<1>3. DialogOK'
  <2>1. CASE dialog = NULL
    BY <1>1, <2>1 DEF DialogOK
  <2>2. CASE dialog # NULL
    <3>1. dialog'.kind = dialog.kind /\ dialog'.old = dialog.old
      BY <1>1, <2>2
    <3> QED BY <1>2, <2>2, <3>1 DEF DialogOK
  <2> QED BY <2>1, <2>2
<1>4. IndexTypeOK'
  BY <1>1, <1>3 DEF IndexInv, IndexTyped, IndexTypeOK, DialogOK
<1>5. /\ requests \in Seq(Requests) /\ \A k \in 1 .. Len(requests) : requests[k].sender \in Nat
      /\ responses \in Seq(Responses) /\ \A k \in 1 .. Len(responses) : responses[k].receiver \in Nat
  <2>1. requests \in Seq(Requests) /\ responses \in Seq(Responses)
    BY DEF IndexInv, IndexTyped
  <2>2. \A q \in Requests : q.sender \in Nat
    BY DEF Requests
  <2>3. \A r \in Responses : r.receiver \in Nat
    BY DEF Responses
  <2>4. /\ \A k \in 1 .. Len(requests) : requests[k] \in Requests
        /\ \A k \in 1 .. Len(responses) : responses[k] \in Responses
    BY <2>1
  <2> QED BY <2>1, <2>2, <2>3, <2>4, Zenon
<1>6. /\ \A k \in 1 .. Len(requests) : requests[k].sender < item + 1
      /\ \A k \in 1 .. Len(responses) : responses[k].receiver < item + 1
  BY <1>2, <1>5 DEF IndexInv, IndexTyped
<1>7. /\ \A k \in 1 .. Len(requests) : requests[k].sender <= item + 1 /\ requests[k].sender # item + 1
      /\ \A k \in 1 .. Len(responses) : responses[k].receiver <= item + 1 /\ responses[k].receiver # item + 1
  BY <1>2, <1>5, <1>6
<1>8. IndexTyped'
  BY <1>1, <1>2, <1>4, <1>5, <1>7, NoneIsList DEF IndexTyped
<1>9. ForReplaced' \/ WillShow(items', missed', responses', indexes')
  <2>1. CASE requests = << >> /\ responses = << >>
    <3>1. \A k \in 0 .. Len(responses') : k = 0
      BY <1>1, <2>1
    <3>2. NamesFrom(items', responses', 0) = {}
      BY <1>1, NoneIsList DEF NamesFrom
    <3> QED BY <3>1, <3>2, Zenon DEF WillShow
  <2>2. CASE requests # << >>
    <3>1. 1 \in 1 .. Len(requests)
      BY <1>5, <2>2, EmptySeq
    <3> QED BY <1>1, <1>7, <3>1 DEF ForReplaced
  <2>3. CASE responses # << >>
    <3>1. 1 \in 1 .. Len(responses)
      BY <1>5, <2>3, EmptySeq
    <3> QED BY <1>1, <1>7, <3>1 DEF ForReplaced
  <2> QED BY <2>1, <2>2, <2>3
<1> QED BY <1>8, <1>9 DEF IndexInv

\* The answers the worker may give.
LEMMA ResponsesTyped ==
  ASSUME Head(requests).sender \in Nat
  PROVE  /\ \A f : AsInfos(f) \in IndexLists => ListOf(f) \in Responses
         /\ ListError \in Responses
         /\ \A error \in BOOLEAN, n \in Name \cup {NULL} : DeleteIndexResponse(error, n) \in Responses
  BY Zenon DEF ListOf, ListError, DeleteIndexResponse, Responses

\* The first request, and the state of the indexes it meets.
LEMMA FirstRequest ==
  ASSUME IndexInv, NEW type, Handles(type)
  PROVE  /\ ~ crashed /\ requests # << >> /\ Head(requests) \in Requests /\ Head(requests).type = type
         /\ Head(requests).sender \in Nat /\ responses \in Seq(Responses)
         /\ DOMAIN indexes \subseteq Name /\ \A n \in DOMAIN indexes : indexes[n] \subseteq Option
<1>1. ~ crashed /\ requests # << >> /\ Head(requests).type = type
  BY DEF Handles
<1>2. requests \in Seq(Requests) /\ responses \in Seq(Responses)
  BY DEF IndexInv, IndexTyped
<1>3. Head(requests) \in Requests
  BY <1>1, <1>2, HeadTailProperties
<1>4. Head(requests).sender \in Nat
  BY <1>3 DEF Requests
<1>5. DOMAIN indexes \subseteq Name /\ \A n \in DOMAIN indexes : indexes[n] \subseteq Option
  BY DEF IndexInv, IndexTyped, IndexTypeOK
<1> QED BY <1>1, <1>2, <1>3, <1>4, <1>5

\* An answer that lists the indexes as they are now, or the error of one that could not.
LEMMA ListReplied ==
  ASSUME IndexInv, requests # << >>, Head(requests).sender \in Nat,
         DOMAIN indexes' \subseteq Name, \A n \in DOMAIN indexes' : indexes'[n] \subseteq Option,
         Reply(ListOf(indexes')) \/ Reply(ListError)
  PROVE  IndexInv'
<1> DEFINE x == Head(requests).sender
           good == ListOf(indexes')
           bad == ListError
<1>1. AsInfos(indexes') \in IndexLists /\ NamesOf(AsInfos(indexes')) = DOMAIN indexes'
  BY AnswerLists
<1>2. good \in Responses /\ good.infos = AsInfos(indexes') /\ bad \in Responses /\ bad.infos = {}
  BY <1>1, ResponsesTyped DEF ListOf, ListError
<1>3. good.type = "list" /\ good.receiver = x /\ bad.type = "list" /\ bad.receiver = x
  BY DEF ListOf, ListError
<1> HIDE DEF good, bad
<1>4. PICK r \in {good, bad} : responses' = Append(responses, r)
  BY DEF Reply, good, bad
<1>5. requests' = Tail(requests) /\ UNCHANGED <<item, items, missed, label, dialog, crashed>>
  BY DEF Reply
<1>6. responses \in Seq(Responses)
  BY DEF IndexInv, IndexTyped
<1>7. WillShow(items, missed, responses', indexes')
  <2>1. r \in Responses /\ r.type = "list" /\ (NamesOf(r.infos) = {} \/ NamesOf(r.infos) = DOMAIN indexes')
    BY <1>1, <1>2, <1>3, <1>4, NoneIsList
  <2> QED BY <1>4, <1>6, <2>1, ListDecides
<1>8. IndexTypeOK'
  BY <1>5 DEF IndexInv, IndexTyped, IndexTypeOK
<1> QED BY <1>2, <1>3, <1>4, <1>5, <1>7, <1>8, RepliedSound

LEMMA LoadSound == ASSUME IndexInv, LoadCollectionIndexes PROVE IndexInv'
<1>1. indexes' = indexes /\ (Reply(ListOf(indexes')) \/ Reply(ListError)) /\ Handles("load")
  BY Zenon DEF LoadCollectionIndexes
<1> QED BY <1>1, FirstRequest, ListReplied

\* Whether or not the drop and the insert took effect, the answer tells of what is there now.
LEMMA EnsureSound == ASSUME IndexInv, EnsureIndex PROVE IndexInv'
<1> DEFINE r == Head(requests)
           dropped == IF r.old.name = "" THEN indexes ELSE Without(r.old.name)
           saved == Saved(r.old, r.new)
<1>1. Handles("ensure")
  BY DEF EnsureIndex
<1>2. r.old \in Infos /\ r.new \in Infos
  <2>1. r \in Requests /\ r.type = "ensure"
    BY <1>1, FirstRequest
  <2> QED BY <2>1 DEF Requests
<1>3. saved.name \in Name /\ saved.options \subseteq Option
  BY <1>2, IndexesAssumption DEF Saved, Infos
<1>4. DOMAIN dropped \subseteq Name /\ \A n \in DOMAIN dropped : dropped[n] \subseteq Option
  BY <1>1, FirstRequest DEF Without
<1>5. CASE indexes' \in Inserted(dropped, saved) /\ (Reply(ListOf(indexes')) \/ Reply(ListError))
  <2> HIDE DEF dropped, saved
  <2>1. DOMAIN indexes' \subseteq Name /\ \A n \in DOMAIN indexes' : indexes'[n] \subseteq Option
    BY <1>3, <1>4, <1>5, InsertedTyped
  <2> QED BY <1>1, <1>5, <2>1, FirstRequest, ListReplied
<1>6. CASE Reply(ListError) /\ indexes' = indexes
  BY <1>1, <1>6, FirstRequest, ListReplied
<1> QED BY <1>5, <1>6 DEF EnsureIndex

\* Whether or not the answer to a drop is an error, it is of the index that is gone.
LEMMA DropSound == ASSUME IndexInv, DropCollectionIndex PROVE IndexInv'
<1>1. Handles("drop")
  BY DEF DropCollectionIndex
<1>2. PICK error \in BOOLEAN, name \in Name \cup {NULL} :
        /\ Reply(DeleteIndexResponse(error, name))
        /\ DOMAIN indexes' = DOMAIN indexes \ {name} /\ \A n \in DOMAIN indexes' : indexes'[n] = indexes[n]
  <2>1. CASE /\ Head(requests).name \in DOMAIN indexes /\ indexes' = Without(Head(requests).name)
             /\ \E error \in BOOLEAN : Reply(DeleteIndexResponse(error, Head(requests).name))
    <3>1. Head(requests).name \in Name
      BY <1>1, <2>1, FirstRequest
    <3>2. /\ DOMAIN indexes' = DOMAIN indexes \ {Head(requests).name}
          /\ \A n \in DOMAIN indexes' : indexes'[n] = indexes[n]
      BY <2>1 DEF Without
    <3> QED BY <2>1, <3>1, <3>2, Zenon
  <2>2. CASE indexes' = indexes /\ Reply(DeleteIndexResponse(TRUE, NULL))
    <3>1. DOMAIN indexes \ {NULL} = DOMAIN indexes
      BY <1>1, FirstRequest, IndexesAssumption
    <3> QED BY <2>2, <3>1, Zenon
  <2> QED BY <2>1, <2>2, Zenon DEF DropCollectionIndex
<1> DEFINE r == DeleteIndexResponse(error, name)
<1>3. r \in Responses /\ r.type = "deleted" /\ r.receiver = Head(requests).sender /\ r.name = name
  BY <1>1, <1>2, FirstRequest, ResponsesTyped DEF DeleteIndexResponse
<1>4. /\ responses' = Append(responses, r) /\ requests' = Tail(requests)
      /\ UNCHANGED <<item, items, missed, label, dialog, crashed>>
  BY <1>2 DEF Reply
<1> HIDE DEF r
<1>5. IndexTypeOK'
  BY <1>2, <1>4 DEF IndexInv, IndexTyped, IndexTypeOK
<1>6. WillShow(items, missed, responses, indexes) => WillShow(items', missed', responses', indexes')
  BY <1>1, <1>2, <1>3, <1>4, FirstRequest, DropFollows
<1> QED BY <1>1, <1>3, <1>4, <1>5, <1>6, FirstRequest, RepliedSound

\* The first response.
LEMMA FirstResponse ==
  ASSUME IndexInv, responses # << >>
  PROVE  /\ responses \in Seq(Responses) /\ Head(responses) \in Responses
         /\ Head(responses).type = "list" => Head(responses).infos \in IndexLists
         /\ Head(responses).type = "list" /\ Head(responses).error => Head(responses).infos = {}
<1>1. responses \in Seq(Responses)
  BY DEF IndexInv, IndexTyped
<1>2. Head(responses) \in Responses
  BY <1>1, HeadTailProperties
<1>3. ASSUME NEW r \in Responses, r.type = "list" PROVE r.infos \in IndexLists
  BY <1>3, NoneIsList DEF Responses
<1>4. ASSUME NEW r \in Responses, r.type = "list", r.error PROVE r.infos = {}
  <2>1. CASE r \in [type : {"list"}, receiver : Nat, error : {FALSE}, infos : IndexLists]
    BY <1>4, <2>1, Zenon
  <2>2. CASE r \in [type : {"list"}, receiver : Nat, error : {TRUE}, infos : {{}}]
    BY <2>2, Zenon
  <2>3. r.type = "list" => r \notin [type : {"deleted"}, receiver : Nat, error : BOOLEAN, name : Name \cup {NULL}]
    OBVIOUS
  <2> QED BY <1>4, <2>1, <2>2, <2>3, Zenon DEF Responses
<1> QED BY <1>1, <1>2, <1>3, <1>4, Zenon

\* A dialog whose items are deleted keeps what it holds of them.
LEMMA DialogKept ==
  ASSUME DialogOK, dialog' = dialog \/ (dialog # NULL /\ dialog' = [dialog EXCEPT !.dangling = TRUE])
  PROVE  DialogOK'
<1>1. CASE dialog' = dialog
  BY <1>1 DEF DialogOK
<1>2. CASE dialog # NULL /\ dialog' = [dialog EXCEPT !.dangling = TRUE]
  <2>1. dialog'.kind = dialog.kind /\ dialog'.old = dialog.old
    BY <1>2
  <2> QED BY <1>2, <2>1 DEF DialogOK
<1> QED BY <1>1, <1>2

\* A list that comes, or its error, which empties the folder.
LEMMA ListSound == ASSUME IndexInv, ListFailed \/ ListLoaded PROVE IndexInv'
<1>1. /\ ~ crashed /\ responses # << >> /\ Head(responses).type = "list" /\ Head(responses).receiver = item
      /\ responses' = Tail(responses) /\ missed' = {}
      /\ ItemsDeleted /\ UNCHANGED <<indexes, item, requests, crashed>>
  BY DEF ListFailed, ListLoaded, Deliver
<1>2. items' = Head(responses).infos
  BY <1>1, FirstResponse DEF ListFailed, ListLoaded
<1>3. items' \in IndexLists /\ Cardinality(items') \in 0 .. Cardinality(Name)
  BY <1>1, <1>2, FirstResponse, ListsAreShort
<1>4. label' = Plain \/ label' = Cardinality(items')
  BY DEF ListFailed, ListLoaded
<1>5. DialogOK'
  <2>1. DialogOK
    BY DEF IndexInv, IndexTyped, IndexTypeOK, DialogOK
  <2> QED BY <1>1, <2>1, DialogKept DEF ItemsDeleted
<1>6. IndexTypeOK'
  BY <1>1, <1>3, <1>4, <1>5 DEF IndexInv, IndexTyped, IndexTypeOK, IndexLists, DialogOK
<1>7. WillShow(items, missed, responses, indexes) => WillShow(items', missed', responses', indexes')
  BY <1>1, <1>2, FirstResponse, ListComes
<1> QED BY <1>1, <1>3, <1>6, <1>7, DeliveredSound

LEMMA DeletedSound == ASSUME IndexInv, IndexDeleted PROVE IndexInv'
<1> DEFINE r == Head(responses)
<1>1. /\ ~ crashed /\ responses # << >> /\ r.type = "deleted" /\ r.receiver = item /\ items' = Deleted(r)
      /\ responses' = Tail(responses) /\ UNCHANGED <<indexes, item, requests, crashed>>
  BY DEF IndexDeleted, Deliver
<1>2. /\ items' \subseteq items
      /\ \/ NamesOf(items') = NamesOf(items) \ {r.name} /\ missed' = missed
         \/ NamesOf(items') = NamesOf(items) /\ missed' = missed \cup ({r.name} \ {NULL})
  <2>1. CASE r.error
    BY <1>1, <2>1, Zenon DEF Deleted, IndexDeleted
  <2>2. CASE ~ r.error
    <3>1. items' = {i \in items : i.name # r.name} /\ missed' = missed
      BY <1>1, <2>2, Zenon DEF Deleted, IndexDeleted
    <3>2. NamesOf(items') = NamesOf(items) \ {r.name}
      BY <3>1 DEF NamesOf
    <3> QED BY <3>1, <3>2, Zenon
  <2> QED BY <2>1, <2>2
<1>3. items' \in IndexLists /\ Cardinality(items') \in 0 .. Cardinality(Name)
  BY <1>2, PartsAreLists, ListsAreShort DEF IndexInv, IndexTyped
<1>4. label' = label \/ label' = Cardinality(items')
  BY DEF IndexDeleted
<1>5. DialogOK'
  <2>1. DialogOK
    BY DEF IndexInv, IndexTyped, IndexTypeOK, DialogOK
  <2> QED BY <2>1, DialogKept DEF IndexDeleted
<1>9. missed' \subseteq Name
  <2>1. r \in Responses /\ r.type = "deleted"
    BY <1>1, FirstResponse
  <2>2. r.name \in Name \cup {NULL}
    BY <2>1 DEF Responses
  <2>3. missed \subseteq Name
    BY DEF IndexInv, IndexTyped, IndexTypeOK
  <2> HIDE DEF r
  <2> QED BY <1>2, <2>2, <2>3
<1>6. IndexTypeOK'
  BY <1>9, <1>1, <1>3, <1>4, <1>5 DEF IndexInv, IndexTyped, IndexTypeOK, IndexLists, DialogOK
<1>7. WillShow(items, missed, responses, indexes) => WillShow(items', missed', responses', indexes')
  <2>1. NULL \notin NamesOf(items)
    BY IndexesAssumption DEF IndexInv, IndexTyped, IndexLists
  <2> QED BY <1>1, <1>2, <2>1, FirstResponse, DropComes
<1> QED BY <1>1, <1>3, <1>6, <1>7, DeliveredSound

\* An answer for an item that was replaced.
LEMMA LateSound == ASSUME IndexInv, DeliverToDeleted PROVE IndexInv'
<1>1. /\ responses # << >> /\ responses' = Tail(responses) /\ crashed'
      /\ UNCHANGED <<indexes, item, items, missed, label, dialog, requests>>
  BY DEF DeliverToDeleted
<1>2. responses \in Seq(Responses)
  BY DEF IndexInv, IndexTyped
<1>3. /\ responses' \in Seq(Responses) /\ Len(responses) = Len(responses') + 1 /\ Len(responses') \in Nat
      /\ \A k \in 1 .. Len(responses') : responses'[k] = responses[k + 1]
  BY <1>1, <1>2, HeadTailProperties
<1>4. \A k \in 1 .. Len(responses') : responses'[k].receiver <= item
  <2>1. \A k \in 1 .. Len(responses') : k + 1 \in 1 .. Len(responses)
    BY <1>3
  <2> QED BY <1>3, <2>1 DEF IndexInv, IndexTyped
<1>5. IndexTypeOK'
  BY <1>1 DEF IndexInv, IndexTyped, IndexTypeOK
<1> QED BY <1>1, <1>3, <1>4, <1>5 DEF IndexInv, IndexTyped

LEMMA IndexInitSound == IndexInit => IndexInv
<1> SUFFICES ASSUME IndexInit PROVE IndexInv
  OBVIOUS
<1>1. DOMAIN indexes \subseteq Name /\ \A n \in DOMAIN indexes : indexes[n] \subseteq Option
  BY DEF IndexInit
<1>2. /\ AsInfos(indexes) \in IndexLists /\ NamesOf(AsInfos(indexes)) = DOMAIN indexes
      /\ Cardinality(AsInfos(indexes)) \in 0 .. Cardinality(Name)
  BY <1>1, AnswerLists, ListsAreShort
<1>3. items \in IndexLists /\ (NamesOf(items) = {} \/ NamesOf(items) = DOMAIN indexes)
  BY <1>2, NoneIsList DEF IndexInit
<1>4. label \in {Loading, Plain} \cup 0 .. Cardinality(Name)
  BY <1>2 DEF IndexInit
<1>5. item = 1 /\ dialog = NULL /\ requests = << >> /\ responses = << >> /\ missed = {}
  BY DEF IndexInit
<1>6. IndexTypeOK
  BY <1>1, <1>3, <1>4, <1>5 DEF IndexTypeOK, IndexLists
<1>7. IndexTyped
  BY <1>3, <1>5, <1>6 DEF IndexTyped
<1>8. WillShow(items, missed, responses, indexes)
  <2>1. \A k \in 0 .. Len(responses) : k = 0 /\ k + 1 .. Len(responses) = {}
    BY <1>5
  <2>2. \A k \in 0 .. Len(responses) : DroppedAfter(missed, responses, k) = {}
    BY <1>5, <2>1, Zenon DEF DroppedAfter
  <2>3. \A k \in 0 .. Len(responses) : NamesFrom(items, responses, k) = NamesOf(items)
    BY <2>1 DEF NamesFrom
  <2> QED BY <1>3, <2>2, <2>3 DEF WillShow
<1> QED BY <1>7, <1>8 DEF IndexInv

LEMMA IndexNextSound == IndexInv /\ [IndexNext]_indexVars => IndexInv'
<1> SUFFICES ASSUME IndexInv, [IndexNext]_indexVars PROVE IndexInv'
  OBVIOUS
<1>1. CASE User
  BY <1>1, ExpandSound, DialogSound, ReloadSound, AcceptSound DEF User
<1>2. CASE Worker
  BY <1>2, LoadSound, EnsureSound, DropSound DEF Worker
<1>3. CASE Answers
  BY <1>3, LateSound, ListSound, DeletedSound DEF Answers
<1>4. CASE UNCHANGED indexVars
  <2>1. IndexTyped' = IndexTyped /\ ForReplaced' = ForReplaced
    BY <1>4 DEF indexVars, IndexTyped, IndexTypeOK, ForReplaced
  <2> QED BY <1>4, <2>1 DEF indexVars, IndexInv
<1> QED BY <1>1, <1>2, <1>3, <1>4 DEF IndexNext

THEOREM IndexInvariance == IndexSpec => []IndexInv
  BY IndexInitSound, IndexNextSound, PTL DEF IndexSpec

\* The indexes, the items below the folder, its count and the dialog keep their types.
THEOREM IndexTypeCorrect == IndexSpec => []IndexTypeOK
<1>1. IndexInv => IndexTypeOK
  BY DEF IndexInv, IndexTyped
<1> QED BY <1>1, IndexInvariance, PTL

\* ExplorerCollectionTreeItem's handlers: once every request is answered, a folder that
\* shows a list shows the names the server has, whatever was added, edited, dropped,
\* refused and reloaded in between, and besides them only indexes whose drop took effect
\* and was answered with an error.
THEOREM IndexesFresh == IndexSpec => []FreshAtRest
<1>1. IndexInv => FreshAtRest
  <2> SUFFICES ASSUME IndexInv, ~ crashed, requests = << >>, responses = << >>, items # {}
               PROVE  NamesOf(items) \ missed = DOMAIN indexes
    BY DEF FreshAtRest, NamesOf
  <2>1. ~ ForReplaced
    BY DEF ForReplaced
  <2>2. WillShow(items, missed, responses, indexes)
    BY <2>1 DEF IndexInv
  <2>3. 0 \in 0 .. Len(responses) /\ 0 + 1 .. Len(responses) = {}
    OBVIOUS
  <2>4. LastList(responses, 0) /\ DroppedAfter(missed, responses, 0) = missed
    BY <2>3, Zenon DEF LastList, DroppedAfter
  <2>5. NamesOf(items) = {} \/ NamesOf(items) \ missed = DOMAIN indexes
    BY <2>2, <2>3, <2>4 DEF WillShow, NamesFrom
  <2> QED BY <2>5 DEF NamesOf
<1> QED BY <1>1, IndexInvariance, PTL
=============================================================================

----------------------------- MODULE WelcomeTab -----------------------------
(* The Welcome tab: the "what's new" text, its picture and the blog posts are *)
(* downloaded when the tab is opened or refreshed and kept in a cache that    *)
(* outlives the program, the text and the picture together with the date the  *)
(* server gave them. The date of the n-th version of a resource is n.         *)
EXTENDS Integers

CONSTANTS MaxVersion,  \* bound on the versions the server publishes, by resource
          MaxTabs,     \* bound on the tabs opened
          MaxFaults    \* bound on the faults of the network and the disk

Resource == {"text", "picture", "rss"}

ASSUME WelcomeTabAssumption ==
  /\ MaxVersion \in [Resource -> Nat \ {0}]
  /\ MaxTabs \in Nat \ {0}
  /\ MaxFaults \in Nat

VARIABLES
  server,   \* the newest version at the server
  file,     \* the content of the cached file
  date,     \* the date recorded for it in the settings, or Nothing
  net,      \* the exchange with the server the tab is in
  shown,    \* the content the tab shows, or Nothing
  header,   \* the header of "what's new" is "visible" or "hidden"
  tabs,     \* tabs opened so far
  faults,   \* faults so far
  asked,    \* history: the newest version when the tab was opened
  noted,    \* history: the date recorded when the tab was opened
  trouble   \* history: resources a reply about which was an error, or lacked body or date

vars == <<server, file, date, net, shown, header, tabs, faults, asked, noted, trouble>>

\* Contents that are no version: of a file that does not exist or is empty, and
\* of one, or of a reply, that is cut off or an error page.
Nothing == 0
Missing == -1
Empty == -2
Part == -3

Bodies == {Empty, Part} \cup (Nat \ {0})

Idle == [stage |-> "idle", status |-> "ok", body |-> Empty, date |-> Nothing]

Faults(n) == faults + n <= MaxFaults /\ faults' = faults + n

Request(op) == [Idle EXCEPT !.stage = op]

-----------------------------------------------------------------------------
(* The server and the network.                                                *)

Publish(r) ==
  /\ server[r] < MaxVersion[r]
  /\ server' = [server EXCEPT ![r] = @ + 1]
  /\ UNCHANGED <<file, date, net, shown, header, tabs, faults, asked, noted, trouble>>

\* The reply to a request: the date, which it may lack, and to a GET the version or a
\* body nobody can use; or an error, which may come with a body and after the date. The
\* date of the posts is not looked at.
Replies(r, op) ==
  LET bodies == IF op = "headReply" THEN {Empty} ELSE {Empty, Part, server[r]} IN
  {[stage |-> op, status |-> "ok", body |-> b, date |-> d] :
      b \in bodies, d \in {server[r]} \cup (IF r = "rss" THEN {} ELSE {Nothing})}
  \cup
  {[stage |-> op, status |-> "error", body |-> b, date |-> d] :
      b \in bodies \ {server[r]}, d \in {Nothing, server[r]}}

Unusable(reply) ==
  reply.status = "error" \/ reply.date = Nothing \/ (reply.stage = "getReply" /\ reply.body <= 0)

Answer(r) ==
  /\ net[r].stage \in {"head", "get"}
  /\ \E a \in Replies(r, IF net[r].stage = "head" THEN "headReply" ELSE "getReply") :
        /\ net' = [net EXCEPT ![r] = a]
        /\ Faults(IF Unusable(a) THEN 1 ELSE 0)
  /\ UNCHANGED <<server, file, date, shown, header, tabs, asked, noted, trouble>>

-----------------------------------------------------------------------------
(* The cache.                                                                 *)

\* Mutant: the date is recorded whether or not the file could be opened.
saveIntoCacheDateFirst(r, body, d) ==
  /\ \E written \in {body, Missing, file[r]} :
        /\ file' = [file EXCEPT ![r] = written]
        /\ Faults(IF written = body THEN 0 ELSE 1)
  /\ date' = [date EXCEPT ![r] = d]

\* saveIntoCache: deletes the old file, which may fail, writes the new one without
\* looking whether it was written, and records the date unless the file could not
\* be opened.
saveIntoCache(r, body, d) ==
  \/ \E written \in {body, Empty, Part} :
        /\ file' = [file EXCEPT ![r] = written]
        /\ date' = [date EXCEPT ![r] = d]
        /\ Faults(IF written = body THEN 0 ELSE 1)
  \/ \E left \in {Missing, file[r]} :
        /\ file' = [file EXCEPT ![r] = left]
        /\ Faults(1)
        /\ UNCHANGED date

\* The program ends inside saveIntoCache: a text is buffered until after its date
\* is recorded, the picture is written before that.
Interrupted(r, body, d) ==
  \/ \E left \in {Missing, Empty, Part} \cup (IF r = "picture" THEN {body} ELSE {}) :
        /\ file' = [file EXCEPT ![r] = left]
        /\ UNCHANGED date
  \/ /\ r # "picture"
     /\ \E left \in {Empty, Part} : file' = [file EXCEPT ![r] = left]
     /\ date' = [date EXCEPT ![r] = d]

-----------------------------------------------------------------------------
(* The handlers of the replies.                                               *)

\* The handler of a reply ends: the tab shows c for r and goes on to the given
\* exchange.
Handled(r, c, next) ==
  /\ shown' = [shown EXCEPT ![r] = c]
  /\ net' = [net EXCEPT ![r] = next]
  /\ trouble' = IF Unusable(net[r]) THEN trouble \cup {r} ELSE trouble
  /\ UNCHANGED <<server, tabs, asked, noted>>

\* Mutant: a newer file is asked for by another HEAD.
DownloadAsksAgain == Request("head")

\* The file at the server is newer than the cached one, or none is cached.
Download == Request("get")

\* What setWhatsNewHeaderAndText shows of a text: nothing new without a line break.
TextOf(str, old) ==
  IF str > 0 THEN {str} ELSE IF str = Part THEN {Part, old} ELSE {old}

\* hideOrShowWhatsNewHeader, after the text has become t.
HeaderFor(t) == IF t # Nothing \/ shown["picture"] # Nothing THEN "visible" ELSE "hidden"

textFromCache ==
  /\ \/ \E t \in TextOf(file["text"], shown["text"]) :
           file["text"] # Missing /\ Handled("text", t, Idle) /\ header' = HeaderFor(t) /\ Faults(0)
     \/ /\ Handled("text", shown["text"], Idle) /\ UNCHANGED header   \* the file cannot be opened
        /\ Faults(IF file["text"] = Missing THEN 0 ELSE 1)
  /\ UNCHANGED <<file, date>>

\* Mutant: a text is in the cache as soon as some date is recorded for it.
IsCachedAnyDate(r) == date[r] # Nothing /\ file[r] # Missing

IsCached(r) == net[r].date = date[r] /\ file[r] # Missing

\* A GET of the text came back: whatever it brought is shown and cached, unless it
\* brought nothing.
textFromNet ==
  \E t \in TextOf(net["text"].body, shown["text"]) :
     /\ Handled("text", t, Idle) /\ header' = HeaderFor(t)
     /\ IF net["text"].body = Empty THEN UNCHANGED <<file, date, faults>>
        ELSE saveIntoCache("text", net["text"].body, net["text"].date)

on_downloadTextReply ==
  \/ /\ net["text"].stage = "headReply"
     /\ net["text"].status = "error" \/ IsCached("text")
     /\ textFromCache
  \/ /\ net["text"].stage = "headReply"
     /\ net["text"].status = "ok" /\ ~ IsCached("text")
     /\ Handled("text", shown["text"], Download) /\ UNCHANGED header
     /\ UNCHANGED <<file, date, faults>>
  \/ net["text"].stage = "getReply" /\ textFromNet

\* The picture in the cache replaces the one shown when it can be decoded. Only
\* after an error is the header brought up to date too.
pictureFromCache ==
  /\ LET image == IF file["picture"] > 0 THEN file["picture"] ELSE shown["picture"]
         update == net["picture"].status = "error" /\ file["picture"] > 0
     IN Handled("picture", image, Idle) /\ header' = IF update THEN "visible" ELSE header
  /\ UNCHANGED <<file, date, faults>>

on_downloadPictureReply ==
  LET reply == net["picture"] IN
  \/ /\ reply.status = "error" /\ reply.stage \in {"headReply", "getReply"}
     /\ pictureFromCache
  \/ /\ reply.status = "ok" /\ reply.stage = "headReply" /\ IsCached("picture")
     /\ pictureFromCache
  \/ /\ reply.status = "ok" /\ reply.stage = "headReply" /\ ~ IsCached("picture")
     /\ Handled("picture", shown["picture"], Download) /\ UNCHANGED header
     /\ UNCHANGED <<file, date, faults>>
  \/ /\ reply.status = "ok" /\ reply.stage = "getReply" /\ reply.body <= 0
     /\ pictureFromCache
  \/ /\ reply.status = "ok" /\ reply.stage = "getReply" /\ reply.body > 0
     /\ Handled("picture", reply.body, Idle) /\ UNCHANGED header
     /\ saveIntoCache("picture", reply.body, reply.date)

RssFailed == net["rss"].status = "error" \/ net["rss"].body = Empty

RssData == IF RssFailed THEN file["rss"] ELSE net["rss"].body

\* The posts of a reply, or else those in the cache, are listed and cached again,
\* under no date.
on_downloadRssReply ==
  /\ net["rss"].stage = "getReply"
  /\ \/ /\ RssData # Missing
        /\ Handled("rss", IF RssData = Empty THEN shown["rss"] ELSE RssData, Idle) /\ UNCHANGED header
        /\ saveIntoCache("rss", RssData, Nothing)
     \/ /\ RssFailed                                   \* the file cannot be opened
        /\ Handled("rss", shown["rss"], Idle) /\ UNCHANGED header
        /\ Faults(IF file["rss"] = Missing THEN 0 ELSE 1)
        /\ UNCHANGED <<file, date>>

-----------------------------------------------------------------------------
(* Opening the tab.                                                           *)

\* WelcomeTab::WelcomeTab asks for the dates of the text and of the picture, and
\* for the posts. Replies to an earlier tab are not delivered: it is deleted.
FirstRequests == [r \in Resource |-> Request(IF r = "rss" THEN "get" ELSE "head")]

NewTab ==
  /\ tabs < MaxTabs
  /\ tabs' = tabs + 1
  /\ net' = FirstRequests
  /\ shown' = [r \in Resource |-> Nothing]
  /\ header' = "hidden"
  /\ asked' = server
  /\ noted' = date'
  /\ trouble' = {}
  /\ UNCHANGED server

\* "Open/Refresh Welcome Tab", or a start of the program.
openWelcomeTab == UNCHANGED <<file, date, faults>> /\ NewTab

\* The program ends while it caches what a reply brought, and is started again.
CrashInSave ==
  /\ \/ /\ net["text"].stage = "getReply" /\ net["text"].body # Empty
        /\ Interrupted("text", net["text"].body, net["text"].date)
     \/ /\ net["picture"].stage = "getReply" /\ net["picture"].body > 0
        /\ Interrupted("picture", net["picture"].body, net["picture"].date)
     \/ /\ net["rss"].stage = "getReply" /\ RssData # Missing
        /\ Interrupted("rss", RssData, Nothing)
  /\ Faults(1)
  /\ NewTab

-----------------------------------------------------------------------------
Init ==
  /\ server = [r \in Resource |-> 1]
  /\ file = [r \in Resource |-> Missing]
  /\ date = [r \in Resource |-> Nothing]
  /\ net = FirstRequests
  /\ shown = [r \in Resource |-> Nothing]
  /\ header = "hidden"
  /\ tabs = 1
  /\ faults = 0
  /\ asked = server
  /\ noted = date
  /\ trouble = {}

OnReply == on_downloadTextReply \/ on_downloadPictureReply \/ on_downloadRssReply

Next ==
  \/ \E r \in Resource : Publish(r) \/ Answer(r)
  \/ OnReply
  \/ openWelcomeTab
  \/ CrashInSave

Spec == Init /\ [][Next]_vars

\* The event loop delivers every answer. Nothing makes the network answer: neither the
\* tab nor its QNetworkAccessManager has a timeout.
FairSpec ==
  /\ Spec
  /\ WF_vars(on_downloadTextReply)
  /\ WF_vars(on_downloadPictureReply)
  /\ WF_vars(on_downloadRssReply)

-----------------------------------------------------------------------------
Exchanges ==
  [stage : {"idle", "head", "get", "headReply", "getReply"},
   status : {"ok", "error"}, body : Bodies, date : Nat]

\* Type correctness of what the handlers of the replies leave behind.
TypeOK ==
  /\ server \in [Resource -> Nat \ {0}]
  /\ file \in [Resource -> Bodies \cup {Missing}]
  /\ date \in [Resource -> Nat]
  /\ net \in [Resource -> Exchanges]
  /\ shown \in [Resource -> Nat \cup {Part}]
  /\ header \in {"visible", "hidden"}
  /\ tabs \in Nat /\ faults \in Nat
  /\ asked \in [Resource -> Nat \ {0}]
  /\ noted \in [Resource -> Nat]
  /\ trouble \subseteq Resource

\* What a tab shows of a resource after replies without error is no older than what
\* the server had when the tab was opened: the dates of on_downloadTextReply and
\* on_downloadPictureReply never pass off an old file as the new one, whatever
\* failed, or crashed, in saveIntoCache before.
NotOutdated ==
  \A r \in Resource : shown[r] > 0 /\ r \notin trouble => shown[r] >= asked[r]

\* A version newer than the date recorded when the tab was opened is shown once
\* the replies have come without error: no cache that was torn or lost earlier
\* stands between the server's news and the user.
NewsIsShown ==
  \A r \in Resource :
     net[r].stage = "idle" /\ r \notin trouble /\ noted[r] < asked[r] => shown[r] >= asked[r]

\* The text is never shown without its header, and the header never over nothing
\* (hideOrShowWhatsNewHeader is called by some of the paths only).
HeaderOverText ==
  /\ shown["text"] # Nothing => header = "visible"
  /\ header = "visible" => shown["text"] # Nothing \/ shown["picture"] # Nothing

\* Every exchange with the server comes to an end, unless the network leaves a request
\* unanswered for ever: each answer is handled, and a check for a newer file leads to at
\* most one download (on_downloadTextReply, on_downloadPictureReply).
ExchangesEnd ==
  \A r \in Resource : []<>(net[r].stage = "idle") \/ <>[](net[r].stage \in {"head", "get"})
=============================================================================

---------------------------- MODULE MerakiEvents ----------------------------
(***************************************************************************)
(* The Meraki network events: a goroutine downloads, at start-up and every *)
(* hour, the events of each network since the end of the last download,    *)
(* and puts them on c.logchan. Where a download ends is known for one      *)
(* network, the last one asked for, and used for all of them.              *)
(*                                                                         *)
(* Events are <<network, time>>, with times in the order they happen; 0 is *)
(* the empty token, the beginning.                                         *)
(***************************************************************************)
EXTENDS Naturals, FiniteSets, FiniteSetsExt

CONSTANTS
  EventNets,      \* networks, or networks and product types
  NoNet,
  EventRetry,     \* c.maxRetry
  MaxHappen,      \* events that happen
  MaxDownloads,
  EventRoom       \* capacity of c.logchan

ASSUME EventsAssumption ==
  /\ {EventRetry, MaxHappen, MaxDownloads} \subseteq Nat /\ EventRoom \in Nat \ {0} /\ NoNet \notin EventNets

VARIABLES
  phase,       \* of getNetworkEventsWrapper: a download, its select, or its end
  mark,        \* nextPageEndAt of getNetworkEventsWrapper
  endAt,       \* nextPageEndAt of this download
  toAsk, asking,   \* networks it has not finished, and the one it asks for
  token,       \* nextToken
  retries,     \* `timeouts'
  toPush,      \* lines of this page that are not yet on c.logchan
  evLines,     \* what is on c.logchan
  hour,        \* logCheck.C holds a tick
  evCancelled, \* the context is done
  downloads,
  now,         \* events that have happened
  happened,    \* history: the events
  evLogged,    \* history: those put on c.logchan
  excused      \* history: those that came after their network in a download, or of a refused network

downloadVars == <<endAt, toAsk, asking, token, retries, toPush>>
worldVars == <<now, happened>>
eventVars == <<phase, mark, downloadVars, evLines, hour, evCancelled, downloads, worldVars, evLogged, excused>>

EventsInit ==
  /\ phase = "download" /\ mark = 0 /\ endAt = 0 /\ toAsk = EventNets /\ asking = NoNet /\ token = 0
  /\ retries = 0 /\ toPush = 0 /\ evLines = 0 /\ hour = FALSE /\ evCancelled = FALSE /\ downloads = 1
  /\ now = 0 /\ happened = {} /\ evLogged = {} /\ excused = {}

\* An event happens (external).
Happens(n) ==
  /\ now < MaxHappen /\ now' = now + 1 /\ happened' = happened \cup {<<n, now + 1>>}
  /\ excused' = IF phase = "download" /\ n \notin toAsk THEN excused \cup {<<n, now + 1>>} ELSE excused
  /\ UNCHANGED <<phase, mark, downloadVars, evLines, hour, evCancelled, downloads, evLogged>>

------------------------------------------------------------------------------
\* getNetworkEvents

AskNetwork(n) ==
  /\ phase = "download" /\ asking = NoNet /\ n \in toAsk /\ toPush = 0
  /\ asking' = n /\ token' = mark /\ retries' = 0
  /\ UNCHANGED <<phase, mark, endAt, toAsk, toPush, evLines, hour, evCancelled, downloads, worldVars, evLogged,
                 excused>>

Requested == asking # NoNet /\ toPush = 0

\* Events of the network after the token.
Due == {t \in 1..now : <<asking, t>> \in happened /\ t > token}

\* The page is logged; the token of the next one is the last event of this one.
PageAndLink(t) ==
  /\ Requested /\ t \in Due /\ t # Max(Due)
  /\ LET page == {s \in Due : s <= t} IN
     /\ evLogged' = evLogged \cup ({asking} \X page) /\ toPush' = Cardinality(page)
  /\ token' = t
  /\ UNCHANGED <<phase, mark, endAt, toAsk, asking, retries, evLines, hour, evCancelled, downloads, worldVars,
                 excused>>

NetworkDone(e) ==
  /\ endAt' = e /\ toAsk' = toAsk \ {asking} /\ asking' = NoNet /\ token' = 0

\* The last page: PageEndAt is the time of its last event. A page without
\* events has the token it was asked for, or none.
LastPage(e) ==
  /\ Requested /\ IF Due = {} THEN e \in {token, 0} ELSE e = Max(Due)
  /\ evLogged' = evLogged \cup ({asking} \X Due) /\ toPush' = Cardinality(Due)
  /\ NetworkDone(e)
  /\ UNCHANGED <<phase, mark, retries, evLines, hour, evCancelled, downloads, worldVars, excused>>

EventsBusy ==
  /\ Requested /\ retries < EventRetry /\ retries' = retries + 1
  /\ UNCHANGED <<phase, mark, endAt, toAsk, asking, token, toPush, evLines, hour, evCancelled, downloads,
                 worldVars, evLogged, excused>>

\* Status 400, "There are no valid logs to worry about here": the network ends
\* where it stands.
EventsRefused ==
  /\ Requested /\ NetworkDone(token) /\ excused' = excused \cup ({asking} \X Due)
  /\ UNCHANGED <<phase, mark, retries, toPush, evLines, hour, evCancelled, downloads, worldVars, evLogged>>

\* Mutant of EventsFail: the end of the networks before is taken over.
EventsFailMoves ==
  /\ Requested /\ phase' = "select" /\ asking' = NoNet /\ toAsk' = {} /\ token' = 0 /\ endAt' = 0
  /\ mark' = endAt
  /\ UNCHANGED <<retries, toPush, evLines, hour, evCancelled, downloads, worldVars, evLogged, excused>>

\* Any other error ends the download, which the next one does again.
EventsFail ==
  /\ Requested /\ phase' = "select" /\ asking' = NoNet /\ toAsk' = {} /\ token' = 0 /\ endAt' = 0
  /\ UNCHANGED <<mark, retries, toPush, evLines, hour, evCancelled, downloads, worldVars, evLogged, excused>>

\* c.logchan <- blocks while it is full.
PushEvent ==
  /\ toPush > 0 /\ evLines < EventRoom /\ evLines' = evLines + 1 /\ toPush' = toPush - 1
  /\ UNCHANGED <<phase, mark, endAt, toAsk, asking, token, retries, hour, evCancelled, downloads, worldVars,
                 evLogged, excused>>

ReadEvent ==
  /\ evLines > 0 /\ evLines' = evLines - 1
  /\ UNCHANGED <<phase, mark, downloadVars, hour, evCancelled, downloads, worldVars, evLogged, excused>>

------------------------------------------------------------------------------
\* getNetworkEventsWrapper

DownloadDone ==
  /\ phase = "download" /\ toAsk = {} /\ toPush = 0 /\ phase' = "select" /\ mark' = endAt /\ endAt' = 0
  /\ UNCHANGED <<toAsk, asking, token, retries, toPush, evLines, hour, evCancelled, downloads, worldVars,
                 evLogged, excused>>

HourPasses ==
  /\ ~hour /\ hour' = TRUE /\ downloads < MaxDownloads
  /\ UNCHANGED <<phase, mark, downloadVars, evLines, evCancelled, downloads, worldVars, evLogged, excused>>

StartDownload ==
  /\ phase = "select" /\ hour /\ hour' = FALSE /\ downloads < MaxDownloads /\ downloads' = downloads + 1
  /\ phase' = "download" /\ toAsk' = EventNets /\ endAt' = mark
  /\ UNCHANGED <<mark, asking, token, retries, toPush, evLines, evCancelled, worldVars, evLogged, excused>>

CancelEvents ==
  /\ ~evCancelled /\ evCancelled' = TRUE
  /\ UNCHANGED <<phase, mark, downloadVars, evLines, hour, downloads, worldVars, evLogged, excused>>

EventsDone ==
  /\ phase = "select" /\ evCancelled /\ phase' = "done"
  /\ UNCHANGED <<mark, downloadVars, evLines, hour, evCancelled, downloads, worldVars, evLogged, excused>>

EventStep ==
  \/ \E n \in EventNets : AskNetwork(n)
  \/ \E t \in 0..now : PageAndLink(t) \/ LastPage(t)
  \/ EventsBusy \/ EventsRefused \/ EventsFail \/ PushEvent \/ ReadEvent
  \/ DownloadDone \/ StartDownload \/ EventsDone

EventsNext == EventStep \/ HourPasses \/ CancelEvents \/ \E n \in EventNets : Happens(n)

------------------------------------------------------------------------------
\* Properties.

\* The variables have the types of the code's.
EventsTypeOK ==
  /\ phase \in {"download", "select", "done"} /\ {mark, endAt, token} \subseteq 0..now
  /\ asking # NoNet => asking \in toAsk /\ phase = "download"
  /\ evLines \in 0..EventRoom /\ retries \in 0..EventRetry /\ evLogged \subseteq happened

\* "This gets all network events": through errors, refusals and retries, an
\* event behind the mark has been logged, unless it happened during a
\* download that had done with its network, or its network was refused.
NoEventSkipped == \A e \in happened : e[2] <= mark => e \in evLogged \cup excused

\* The network events keep their types, and none is skipped.
EventsInv == EventsTypeOK /\ NoEventSkipped

\* Every download ends, and with the context the goroutine.
DownloadOver == phase \in IF evCancelled THEN {"done"} ELSE {"select", "done"}
DownloadsEnd == []<>DownloadOver
=============================================================================

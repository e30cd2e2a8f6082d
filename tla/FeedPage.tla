-------------------------------- MODULE FeedPage --------------------------------
(***************************************************************************)
(* The live feed page: the buffer of events (the newest MaxBuffer), its    *)
(* copy in localStorage (the newest MaxKept), the announcements to screen  *)
(* readers, which arrivals share and a pause suppresses, and the           *)
(* simulation.  The effects of one render run in the order of the source   *)
(* and are one step.                                                       *)
(*                                                                         *)
(* The pause button stops the announcements and the scrolling, not the     *)
(* arrivals.  The simulation can be switched on only while the page is     *)
(* offline and empty, goes on once the socket is connected, and can be     *)
(* switched off only while the page is offline and empty.                  *)
(***************************************************************************)
EXTENDS LiveSocket, SequencesExt

CONSTANTS
  MaxBuffer,      \* MAX_EVENT_BUFFER
  MaxKept,        \* what is persisted, at most MaxBuffer
  MaxSimulated    \* bound: simulated events

ASSUME FeedAssumption ==
  MaxKept \in 1..MaxBuffer /\ MaxBuffer \in Nat /\ MaxSimulated \in Nat

VARIABLES
  events,      \* the buffer, newest first; a simulated event is 0
  storage,     \* localStorage
  pendingAnnouncements,
  timer,       \* the count the announcement timer will say, or None
  isPaused, simulating, bannerDismissed,
  simulated,   \* bound: counts the simulated events
  stale,       \* history: the last write to storage failed
  lastRendered, \* history: the newest event that was rendered
  clearedTo    \* history: lastRendered when the feed was last cleared

announceVars == <<pendingAnnouncements, timer>>
storeVars == <<storage, stale>>
seenVars == <<lastRendered, clearedTo>>
switchVars == <<isPaused, simulating, bannerDismissed, simulated, seenVars>>
feedVars == <<socketVars, events, announceVars, storeVars, switchVars>>

Newest(s, n) == SubSeq(s, 1, IF Len(s) < n THEN Len(s) ELSE n)

FeedInit ==
  /\ SocketInit
  /\ events = <<>> /\ storage = <<>> /\ stale = FALSE
  /\ pendingAnnouncements = 0 /\ timer = None
  /\ isPaused = FALSE /\ simulating = FALSE /\ bannerDismissed = FALSE
  /\ simulated = 0 /\ lastRendered = 0 /\ clearedTo = 0

-----------------------------------------------------------------------------
(* The controls the page shows, besides those it always shows.             *)
Controls ==
  (IF ~isConnected /\ events = <<>> THEN {"simulate"} ELSE {})
  \cup (IF events # <<>> THEN {"clear"} ELSE {})
  \cup (IF ~isConnected /\ (everConnected \/ events # <<>>) /\ ~bannerDismissed
        THEN {"retry", "dismiss"} ELSE {})

(* A write to localStorage, which may fail, and is then forgotten.         *)
Write(list) ==
  \/ storage' = list /\ stale' = FALSE
  \/ stale' = TRUE /\ UNCHANGED storage

(* The effect that persists the buffer.                                    *)
Persist(list) ==
  IF list = <<>> THEN UNCHANGED storeVars
  ELSE Write(Newest(list, MaxKept))

(* prependEvent and the effects that follow: the buffer is cut, persisted, *)
(* and the announcement timer is set anew with the arrivals so far.        *)
PrependEvent(e) ==
  /\ events' = Newest(<<e>> \o events, MaxBuffer)
  /\ Persist(events')
  /\ pendingAnnouncements' = pendingAnnouncements + 1
  /\ timer' = IF isPaused THEN timer ELSE pendingAnnouncements + 1

(* The render that finds a new lastEvent.                                  *)
Render ==
  /\ lastEvent # None
  /\ lastEvent' = None
  /\ PrependEvent(lastEvent)
  /\ lastRendered' = lastEvent
  /\ UNCHANGED <<serverVars, socket, link, attempts, wire, isConnected,
                 everConnected, overwritten, since, isPaused, simulating,
                 bannerDismissed, simulated, clearedTo>>

Simulate ==
  /\ simulating /\ simulated < MaxSimulated
  /\ simulated' = simulated + 1
  /\ PrependEvent(0)
  /\ UNCHANGED <<socketVars, isPaused, simulating, bannerDismissed, seenVars>>

ToggleSimulation ==
  /\ "simulate" \in Controls
  /\ simulating' = ~simulating
  /\ UNCHANGED <<socketVars, events, announceVars, storeVars, isPaused,
                 bannerDismissed, simulated, seenVars>>

(* Every 10 s the relative times are renewed, and the buffer persisted.    *)
RefreshTimes ==
  /\ Persist(events)
  /\ UNCHANGED <<socketVars, events, announceVars, switchVars>>

Announce ==
  /\ timer # None
  /\ timer' = None /\ pendingAnnouncements' = 0
  /\ UNCHANGED <<socketVars, events, storeVars, switchVars>>

(* Seeded bug: the effect that drops the counts runs before the one that   *)
(* sets the timer with them.                                               *)
TogglePauseDropsFirst ==
  /\ isPaused' = ~isPaused
  /\ pendingAnnouncements' = 0
  /\ timer' = IF isPaused /\ pendingAnnouncements > 0
              THEN pendingAnnouncements ELSE None
  /\ UNCHANGED <<socketVars, events, storeVars, simulating, bannerDismissed,
                 simulated, seenVars>>

(* The pause button: its effects clear the timer and drop the count.       *)
TogglePause ==
  /\ isPaused' = ~isPaused
  /\ pendingAnnouncements' = 0 /\ timer' = None
  /\ UNCHANGED <<socketVars, events, storeVars, simulating, bannerDismissed,
                 simulated, seenVars>>

(* clearFeed: the removal from storage may fail as well.                   *)
ClearFeed ==
  /\ "clear" \in Controls
  /\ events' = <<>> /\ clearedTo' = lastRendered
  /\ Write(<<>>)
  /\ UNCHANGED <<socketVars, announceVars, isPaused, simulating,
                 bannerDismissed, simulated, lastRendered>>

DismissBanner ==
  /\ "dismiss" \in Controls
  /\ bannerDismissed' = TRUE
  /\ UNCHANGED <<socketVars, events, announceVars, storeVars, isPaused,
                 simulating, simulated, seenVars>>

(* An event that was not rendered is still rendered.                       *)
Retry ==
  /\ "retry" \in Controls
  /\ NewSocket
  /\ UNCHANGED <<everConnected, lastEvent, overwritten, since, events, announceVars,
                 storeVars, switchVars>>

(* The page is left and opened again: state is lost, storage is restored.  *)
Reopen ==
  /\ NewSocket /\ everConnected' = FALSE /\ lastEvent' = None /\ overwritten' = {}
  /\ events' = Newest(storage, MaxBuffer)
  /\ Persist(events')
  /\ pendingAnnouncements' = 0 /\ timer' = None
  /\ isPaused' = FALSE /\ simulating' = FALSE /\ bannerDismissed' = FALSE
  /\ UNCHANGED <<simulated, seenVars, since>>

(* The hook's steps; connecting takes the dismissal back.                  *)
Hook ==
  /\ SocketNext
  /\ bannerDismissed' = (bannerDismissed /\ (isConnected' => isConnected))
  /\ UNCHANGED <<events, announceVars, storeVars, isPaused, simulating,
                 simulated, seenVars>>

FeedNext ==
  \/ Hook \/ Render \/ Simulate \/ ToggleSimulation \/ RefreshTimes \/ Announce
  \/ TogglePause \/ ClearFeed \/ DismissBanner \/ Retry \/ Reopen

-----------------------------------------------------------------------------
(* The feed holds no event twice and the newest first, whatever breaks,    *)
(* reconnections and restorations did.                                     *)
NewestFirst ==
  \A i, j \in 1..Len(events) :
    (i < j /\ events[i] # 0 /\ events[j] # 0) => events[i] > events[j]

(* While a connection lasts, no event is lost but one that was replaced in *)
(* the hook's slot before a render, one that had its turn before the feed  *)
(* was cleared, and one the buffer cut for newer or simulated ones.        *)
NoneLost ==
  (socket # None /\ conn[socket] = "open") =>
    \A e \in (since + 1)..published :
      \/ e \in Range(wire) \cup {lastEvent} \cup Range(events) \cup overwritten
      \/ e <= clearedTo
      \/ Len(events) = MaxBuffer /\ \A i \in 1..MaxBuffer : events[i] = 0 \/ events[i] > e

(* Storage is the head of the buffer, except after a write that failed.    *)
StorageMirrors == stale \/ storage = Newest(events, MaxKept)

(* The announcement under way says what arrived since the last one or      *)
(* since the feed was resumed, and there is none while it is paused.       *)
AnnouncedOnce == timer # None => ~isPaused /\ timer = pendingAnnouncements

FeedHolds ==
  /\ LimiterCounts /\ StoppedMeansGivenUp
  /\ NewestFirst /\ NoneLost /\ StorageMirrors /\ AnnouncedOnce
=============================================================================

------------------------------- MODULE Audio -------------------------------
(***************************************************************************)
(* The audio-out driver front end (src/src/drivers/audio_out/main.cc).   *)
(*                                                                         *)
(* One session per channel (LEFT, RIGHT).  Sessions are made and          *)
(* destroyed by the single entrypoint thread "audio_ep", which also       *)
(* serves flush().  The playback thread (Root::entry) takes one unit of   *)
(* channel_sema per channel, reads both sessions from channel_acquired,   *)
(* takes a packet from each, plays them, acknowledges them and gives the  *)
(* units back.  A session's constructor gives a unit, its destructor      *)
(* takes one before it clears channel_acquired.                           *)
(*                                                                         *)
(* channel_sema is a Genode Semaphore: down() decrements the count and    *)
(* blocks, queued in FIFO order, when the count went negative; up()       *)
(* increments it and, when it was negative, wakes the first queued        *)
(* thread, which then owns the unit.  A session is represented by the     *)
(* incarnation bit of its channel, enough to tell a destroyed session     *)
(* from its successor.  Packets are counted per channel: submitted and    *)
(* not yet taken (sub), taken by the playback thread and not yet          *)
(* acknowledged (flight).                                                 *)
(***************************************************************************)
EXTENDS Integers, Sequences

CONSTANTS
    Left, Right,   \* the channel numbers LEFT and RIGHT
    QueueSize,     \* packets a session's stream holds
    NULL,
    CloseLast      \* the parent may close the only open session

Channels == {Left, Right}

VARIABLES
    acquired,   \* channel_acquired: the channel's session, or NULL
    gen,        \* incarnation bit of the channel's latest session
    cnt,        \* channel_sema's count
    waiters,    \* threads blocked in channel_sema.down(), FIFO
    ep,         \* entrypoint: "idle" | "wait" (in ~Session_component's
                \* down) | "clear" (past it)
    epch,       \* the channel whose session the entrypoint destroys
    pb,         \* playback thread: "down" | "wait" | "read" | "getL" |
                \* "getR" | "ack" | "up"
    held,       \* units of channel_sema the playback thread owns
    snap,       \* the sessions the playback thread read at line 160
    sub,        \* per channel: packets submitted, not yet taken
    flight,     \* per channel: packets taken, not yet acknowledged
    audio_out_active  \* main() found the ALSA device; fixed after start-up

vars == <<acquired, gen, cnt, waiters, ep, epch, pb, held, snap, sub, flight,
          audio_out_active>>

Init ==
    /\ acquired = [c \in Channels |-> NULL]
    /\ gen = [c \in Channels |-> 0]
    /\ cnt = 0 /\ waiters = <<>>
    /\ ep = "idle" /\ epch = NULL
    /\ pb = "down" /\ held = 0
    /\ snap = [c \in Channels |-> NULL]
    /\ sub = [c \in Channels |-> 0]
    /\ flight = [c \in Channels |-> 0]
    /\ audio_out_active \in BOOLEAN   \* dde_linux26_audio_init (lines 233-240)

-----------------------------------------------------------------------------
(* Entrypoint.                                                             *)

\* A session request is Unavailable unless the driver started
\* (_create_session, lines 200-201) and, in Root_policy::aquire, when its
\* channel has a session (the quota and channel-name checks pass for the
\* requests modelled).
Aquire(ch) == audio_out_active /\ acquired[ch] = NULL

\* A session request that aquire refuses (Root::Unavailable): the
\* entrypoint answers it and nothing changes.
Refused(ch) ==
    /\ ep = "idle"
    /\ ~Aquire(ch)
    /\ UNCHANGED vars

\* Session_component(): register the session in channel_acquired, then
\* channel_sema.up(), which hands the unit to the playback thread when it
\* is blocked in down().
Construct(ch) ==
    /\ acquired' = [acquired EXCEPT ![ch] = 1 - gen[ch]]
    /\ gen' = [gen EXCEPT ![ch] = 1 - gen[ch]]
    /\ sub' = [sub EXCEPT ![ch] = 0]
    /\ flight' = [flight EXCEPT ![ch] = 0]
    /\ cnt' = cnt + 1
    /\ IF cnt < 0
       THEN /\ waiters' = Tail(waiters)
            /\ held' = held + 1
            /\ pb' = IF held + 1 = 2 THEN "read" ELSE "down"
       ELSE UNCHANGED <<waiters, held, pb>>

\* Session creation without the aquire check.
OpenUnchecked(ch) ==
    /\ ep = "idle"
    /\ Construct(ch)
    /\ UNCHANGED <<ep, epch, snap>>

\* Root_component::session: aquire, then _create_session, which
\* constructs the session.
Open(ch) ==
    /\ ep = "idle"
    /\ Aquire(ch)
    /\ Construct(ch)
    /\ UNCHANGED <<ep, epch, snap>>

\* A destructor that clears channel_acquired before its down().
CloseDownClearFirst(ch) ==
    /\ ep = "idle"
    /\ acquired[ch] # NULL
    /\ CloseLast \/ \E c \in Channels \ {ch} : acquired[c] # NULL
    /\ epch' = ch
    /\ acquired' = [acquired EXCEPT ![ch] = NULL]
    /\ cnt' = cnt - 1
    /\ IF cnt > 0
       THEN ep' = "clear" /\ UNCHANGED waiters
       ELSE ep' = "wait" /\ waiters' = Append(waiters, "ep")
    /\ UNCHANGED <<gen, pb, held, snap, sub, flight>>

\* The parent closes a session: ~Session_component runs channel_sema.down()
\* on the entrypoint.  Without CloseLast the parent keeps one session open.
CloseDown(ch) ==
    /\ ep = "idle"
    /\ acquired[ch] # NULL
    /\ CloseLast \/ \E c \in Channels \ {ch} : acquired[c] # NULL
    /\ epch' = ch
    /\ cnt' = cnt - 1
    /\ IF cnt > 0
       THEN ep' = "clear" /\ UNCHANGED waiters
       ELSE ep' = "wait" /\ waiters' = Append(waiters, "ep")
    /\ UNCHANGED <<acquired, gen, pb, held, snap, sub, flight>>

\* ~Session_component past its down(): clear channel_acquired and free the
\* packet buffer.
CloseClear ==
    /\ ep = "clear"
    /\ acquired' = [acquired EXCEPT ![epch] = NULL]
    /\ sub' = [sub EXCEPT ![epch] = 0]
    /\ flight' = [flight EXCEPT ![epch] = 0]
    /\ ep' = "idle" /\ epch' = NULL
    /\ UNCHANGED <<gen, cnt, waiters, pb, held, snap>>

\* flush(): acknowledge every packet the client submitted.
Flush(ch) ==
    /\ ep = "idle"
    /\ acquired[ch] # NULL
    /\ sub[ch] > 0
    /\ sub' = [sub EXCEPT ![ch] = 0]
    /\ UNCHANGED <<acquired, gen, cnt, waiters, ep, epch, pb, held, snap, flight>>

\* A client submits a packet to its session's stream.
Submit(ch) ==
    /\ acquired[ch] # NULL
    /\ sub[ch] + flight[ch] < QueueSize
    /\ sub' = [sub EXCEPT ![ch] = sub[ch] + 1]
    /\ UNCHANGED <<acquired, gen, cnt, waiters, ep, epch, pb, held, snap, flight>>

-----------------------------------------------------------------------------
(* Playback thread, Root::entry.                                           *)

\* One channel_sema.down() of the loop at lines 157-158.
PbDown ==
    /\ pb = "down"
    /\ cnt' = cnt - 1
    /\ IF cnt > 0
       THEN /\ held' = held + 1
            /\ pb' = IF held + 1 = 2 THEN "read" ELSE "down"
            /\ UNCHANGED waiters
       ELSE pb' = "wait" /\ waiters' = Append(waiters, "pb") /\ UNCHANGED held
    /\ UNCHANGED <<acquired, gen, ep, epch, snap, sub, flight>>

\* Lines 160-161: read the sessions of both channels.
PbRead ==
    /\ pb = "read"
    /\ snap' = acquired
    /\ pb' = "getL"
    /\ UNCHANGED <<acquired, gen, cnt, waiters, ep, epch, held, sub, flight>>

\* Lines 166 and 169: the blocking get_packet on the left, then the right
\* session read at line 160.
PbGet(ch) ==
    /\ pb = IF ch = Left THEN "getL" ELSE "getR"
    /\ sub[ch] > 0
    /\ sub' = [sub EXCEPT ![ch] = sub[ch] - 1]
    /\ flight' = [flight EXCEPT ![ch] = flight[ch] + 1]
    /\ pb' = IF ch = Left THEN "getR" ELSE "ack"
    /\ UNCHANGED <<acquired, gen, cnt, waiters, ep, epch, held, snap>>

\* Lines 176-186: write the period to ALSA (retried until it succeeds) and
\* acknowledge both packets.
PbAck ==
    /\ pb = "ack"
    /\ flight' = [c \in Channels |-> 0]
    /\ pb' = "up"
    /\ UNCHANGED <<acquired, gen, cnt, waiters, ep, epch, held, snap, sub>>

\* One channel_sema.up() of the loop at lines 188-189; it hands the unit to
\* the entrypoint when a destructor waits for it.
PbUp ==
    /\ pb = "up"
    /\ held' = held - 1
    /\ pb' = IF held = 1 THEN "down" ELSE "up"
    /\ cnt' = cnt + 1
    /\ IF cnt < 0
       THEN waiters' = Tail(waiters) /\ ep' = "clear"
       ELSE UNCHANGED <<waiters, ep>>
    /\ UNCHANGED <<acquired, gen, epch, snap, sub, flight>>

Next ==
    /\ \/ \E ch \in Channels : Open(ch) \/ CloseDown(ch) \/ Flush(ch) \/ Submit(ch)
       \/ CloseClear
       \/ PbDown \/ PbRead \/ PbAck \/ PbUp
       \/ \E ch \in Channels : PbGet(ch) \/ Refused(ch)
    /\ UNCHANGED audio_out_active

Spec == Init /\ [][Next]_vars

-----------------------------------------------------------------------------
TypeOK ==
    /\ acquired \in [Channels -> {0, 1, NULL}]
    /\ gen \in [Channels -> {0, 1}]
    /\ cnt \in -2..2
    /\ waiters \in Seq({"ep", "pb"}) /\ Len(waiters) <= 2
    /\ ep \in {"idle", "wait", "clear"} /\ epch \in Channels \cup {NULL}
    /\ pb \in {"down", "wait", "read", "getL", "getR", "ack", "up"}
    /\ held \in 0..2
    /\ snap \in [Channels -> {0, 1, NULL}]
    /\ sub \in [Channels -> 0..QueueSize]
    /\ flight \in [Channels -> 0..1]
    /\ audio_out_active \in BOOLEAN

\* From reading channel_acquired at line 160 until it gives its units back,
\* the playback thread works on two live sessions, the ones registered
\* now: no session it uses is NULL, and no destructor has run on one of
\* them (~Session_component takes a unit of channel_sema before clearing
\* channel_acquired).
SnapshotCurrent ==
    pb \in {"getL", "getR", "ack"} =>
        \A c \in Channels : snap[c] # NULL /\ snap[c] = acquired[c]

====

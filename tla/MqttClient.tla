----------------------------- MODULE MqttClient -----------------------------
(***************************************************************************)
(* The MQTT client of the board, src/src/mqtt/mqtt_client.c, as fsm_tick   *)
(* drives it: a connection that is opened again every minute, a receive    *)
(* buffer that TCP fills with pieces of packets, a loop that takes at most *)
(* ten packets out of it per poll, and a ping every keep-alive.            *)
(*                                                                         *)
(* A packet is cut into two units, the first of which holds its header:    *)
(* enough to arrive in parts, glued together, or not to the end.  What     *)
(* matters of the bytes is which packet each belongs to.  QoS and packet   *)
(* identifiers have no influence on what is received and are left out.     *)
(***************************************************************************)
EXTENDS Integers, Sequences

CONSTANTS
  MaxLoops,    \* max_loops of mqtt_poll
  Chunk,       \* sizeof tmp: units that one recv may take
  Capacity,    \* sizeof rx_buf
  Keepalive,   \* keepalive_sec
  RetryAfter,  \* seconds between two attempts to connect
  Greeting,    \* answers to what is sent at once: two SUBACK and a PUBACK
  MaxMsgs,     \* bound: messages the broker ever sends
  MaxOwed,     \* bound: answers the broker may be behind
  MaxNet,      \* bound: units on their way to the board
  MaxCuts      \* bound: broken connections, lost networks and restarts

ASSUME ConstantsOK ==
  /\ MaxLoops \in Nat \ {0} /\ Chunk \in Nat \ {0} /\ Capacity \in Nat
  /\ Keepalive \in Nat /\ RetryAfter \in Nat
  /\ Greeting \in Nat /\ MaxMsgs \in Nat /\ MaxOwed \in Nat
  /\ MaxNet \in Nat /\ MaxCuts \in Nat

VARIABLES
  pc,         \* "run", or "connack" while mqtt_connect waits for the CONNACK
  connected,  \* ctx->connected
  rx,         \* the units in rx_buf
  pingAge,    \* age of last_ping
  retryAge,   \* age of last_reconnect
  wifi,       \* wlan0: "absent", "down" or "up"
  tcp,        \* "none", "open", or "broken": the broker or the network is gone
  net,        \* the units on their way to the board
  owed,       \* answers the broker owes: SUBACK, PUBACK, PINGRESP
  session,    \* of the broker: "none", "asked" (CONNECT came in) or "up"
  sent,       \* messages the broker has sent so far
  cuts,       \* broken connections and restarts so far
  got,        \* history: the last message of this connection called back whole,
              \* as long as the connection is clean
  clean       \* history: this connection began with an empty rx_buf, and
              \* no unit of it was dropped

clientVars == <<pc, connected, rx, pingAge, retryAge>>
linkVars == <<wifi, tcp, net, owed, session, sent, cuts>>
histVars == <<got, clean>>
vars == <<clientVars, linkVars, histVars>>

Kinds == {"connack", "refused", "message", "answer"}
Packet(kind, n) == << [kind |-> kind, n |-> n, part |-> 1],
                      [kind |-> kind, n |-> n, part |-> 2] >>
Least(a, b) == IF a <= b THEN a ELSE b
Older(age, limit) == Least(age + 1, limit)

(***************************************************************************)
(* Reading.  What a poll has done so far is a record of the fields that    *)
(* handle_packet changes.                                                  *)
(***************************************************************************)
Reading(buf) == [rx |-> buf, connected |-> connected, got |-> got]

Whole(u, v) == u.part = 1 /\ v = [u EXCEPT !.part = 2]

Consumed(r, k) == [r EXCEPT !.rx = SubSeq(@, k + 1, Len(@))]

\* handle_packet on a header and the unit that follows, whatever it is.
Handled(r) ==
  LET u == r.rx[1]
      rest == Consumed(r, 2)
  IN  CASE u.kind = "connack" ->
             { [rest EXCEPT !.connected = c] :
                 c \in IF Whole(u, r.rx[2]) THEN {TRUE} ELSE BOOLEAN }
        [] u.kind = "refused" ->
             { [rest EXCEPT !.connected = c] :
                 c \in IF Whole(u, r.rx[2]) THEN {FALSE} ELSE BOOLEAN }
        [] u.kind = "message" ->
             { IF Whole(u, r.rx[2]) THEN [rest EXCEPT !.got = u.n] ELSE rest }
        [] OTHER -> {rest}

\* handle_packet on bytes that are no header: they look incomplete or
\* malformed for ever, or like some packet up to the end of the buffer.
Misread(r) ==
  {r} \cup { [r EXCEPT !.rx = <<>>, !.connected = c] : c \in BOOLEAN }

HandlePacket(r) ==
  IF Len(r.rx) < 2 THEN {r}
  ELSE IF r.rx[1].part = 1 THEN Handled(r) ELSE Misread(r)

\* The loop of mqtt_poll.
HandlePackets(r) ==
  LET after[i \in 0..MaxLoops] ==
        IF i = 0 THEN {r} ELSE UNION {HandlePacket(s) : s \in after[i - 1]}
  IN  after[MaxLoops]

\* recv of k units, appended if there is room, and dropped if there is not.
Fits(k) == Len(rx) + k < Capacity

\* Mutant: the buffer is written from its start.
ReceivedAfresh(k) == SubSeq(net, 1, k)

Received(k) == IF Fits(k) THEN rx \o SubSeq(net, 1, k) ELSE rx

Receive(k) == /\ net' = SubSeq(net, k + 1, Len(net))
              /\ clean' = (clean /\ Fits(k))

Becomes(r) == /\ rx' = r.rx
              /\ connected' = r.connected
              /\ got' = IF clean' THEN r.got ELSE got

\* Mutant: no ping while something is left to read.
PingDueUnread(c) == c /\ pingAge >= Keepalive /\ rx = <<>>

\* The end of mqtt_poll: a ping if it is time, and if the send succeeds.
PingDue(c) == c /\ pingAge >= Keepalive

KeepAlive(c) ==
  \/ /\ PingDue(c)
     /\ pingAge' = 0
     /\ owed' = IF tcp = "open" THEN owed + 1 ELSE owed
  \/ /\ ~PingDue(c) \/ tcp = "broken"
     /\ UNCHANGED <<pingAge, owed>>

(***************************************************************************)
(* fsm_tick's use of the client.                                           *)
(***************************************************************************)
Polls == pc = "run" /\ wifi # "absent" /\ connected

PollRead ==
  /\ Polls
  /\ \E k \in 1..Least(Chunk, Len(net)) :
       /\ Receive(k)
       /\ \E r \in HandlePackets(Reading(Received(k))) :
            Becomes(r) /\ KeepAlive(r.connected)
  /\ UNCHANGED <<pc, retryAge, wifi, tcp, session, sent, cuts>>

\* select times out: only the keep-alive is looked after.
PollIdle ==
  /\ Polls
  /\ net = <<>>
  /\ PingDue(TRUE)
  /\ KeepAlive(TRUE)
  /\ UNCHANGED <<pc, connected, rx, retryAge, histVars>>
  /\ UNCHANGED <<wifi, tcp, net, session, sent, cuts>>

\* recv returns 0 or an error that is not transient.
Closed == /\ tcp' = "none"
          /\ net' = <<>>
          /\ owed' = 0
          /\ session' = "none"

\* Mutant: the socket is closed and connected stays set.
HangupUnnoticed == UNCHANGED connected /\ Closed

Hangup == connected' = FALSE /\ Closed

PollBroken ==
  /\ Polls
  /\ tcp \in {"none", "broken"}
  /\ net = <<>>
  /\ Hangup
  /\ UNCHANGED <<pc, rx, pingAge, retryAge, wifi, sent, cuts, histVars>>

MayConnect == /\ pc = "run"
              /\ ~connected
              /\ wifi = "up"
              /\ retryAge >= RetryAfter

\* mqtt_connect: the TCP connection stands and CONNECT is sent.
Connect ==
  /\ MayConnect
  /\ pc' = "connack"
  /\ retryAge' = 0
  /\ tcp' = "open"
  /\ net' = <<>>
  /\ owed' = 0
  /\ session' = "asked"
  /\ got' = sent
  /\ clean' = (rx = <<>>)
  /\ UNCHANGED <<connected, rx, pingAge, wifi, sent, cuts>>

ConnectFails ==
  /\ MayConnect
  /\ retryAge' = 0
  /\ Closed
  /\ UNCHANGED <<pc, connected, rx, pingAge, wifi, sent, cuts, histVars>>

\* One round of the wait for the CONNACK: one packet is handled.  When it is
\* there, fsm_tick subscribes twice and publishes a status.
ConnackRead ==
  /\ pc = "connack"
  /\ \E k \in 1..Least(Chunk, Len(net)) :
       /\ Receive(k)
       /\ \E r \in HandlePacket(Reading(Received(k))) :
            /\ Becomes(r)
            /\ IF r.connected
               THEN /\ pc' = "run"
                    /\ pingAge' = 0
                    /\ owed' = IF tcp = "open" THEN Greeting ELSE 0
               ELSE UNCHANGED <<pc, pingAge, owed>>
  /\ UNCHANGED <<retryAge, wifi, tcp, session, sent, cuts>>

\* Five seconds are over, and nothing came that has not been read.
ConnackTimeout ==
  /\ pc = "connack"
  /\ net = <<>>
  /\ pc' = "run"
  /\ Closed
  /\ UNCHANGED <<connected, rx, pingAge, retryAge, wifi, sent, cuts, histVars>>

\* fsm_stop and a new process, with check_mqtt's first attempt to come.
Restart ==
  /\ cuts < MaxCuts
  /\ cuts' = cuts + 1
  /\ pc' = "run" /\ connected' = FALSE /\ rx' = <<>>
  /\ pingAge' = 0 /\ retryAge' = RetryAfter
  /\ Closed
  /\ UNCHANGED <<wifi, sent, histVars>>

(***************************************************************************)
(* The broker, the network and the clock.                                  *)
(***************************************************************************)
Send(p) == Len(net) + Len(p) <= MaxNet /\ net' = net \o p

Accept ==
  /\ tcp = "open" /\ session = "asked"
  /\ session' = "up"
  /\ Send(Packet("connack", 0))
  /\ UNCHANGED <<clientVars, wifi, tcp, owed, sent, cuts, histVars>>

Refuse ==
  /\ tcp = "open" /\ session = "asked"
  /\ session' = "none"
  /\ tcp' = "broken"
  /\ Send(Packet("refused", 0))
  /\ UNCHANGED <<clientVars, wifi, owed, sent, cuts, histVars>>

Answer ==
  /\ tcp = "open" /\ owed > 0
  /\ owed' = owed - 1
  /\ Send(Packet("answer", 0))
  /\ UNCHANGED <<clientVars, wifi, tcp, session, sent, cuts, histVars>>

\* A message for bookshelf/cmd/find or /refresh, once the client subscribed.
Publish ==
  /\ tcp = "open" /\ session = "up" /\ pc = "run" /\ sent < MaxMsgs
  /\ sent' = sent + 1
  /\ Send(Packet("message", sent'))
  /\ UNCHANGED <<clientVars, wifi, tcp, owed, session, cuts, histVars>>

\* The connection breaks, possibly in the middle of a packet.
Cut ==
  /\ tcp = "open" /\ cuts < MaxCuts
  /\ tcp' = "broken"
  /\ cuts' = cuts + 1
  /\ owed' = 0
  /\ session' = "none"
  /\ \E k \in 0..Len(net) : net' = SubSeq(net, 1, k)
  /\ UNCHANGED <<clientVars, wifi, sent, histVars>>

WifiLost ==
  /\ wifi = "up" /\ cuts < MaxCuts
  /\ cuts' = cuts + 1
  /\ wifi' \in {"absent", "down"}
  /\ UNCHANGED <<clientVars, tcp, net, owed, session, sent, histVars>>

WifiBack ==
  /\ wifi # "up"
  /\ wifi' = "up"
  /\ UNCHANGED <<clientVars, tcp, net, owed, session, sent, cuts, histVars>>

Second ==
  /\ owed < MaxOwed
  /\ pingAge' = Older(pingAge, Keepalive)
  /\ retryAge' = Older(retryAge, RetryAfter)
  /\ UNCHANGED <<pc, connected, rx, linkVars, histVars>>

Init ==
  /\ pc = "run" /\ connected = FALSE /\ rx = <<>>
  /\ pingAge = 0 /\ retryAge = RetryAfter
  /\ wifi = "up" /\ tcp = "none" /\ net = <<>> /\ owed = 0
  /\ session = "none" /\ sent = 0 /\ cuts = 0
  /\ got = 0 /\ clean = TRUE

Next ==
  \/ PollRead \/ PollIdle \/ PollBroken
  \/ Connect \/ ConnectFails \/ ConnackRead \/ ConnackTimeout \/ Restart
  \/ Accept \/ Refuse \/ Answer \/ Publish \/ Cut \/ WifiLost \/ WifiBack
  \/ Second

Spec == Init /\ [][Next]_vars

\* The loop of main.c, the clock, and a broker that answers what it owes.  It
\* may be down or late now and then, but not each time it is asked.
FairSpec ==
  /\ Spec
  /\ WF_vars(PollRead) /\ WF_vars(PollIdle) /\ WF_vars(PollBroken)
  /\ SF_vars(Connect) /\ WF_vars(ConnackRead) /\ WF_vars(ConnackTimeout)
  /\ SF_vars(Accept) /\ SF_vars(Answer) /\ SF_vars(Second)

(***************************************************************************)
(* Properties.                                                             *)
(***************************************************************************)
\* The headers of messages in a stream, and the messages they begin.
Heads(s) == {i \in 1..Len(s) : s[i].kind = "message" /\ s[i].part = 1}
Numbers(s) == {s[i].n : i \in Heads(s)}

InOrder(s) == \A i, j \in Heads(s) : i < j => s[i].n < s[j].n

InFrame(s) == \A i \in 1..Len(s) :
                IF i % 2 = 1 THEN s[i].part = 1 ELSE Whole(s[i - 1], s[i])

\* Framing survives however TCP splits and glues packets, however many come
\* at once and whenever the connection breaks: unless a connection began
\* with a rest of the one before, or rx_buf overflowed, the buffer and the
\* stream behind it are whole packets in their order, every message before
\* them was called back, whole, and none twice.
StreamIntact ==
  clean /\ pc = "run" /\ connected =>
    LET ahead == rx \o net
    IN  /\ InFrame(ahead) /\ InOrder(ahead)
        /\ Numbers(ahead) \subseteq got + 1 .. sent
        /\ \A n \in Numbers(ahead) : got + 1 .. n \subseteq Numbers(ahead)
        /\ tcp = "open" => got + 1 .. sent \subseteq Numbers(ahead)

\* mqtt_poll reads the buffer only when the socket has new data, and then at
\* most max_loops packets: a message left behind in the buffer is called back
\* all the same, at the latest with the answers to the next pings, unless the
\* connection breaks.
ReceivedIsHandled ==
  <>[](wifi # "absent") => []<>(got = sent \/ ~connected \/ ~clean)

\* After any break the client is connected again, over a connection that
\* stands: it notices the break, its minute passes, and no rest of the old
\* connection stands before the CONNACK (as mqtt_connect does not empty
\* rx_buf, a rest may keep it from being seen).
Reconnects ==
  <>[](wifi = "up" /\ clean) => []<>(connected /\ tcp = "open")
=============================================================================

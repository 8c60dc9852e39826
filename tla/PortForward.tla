------------------------------ MODULE PortForward ------------------------------
(***************************************************************************)
(* The serve tasks of kaptein-core/src/portforward.rs.  A "plain" task     *)
(* (forward) opens a fresh pod stream for each local connection; a "named" *)
(* one (start_named_forward, reconnect_loop) opens a stream, serves        *)
(* connections over it one after the other, and is cancelled through a     *)
(* watch channel.  Local clients, the pod and the tokio sockets are the    *)
(* environment; the bytes of a connection are one request and the answer   *)
(* to it, each known by the client it belongs to.                          *)
(***************************************************************************)
EXTENDS Naturals, FiniteSets

CONSTANTS Client,       \* local connections to the forwarded port
          MaxOutages    \* bound: how often the pod goes away

ASSUME ForwardAssumption == MaxOutages \in Nat

VARIABLES kind,           \* "plain" or "named"
          serving,        \* where the serve task is
          cancel,         \* the watch channel: "armed", "sent" (true) or "dropped" (no sender)
          live,           \* does the task's pod stream still carry bytes
          carried,        \* the clients that stream has served
          flight,         \* requests on that stream whose answers were not read yet
          conn,           \* per client: "none", "queued" (not accepted), "open", "closed"
          asked,          \* clients that wrote their request
          unread,         \* clients whose request the task has not read
          left,           \* clients that closed their end
          got,            \* per client: whose answers it was sent
          podUp, outages  \* the pod

task == <<kind, serving, cancel>>
stream == <<live, carried, flight>>
local == <<conn, asked, unread, left, got>>
pod == <<podUp, outages>>
forwardVars == <<task, stream, local, pod>>

ForwardInit ==
  /\ kind \in {"plain", "named"}
  /\ serving = IF kind = "plain" THEN "accept" ELSE "check"
  /\ cancel = "armed"
  /\ live = FALSE /\ carried = {} /\ flight = {}
  /\ conn = [c \in Client |-> "none"]
  /\ asked = {} /\ unread = {} /\ left = {}
  /\ got = [c \in Client |-> {}]
  /\ podUp = TRUE /\ outages = 0

Goto(label) == serving' = label /\ UNCHANGED <<kind, cancel>>
\* The client whose socket the task holds.
Served == {c \in Client : conn[c] = "open"}
\* Sockets dropped by the task, or by the kernel when the listener goes.
Close(cs) == /\ conn' = [c \in Client |-> IF c \in cs THEN "closed" ELSE conn[c]]
             /\ UNCHANGED <<asked, unread, left, got>>
NoStream == live' = FALSE /\ carried' = {} /\ flight' = {}
\* What becomes of the stream when a connection ends: forward's iteration drops it,
\* reconnect_loop's inner loop keeps it for the next connection.
AfterConnection == IF kind = "plain" THEN NoStream ELSE UNCHANGED stream
--------------------------------------------------------------------------------
\* reconnect_loop: the only look at the channel's value, at the top of the loop.
Check == /\ serving = "check" /\ kind = "named"
         /\ IF cancel = "sent"
            THEN Goto("stopped") /\ Close({c \in Client : conn[c] = "queued"})
            ELSE Goto("connect") /\ UNCHANGED local
         /\ UNCHANGED <<stream, pod>>

\* pods.portforward(..) and take_stream succeed: a fresh stream.
Connect == /\ serving = "connect" /\ podUp
           /\ live' = TRUE /\ flight' = {} /\ carried' = Served
           /\ Goto(IF kind = "plain" THEN "copy" ELSE "accept")
           /\ UNCHANGED <<local, pod>>

\* Defect: a connection whose stream fails is retried instead of dropped.
ConnectFails_Retries == /\ serving = "connect"
                        /\ UNCHANGED forwardVars
\* They fail (they may, whatever the pod does): forward drops the accepted socket,
\* reconnect_loop sleeps two seconds.
ConnectFails == /\ serving = "connect"
                /\ Goto(IF kind = "plain" THEN "accept" ELSE "sleep")
                /\ Close(Served)
                /\ UNCHANGED <<stream, pod>>

\* Defect: the loop continues below the check of the channel.
Wake_SkipsCheck == /\ serving = "sleep" /\ Goto("connect")
                   /\ UNCHANGED <<stream, local, pod>>
Wake == /\ serving = "sleep" /\ Goto("check")
        /\ UNCHANGED <<stream, local, pod>>

\* listener.accept() yields a connection, in the order of the backlog or any other.
Accept(c) == /\ serving = "accept" /\ conn[c] = "queued"
             /\ conn' = [conn EXCEPT ![c] = "open"]
             /\ IF kind = "plain"
                THEN Goto("connect") /\ UNCHANGED stream
                ELSE Goto("copy") /\ carried' = carried \cup {c} /\ UNCHANGED <<live, flight>>
             /\ UNCHANGED <<asked, unread, left, got, pod>>

\* listener.accept() fails: forward's task ends, reconnect_loop drops its stream and
\* starts over.
AcceptFails == /\ serving = "accept"
               /\ IF kind = "plain"
                  THEN Goto("stopped") /\ Close({c \in Client : conn[c] = "queued"})
                  ELSE Goto("check") /\ UNCHANGED local
               /\ NoStream
               /\ UNCHANGED pod

\* cancel_rx.changed() resolves, with a new value or because the sender is gone.
Cancelled == /\ serving = "accept" /\ kind = "named" /\ cancel # "armed"
             /\ Goto("stopped") /\ Close({c \in Client : conn[c] = "queued"})
             /\ NoStream
             /\ UNCHANGED pod

\* copy_bidi, a chunk from the local socket to the stream.
CopyUp(c) == /\ serving = "copy" /\ conn[c] = "open" /\ live /\ c \in unread
             /\ unread' = unread \ {c} /\ flight' = flight \cup {c}
             /\ UNCHANGED <<task, live, carried, conn, asked, left, got, pod>>

\* copy_bidi, a chunk from the stream to the local socket.
CopyDown(c) == /\ serving = "copy" /\ conn[c] = "open" /\ live
               /\ \E a \in flight : /\ flight' = flight \ {a}
                                    /\ got' = [got EXCEPT ![c] = @ \cup {a}]
               /\ UNCHANGED <<task, live, carried, conn, asked, unread, left, pod>>

\* Defect: an inner loop accepts the next connection onto the stream of the last one.
EndCopy_Inner == /\ serving = "copy"
                 /\ ~live \/ \E c \in Served : c \in left \ unread
                 /\ \E c \in Client : conn[c] = "queued" /\ conn' = [d \in Client |->
                      IF d = c THEN "open" ELSE IF d \in Served THEN "closed" ELSE conn[d]]
                 /\ UNCHANGED <<task, stream, asked, unread, left, got, pod>>
\* copy_bidi returns: the client closed its end, or the stream did or fails.
EndCopy == /\ serving = "copy"
           /\ ~live \/ \E c \in Served : c \in left \ unread
           /\ Goto("accept") /\ Close(Served)
           /\ AfterConnection
           /\ UNCHANGED pod
--------------------------------------------------------------------------------
\* The environment.
Dial(c) == /\ serving # "stopped" /\ conn[c] = "none"
           /\ conn' = [conn EXCEPT ![c] = "queued"]
           /\ UNCHANGED <<task, stream, asked, unread, left, got, pod>>
Ask(c) == /\ conn[c] \in {"queued", "open"} /\ c \notin asked \cup left
          /\ asked' = asked \cup {c} /\ unread' = unread \cup {c}
          /\ UNCHANGED <<task, stream, conn, left, got, pod>>
Hangup(c) == /\ conn[c] \in {"queued", "open"} /\ c \notin left
             /\ left' = left \cup {c}
             /\ UNCHANGED <<task, stream, conn, asked, unread, got, pod>>
\* The stream closes: the pod's process closed the connection, or the API server did.
StreamDies == /\ live /\ live' = FALSE /\ flight' = {}
              /\ UNCHANGED <<task, carried, local, pod>>
PodGoes == /\ podUp /\ outages < MaxOutages
           /\ podUp' = FALSE /\ outages' = outages + 1
           /\ live' = FALSE /\ flight' = {}
           /\ UNCHANGED <<task, carried, local>>
PodReturns == /\ ~podUp /\ podUp' = TRUE
              /\ UNCHANGED <<task, stream, local, outages>>
\* The holder of RunningForward sends true, or drops it.
Cancel == /\ kind = "named" /\ cancel = "armed"
          /\ cancel' \in {"sent", "dropped"}
          /\ UNCHANGED <<kind, serving, stream, local, pod>>

Serve == \/ Check \/ Connect \/ ConnectFails \/ Wake \/ Cancelled \/ EndCopy
         \/ \E c \in Client : Accept(c) \/ CopyUp(c) \/ CopyDown(c)
Environment == \/ AcceptFails \/ StreamDies \/ PodGoes \/ PodReturns \/ Cancel
               \/ \E c \in Client : Dial(c) \/ Ask(c) \/ Hangup(c)
ForwardNext == Serve \/ Environment

ForwardSpec == ForwardInit /\ [][ForwardNext]_forwardVars
\* The runtime polls the task (accept() need not fail), and no client keeps its connection for ever.
FairForwardSpec ==
  ForwardSpec /\ WF_forwardVars(Serve) /\ \A c \in Client : WF_forwardVars(Hangup(c))
\* Moreover an API server and a pod that stay up let a connect through in the end, and
\* select! picks a ready branch at random, so not for ever the other one.
LuckyForwardSpec ==
  FairForwardSpec /\ SF_forwardVars(Connect) /\ SF_forwardVars(Cancelled)
--------------------------------------------------------------------------------
\* Types; a plain task has neither a channel to look at nor a pause; the task holds one
\* socket, and only between accepting it and the end of its copy.
ForwardTypeOK ==
  /\ kind \in {"plain", "named"}
  /\ serving \in {"check", "connect", "sleep", "accept", "copy", "stopped"}
  /\ cancel \in {"armed", "sent", "dropped"}
  /\ live \in BOOLEAN /\ carried \subseteq Client /\ flight \subseteq Client
  /\ conn \in [Client -> {"none", "queued", "open", "closed"}]
  /\ asked \subseteq Client /\ unread \subseteq asked /\ left \subseteq Client
  /\ got \in [Client -> SUBSET Client]
  /\ podUp \in BOOLEAN /\ outages \in 0 .. MaxOutages
  /\ kind = "plain" => cancel = "armed" /\ serving \notin {"check", "sleep"}
  /\ Cardinality(Served) =
       IF serving = "copy" \/ (kind = "plain" /\ serving = "connect") THEN 1 ELSE 0

\* A connection through `forward` is sent answers to its own request only, however early
\* its predecessor hung up (portforward.rs:35-37, a fresh stream per connection).
PlainAnswersOwn == kind = "plain" => \A c \in Client : got[c] \subseteq {c}

\* A forward holds one socket at most and none between connections, and answers each client
\* with its own pod's words only.
OneClientAtATime == ForwardTypeOK /\ PlainAnswersOwn

\* portforward.rs:36: "a pod stream is single-use": no stream serves two connections.
StreamsAreSingleUse == Cardinality(carried) <= 1

\* A cancelled named forward (Ctrl-C in main.rs sends true) stops, from a pause, an outage
\* or a connection being served, once the clients let go.
CancelledStops == cancel = "sent" ~> serving = "stopped"

\* `forward` gets to every connection in its backlog, whatever becomes of the others and
\* of the pod.
PlainServes == \A c \in Client : kind = "plain" /\ conn[c] = "queued" ~> conn[c] # "queued"

\* portforward.rs:222-223: "sending `true` (or dropping the sender) stops the loop".
DroppingStops == cancel = "dropped" ~> serving = "stopped"

\* portforward.rs:219-220: "if the upstream pod stream drops, this re-establishes the
\* port-forward": with the pod back for good, a named forward is infinitely often on a
\* live stream, or it was stopped.
ReconnectsAfterDrop == <>[]podUp /\ [](cancel = "armed") /\ [](kind = "named") => []<>live
================================================================================

---------------------------- MODULE NetworkProofs ----------------------------
(***************************************************************************)
(* Theorems about coming up and staying online, for any networks, any      *)
(* number of connect_tasks, boots, socket errors and lost connections, and *)
(* an event queue of any length.                                           *)
(***************************************************************************)
EXTENDS Network, SequenceTheorems, TLAPS

Kinds == {"sta_start", "disconnected", "got_ip"}

\* The event task is between its two handlers only for the event it works on.
EventAtHand == evt = "got_ip" => events # <<>> /\ Head(events) = "got_ip"

\* Posting keeps the events of the queue and their order; handling removes the
\* first.
LEMMA PostEvent ==
  ASSUME events \in Seq(Kinds), NEW e \in Kinds, Post(e)
  PROVE  /\ events' \in Seq(Kinds) /\ events' # <<>>
         /\ Len(events) \in Nat /\ Len(events') = Len(events) + 1
         /\ \A i \in 1 .. Len(events) : events'[i] = events[i]
         /\ events'[Len(events) + 1] = e
         /\ events # <<>> => Head(events') = Head(events)
<1>1. Head(Append(events, e)) = IF events = <<>> THEN e ELSE Head(events)
  BY HeadTailAppend
<1> QED
  BY <1>1, AppendProperties, LenProperties DEF Post

\* Taking the event at the head of the queue moves the others up.
LEMMA TakeEvent ==
  ASSUME events \in Seq(Kinds), events # <<>>, events' = Tail(events)
  PROVE  /\ events' \in Seq(Kinds)
         /\ Len(events) \in Nat \ {0} /\ Len(events') = Len(events) - 1
         /\ \A i \in 1 .. Len(events') : events'[i] = events[i + 1]
         /\ Head(events) = events[1]
BY HeadTailProperties, EmptySeq

-----------------------------------------------------------------------------
(***************************************************************************)
(* Type correctness.                                                       *)
(***************************************************************************)
\* A reboot leaves nothing but the configuration, and is counted.
LEMMA RebootType ==
  ASSUME NetTypeOK, NEW refusal \in BOOLEAN, Reboot(refusal)
  PROVE  NetTypeOK' /\ EventAtHand'
<1>1. <<>> \in Seq(Kinds)
  BY EmptySeq
<1>2. boots' \in 1 .. MaxBoots
  BY NetBoundsAssumption DEF Reboot, NetTypeOK
<1> QED
  BY <1>1, <1>2 DEF Reboot, NetTypeOK, EventAtHand, Kinds, NoTask

\* The event queue under any step but a reboot.
LEMMA QueueStep ==
  ASSUME NetTypeOK, EventAtHand, [NetNext]_netvars, ~\E r \in BOOLEAN : Reboot(r)
  PROVE  \/ UNCHANGED events
         \/ \E e \in Kinds : Post(e) /\ evt' = evt
         \/ /\ StationStarted \/ StationDisconnected \/ SetConnectedBit
            /\ events # <<>> /\ events' = Tail(events) /\ evt' = "idle"
<1>1. CASE Main
  BY <1>1 DEF Main, MainWifi, MainConnected, MainTimeout, MainStartAp, MainStartDns,
              MainStartWeb, Start, wifi, loop, Kinds
<1>2. CASE EventTask
  BY <1>2 DEF EventTask, StationStarted, StationDisconnected, GotIp, SetConnectedBit,
              EventAtHand
<1>3. CASE \E t \in Connects : PostConnect(t) \/ ConnectTask(t)
  BY <1>3 DEF PostConnect, ConnectTask, SetMode, SetConfig, ConnectSta, loop, wifi, Kinds
<1>4. CASE Joins \/ Fails \/ Breaks
  BY <1>4 DEF Joins, Fails, Breaks, Kinds
<1>5. CASE DnsBind \/ DnsFails \/ UdpBind \/ UdpFails \/ PostReset \/ Restore
           \/ UNCHANGED netvars
  BY <1>5 DEF DnsBind, DnsFails, UdpBind, UdpFails, PostReset, Restore, netvars, loop
<1>6. ASSUME NEW r \in BOOLEAN PROVE ~Reboot(r)
  OBVIOUS
<1> QED
  BY <1>1, <1>2, <1>3, <1>4, <1>5, <1>6
     DEF NetNext, DanglingDelete, ScanAborts, Restart, SetConfigAborts, PowerCycle

\* Any step but a reboot keeps the event at hand at the head of the queue.
LEMMA QueueTypeStep ==
  ASSUME NetTypeOK, EventAtHand, [NetNext]_netvars, ~\E r \in BOOLEAN : Reboot(r)
  PROVE  events' \in Seq(Kinds) /\ EventAtHand'
<1>1. events \in Seq(Kinds)
  BY DEF NetTypeOK, Kinds
<1>2. CASE UNCHANGED events
  <2>1. evt' = evt \/ evt' = "idle" \/ (events # <<>> /\ Head(events) = "got_ip")
    BY DEF NetNext, netvars, loop, Main, MainWifi, MainConnected, MainTimeout,
           MainStartAp, MainStartDns, MainStartWeb, EventTask, StationStarted,
           StationDisconnected, GotIp, SetConnectedBit, DanglingDelete, DnsBind,
           DnsFails, UdpBind, UdpFails, ScanAborts, PostReset, Restore, Restart,
           PostConnect, ConnectTask, SetMode, SetConfig, ConnectSta,
           SetConfigAborts, Joins, Fails, Breaks, PowerCycle, Reboot
  <2> QED
    BY <1>1, <1>2, <2>1 DEF EventAtHand
<1>3. CASE \E e \in Kinds : Post(e) /\ evt' = evt
  BY <1>1, <1>3, PostEvent DEF EventAtHand
<1>4. CASE events # <<>> /\ events' = Tail(events) /\ evt' = "idle"
  BY <1>1, <1>4, TakeEvent DEF EventAtHand
<1> QED
  BY <1>2, <1>3, <1>4, QueueStep

\* The connect_tasks stay well formed.
LEMMA TaskType ==
  ASSUME NetTypeOK, NEW t \in Connects, PostConnect(t) \/ ConnectTask(t)
  PROVE  task' \in [Connects -> [st : {"unused", "mode", "config", "connect", "ended"},
                                 ssid : Ssids \cup {NoSsid}]]
<1> DEFINE TaskRec == [st : {"unused", "mode", "config", "connect", "ended"},
                       ssid : Ssids \cup {NoSsid}]
<1>0. task \in [Connects -> TaskRec] /\ task[t] \in TaskRec
  BY DEF NetTypeOK
<1>1. CASE PostConnect(t)
  <2>1. PICK s \in Ssids \cup {NoSsid} :
          task' = [task EXCEPT ![t] = [st |-> "mode", ssid |-> s]]
    BY <1>1 DEF PostConnect
  <2>2. [st |-> "mode", ssid |-> s] \in TaskRec
    BY <2>1
  <2> QED
    BY <1>0, <2>1, <2>2
<1>2. ASSUME NEW x \in {"config", "connect", "ended"}, task' = [task EXCEPT ![t].st = x]
      PROVE  task' \in [Connects -> TaskRec]
  <2>1. [task[t] EXCEPT !.st = x] \in TaskRec
    BY <1>0
  <2> QED
    BY <1>0, <1>2, <2>1
<1>3. CASE ConnectTask(t)
  BY <1>2, <1>3 DEF ConnectTask, SetMode, SetConfig, ConnectSta
<1> QED
  BY <1>1, <1>3

TaskRec == [st : {"unused", "mode", "config", "connect", "ended"},
            ssid : Ssids \cup {NoSsid}]

\* What is not the queue.
RestTypeOK ==
  /\ creds \in Ssids \cup {NoSsid}
  /\ mode \in {"off", "sta", "apsta"}
  /\ sta \in {"stopped", "idle", "connecting", "online"}
  /\ evt \in {"idle", "got_ip"} /\ bit \in BOOLEAN
  /\ main \in {"wifi", "wait", "ap", "dns", "web", "done"}
  /\ dns \in {"none", "starting", "running", "exited"} /\ xDnsTask \in BOOLEAN
  /\ udp_tasks \in Nat /\ udp_bound \in BOOLEAN
  /\ httpd \in {"off", "idle", "reset", "restart"}
  /\ task \in [Connects -> TaskRec]
  /\ boots \in 1 .. MaxBoots /\ errors \in 0 .. MaxErrors /\ losses \in 0 .. MaxLosses
  /\ refused \in BOOLEAN

\* Every variable but the queue keeps its type in a step without a reboot.
LEMMA RestTypeStep ==
  ASSUME NetTypeOK, [NetNext]_netvars, ~\E r \in BOOLEAN : Reboot(r)
  PROVE  RestTypeOK'
<1>0. RestTypeOK
  BY DEF NetTypeOK, RestTypeOK, TaskRec
<1>1. CASE MainWifi
  BY <1>0, <1>1 DEF RestTypeOK, MainWifi, Start, services, web, bounds
<1>2. CASE MainConnected \/ MainTimeout
  <2>1. main' \in {"dns", "ap"} /\ UNCHANGED <<wifi, loop, services, web, bounds>>
    BY <1>2 DEF MainConnected, MainTimeout
  <2> QED
    BY <1>0, <2>1 DEF RestTypeOK, wifi, loop, services, web, bounds
<1>3. CASE MainStartDns
  BY <1>0, <1>3 DEF RestTypeOK, MainStartDns, wifi, loop, web, bounds
<1>4. CASE MainStartWeb
  BY <1>0, <1>4 DEF RestTypeOK, MainStartWeb, wifi, loop, services, bounds
<1>5. CASE MainStartAp
  BY <1>0, <1>5 DEF RestTypeOK, MainStartAp, Start, services, web, bounds
<1>6. CASE StationStarted
  BY <1>0, <1>6 DEF RestTypeOK, StationStarted, Connect, services, web, bounds
<1>7. CASE StationDisconnected
  <2>1. bit' \in BOOLEAN /\ UNCHANGED <<creds, mode, evt, main, services, web, bounds>>
    BY <1>7 DEF StationDisconnected, ClearBit
  <2>2. sta' \in {"stopped", "idle", "connecting", "online"}
    BY <1>0, <1>7 DEF RestTypeOK, StationDisconnected, Retry, Connect
  <2> QED
    BY <1>0, <2>1, <2>2 DEF RestTypeOK, services, web, bounds
<1>8. CASE GotIp
  <2>0. udp_tasks \in Nat /\ dns \in {"none", "starting", "running", "exited"}
    BY <1>0 DEF RestTypeOK
  <2>1. udp_tasks' \in Nat /\ evt' \in {"idle", "got_ip"}
    BY <2>0, <1>8 DEF GotIp, ResponderStarts
  <2>3. dns' \in {"none", "starting", "running", "exited"}
    BY <2>0, <1>8 DEF GotIp, DnsStop
  <2>4. xDnsTask' \in BOOLEAN
    BY <1>8 DEF GotIp, DnsStop
  <2>2. UNCHANGED <<wifi, bit, main, udp_bound, web, bounds>>
    BY <1>8 DEF GotIp
  <2> QED
    BY <1>0, <2>1, <2>2, <2>3, <2>4 DEF RestTypeOK, wifi, web, bounds
<1>9. CASE SetConnectedBit
  <2>1. /\ bit' \in BOOLEAN /\ evt' \in {"idle", "got_ip"}
        /\ UNCHANGED <<wifi, main, services, web, bounds>>
    BY <1>9 DEF SetConnectedBit
  <2> QED
    BY <1>0, <2>1 DEF RestTypeOK, wifi, services, web, bounds
<1>10. CASE DnsBind \/ DnsFails
  <2>1. dns' \in {"none", "starting", "running", "exited"}
        /\ UNCHANGED <<wifi, loop, main, xDnsTask, udp_tasks, udp_bound, web, boots,
                       losses, refused>>
    BY <1>10 DEF DnsBind, DnsFails
  <2>2. errors' \in 0 .. MaxErrors
    BY <1>0, <1>10, NetBoundsAssumption DEF RestTypeOK, DnsBind, DnsFails, SocketError
  <2> QED
    BY <1>0, <2>1, <2>2 DEF RestTypeOK, wifi, loop, web
<1>11. CASE UdpFails \/ UdpBind
  <2>0. udp_tasks \in Nat /\ udp_bound \in BOOLEAN
    BY <1>0 DEF RestTypeOK
  <2>1. udp_tasks' \in Nat
    BY <2>0, <1>11 DEF UdpFails, UdpBind, UdpStarting
  <2>4. udp_bound' \in BOOLEAN
    BY <2>0, <1>11 DEF UdpFails, UdpBind
  <2>2. errors' \in 0 .. MaxErrors
    BY <1>0, <1>11, NetBoundsAssumption DEF RestTypeOK, UdpFails, UdpBind, SocketError
  <2>3. UNCHANGED <<wifi, loop, main, dns, xDnsTask, web, boots, losses, refused>>
    BY <1>11 DEF UdpFails, UdpBind
  <2> QED
    BY <1>0, <2>1, <2>2, <2>3, <2>4 DEF RestTypeOK, wifi, loop, web
<1>12. CASE PostReset \/ Restore
  BY <1>0, <1>12 DEF RestTypeOK, PostReset, Restore, wifi, loop, services, bounds
<1>13. ASSUME NEW t \in Connects, PostConnect(t) \/ ConnectTask(t)
       PROVE  RestTypeOK'
  <2>1. task' \in [Connects -> TaskRec]
    BY <1>13, TaskType DEF TaskRec
  <2>0. task[t].ssid \in Ssids \cup {NoSsid}
    BY <1>0 DEF RestTypeOK, TaskRec
  <2>2. creds' \in Ssids \cup {NoSsid}
    BY <1>0, <1>13, <2>0 DEF RestTypeOK, PostConnect, ConnectTask, SetMode, SetConfig,
                       ConnectSta, wifi
  <2>3. mode' \in {"off", "sta", "apsta"}
        /\ sta' \in {"stopped", "idle", "connecting", "online"}
    BY <1>0, <1>13 DEF RestTypeOK, PostConnect, ConnectTask, SetMode, SetConfig,
                       ConnectSta, Connect, wifi
  <2>4. UNCHANGED <<evt, bit, main, services, httpd, bounds>>
    BY <1>13 DEF PostConnect, ConnectTask, SetMode, SetConfig, ConnectSta, loop
  <2> QED
    BY <1>0, <2>1, <2>2, <2>3, <2>4 DEF RestTypeOK, services, bounds
<1>14. CASE Joins \/ Fails \/ Breaks
  BY <1>0, <1>14, NetBoundsAssumption
     DEF RestTypeOK, Joins, Fails, Breaks, services, web, bounds
<1>15. CASE UNCHANGED netvars
  BY <1>0, <1>15 DEF RestTypeOK, netvars, wifi, loop, services, web, bounds
<1>16. ASSUME NEW r \in BOOLEAN PROVE ~Reboot(r)
  OBVIOUS
<1> QED
  BY <1>1, <1>2, <1>3, <1>4, <1>5, <1>6, <1>7, <1>8, <1>9, <1>10, <1>11, <1>12, <1>13,
     <1>14, <1>15, <1>16
     DEF NetNext, Main, EventTask, DanglingDelete, ScanAborts, Restart,
         SetConfigAborts, PowerCycle

\* Every step keeps the variables well formed.
LEMMA NetTypeStep ==
  ASSUME NetTypeOK, EventAtHand, [NetNext]_netvars
  PROVE  NetTypeOK' /\ EventAtHand'
<1>1. CASE \E r \in BOOLEAN : Reboot(r)
  BY <1>1, RebootType
<1>2. CASE ~\E r \in BOOLEAN : Reboot(r)
  BY <1>2, QueueTypeStep, RestTypeStep DEF NetTypeOK, RestTypeOK, TaskRec, Kinds
<1> QED
  BY <1>1, <1>2

\* After power-up the types are right and the queue is empty.
LEMMA NetTypeInit ==
  ASSUME NetInit
  PROVE  NetTypeOK /\ EventAtHand /\ events = <<>>
<1>1. events \in Seq(Kinds)
  BY EmptySeq DEF NetInit
<1>2. boots \in 1 .. MaxBoots /\ errors \in 0 .. MaxErrors /\ losses \in 0 .. MaxLosses
  BY NetBoundsAssumption DEF NetInit
<1>3. NoTask \in [st : {"unused", "mode", "config", "connect", "ended"},
                  ssid : Ssids \cup {NoSsid}]
  BY DEF NoTask
<1> QED
  BY <1>1, <1>2, <1>3 DEF NetInit, NetTypeOK, EventAtHand, Kinds

\* The state of the network stays well formed: the handlers take turns, tasks and
\* driver are in one of their states, and every bound is kept.
THEOREM NetTypeCorrect == NetSpec => []NetTypeOK
<1>1. NetInit => NetTypeOK /\ EventAtHand
  BY NetTypeInit
<1>2. NetTypeOK /\ EventAtHand /\ [NetNext]_netvars => NetTypeOK' /\ EventAtHand'
  BY NetTypeStep
<1> QED
  BY <1>1, <1>2, PTL DEF NetSpec

-----------------------------------------------------------------------------
(***************************************************************************)
(* The station is not forgotten.                                           *)
(***************************************************************************)
\* An event of the queue whose handler calls esp_wifi_connect.
ConnectPosted == \E i \in 1 .. Len(events) : events[i] \in {"sta_start", "disconnected"}
ConnectDue == \E t \in Connects : task[t].st = "connect"

StationInv == NetTypeOK /\ EventAtHand /\ StationNotForgotten

\* A posted event stays posted until its handler runs.
LEMMA StaysPosted ==
  ASSUME NetTypeOK, EventAtHand, [NetNext]_netvars, ~\E r \in BOOLEAN : Reboot(r),
         ConnectPosted, ~StationStarted, ~StationDisconnected
  PROVE  ConnectPosted'
<1>1. events \in Seq(Kinds)
  BY DEF NetTypeOK, Kinds
<1>2. PICK i \in 1 .. Len(events) : events[i] \in {"sta_start", "disconnected"}
  BY DEF ConnectPosted
<1>3. CASE UNCHANGED events
  BY <1>3 DEF ConnectPosted
<1>4. CASE \E e \in Kinds : Post(e)
  <2>1. i \in 1 .. Len(events') /\ events'[i] = events[i]
    BY <1>1, <1>4, PostEvent
  <2> QED
    BY <1>2, <2>1 DEF ConnectPosted
<1>5. CASE SetConnectedBit /\ events # <<>> /\ events' = Tail(events)
  <2>1. events[1] = "got_ip"
    BY <1>1, <1>5, TakeEvent DEF SetConnectedBit, EventAtHand
  <2>2. i - 1 \in 1 .. Len(events') /\ events'[i - 1] = events[i]
    BY <1>1, <1>2, <1>5, <2>1, TakeEvent
  <2> QED
    BY <1>2, <2>2 DEF ConnectPosted
<1> QED
  BY <1>3, <1>4, <1>5, QueueStep

\* A connect_task that is about to call esp_wifi_connect does, unless the device
\* reboots.
LEMMA StaysDue ==
  ASSUME NetTypeOK, [NetNext]_netvars, ~\E r \in BOOLEAN : Reboot(r),
         NEW t \in Connects, task[t].st = "connect", ~ConnectSta(t)
  PROVE  task'[t].st = "connect"
<1>1. CASE \E u \in Connects : PostConnect(u) \/ ConnectTask(u)
  BY <1>1 DEF PostConnect, ConnectTask, SetMode, SetConfig, ConnectSta, NoTask, NetTypeOK
<1>2. CASE ~\E u \in Connects : PostConnect(u) \/ ConnectTask(u)
  <2>1. ASSUME NEW r \in BOOLEAN PROVE ~Reboot(r)
    OBVIOUS
  <2> QED
    BY <1>2, <2>1
       DEF NetNext, netvars, web, Main, MainWifi, MainConnected, MainTimeout,
           MainStartAp, MainStartDns, MainStartWeb, EventTask, StationStarted,
           StationDisconnected, GotIp, SetConnectedBit, DanglingDelete, DnsBind,
           DnsFails, UdpBind, UdpFails, ScanAborts, PostReset, Restore, Restart,
           SetConfigAborts, Joins, Fails, Breaks, PowerCycle
<1> QED
  BY <1>1, <1>2

\* A step makes the station idle or names a network only together with what will
\* connect it.
LEMMA NotForgottenStep ==
  ASSUME StationInv, [NetNext]_netvars PROVE StationNotForgotten'
<1> SUFFICES ASSUME sta' = "idle", creds' # NoSsid
             PROVE  ConnectPosted' \/ ConnectDue'
  BY DEF StationNotForgotten, ConnectPosted, ConnectDue
<1>0. NetTypeOK /\ EventAtHand /\ events \in Seq(Kinds)
  BY DEF StationInv, NetTypeOK, Kinds
<1>1. ASSUME NEW r \in BOOLEAN PROVE ~Reboot(r)
  BY DEF Reboot
<1>2. CASE sta # "idle"
  <2>1. \/ Post("sta_start") \/ Post("disconnected")
    BY <1>1, <1>2
       DEF NetNext, netvars, wifi, Main, MainWifi, MainConnected, MainTimeout,
           MainStartAp, MainStartDns, MainStartWeb, Start, EventTask, StationStarted,
           StationDisconnected, Retry, Connect, GotIp, SetConnectedBit,
           DanglingDelete, DnsBind, DnsFails, UdpBind, UdpFails, ScanAborts,
           PostReset, Restore, Restart, PostConnect, ConnectTask, SetMode, SetConfig,
           ConnectSta, SetConfigAborts, Joins, Fails, Breaks, PowerCycle
  <2>2. Len(events) + 1 \in 1 .. Len(events')
        /\ events'[Len(events) + 1] \in {"sta_start", "disconnected"}
    BY <1>0, <2>1, PostEvent DEF Kinds
  <2> QED
    BY <2>2 DEF ConnectPosted
<1>3. CASE sta = "idle" /\ creds = NoSsid
  <2>1. PICK t \in Connects : SetConfig(t)
    BY <1>1, <1>3
       DEF NetNext, netvars, wifi, Main, MainWifi, MainConnected, MainTimeout,
           MainStartAp, MainStartDns, MainStartWeb, EventTask, StationStarted,
           StationDisconnected, GotIp, SetConnectedBit, DanglingDelete, DnsBind,
           DnsFails, UdpBind, UdpFails, ScanAborts, PostReset, Restore, Restart,
           PostConnect, ConnectTask, SetMode, ConnectSta, SetConfigAborts, Joins,
           Fails, Breaks, PowerCycle
  <2>2. task'[t].st = "connect"
    BY <1>0, <2>1 DEF SetConfig, NetTypeOK
  <2> QED
    BY <2>2 DEF ConnectDue
<1>4. CASE sta = "idle" /\ creds # NoSsid
  <2>1. ~StationStarted /\ ~StationDisconnected /\ \A t \in Connects : ~ConnectSta(t)
    BY <1>4 DEF StationStarted, StationDisconnected, Retry, ConnectSta, Connect, Connecting
  <2>2. ConnectPosted \/ ConnectDue
    BY <1>4 DEF StationInv, StationNotForgotten, ConnectPosted, ConnectDue
  <2>3. ~\E r \in BOOLEAN : Reboot(r)
    BY <1>1
  <2>4. CASE ConnectPosted
    BY <1>0, <2>1, <2>3, <2>4, StaysPosted
  <2>5. CASE ConnectDue
    <3>1. PICK t \in Connects : task[t].st = "connect"
      BY <2>5 DEF ConnectDue
    <3>2. task'[t].st = "connect"
      BY <1>0, <2>1, <2>3, <3>1, StaysDue
    <3> QED
      BY <3>2 DEF ConnectDue
  <2> QED
    BY <2>2, <2>4, <2>5
<1> QED
  BY <1>2, <1>3, <1>4

\* A station that is disconnected although a network is saved has an event or a
\* connect_task on its way that makes it connect: wifi_event_handler retries
\* after every disconnection, and no order of requests, connect_tasks, failures
\* and reboots loses that.
THEOREM StationRemembered == NetSpec => []StationNotForgotten
<1>1. NetInit => StationInv
  BY NetTypeInit DEF NetInit, StationInv, StationNotForgotten
<1>2. StationInv /\ [NetNext]_netvars => StationInv'
  BY NetTypeStep, NotForgottenStep DEF StationInv
<1>3. StationInv => StationNotForgotten
  BY DEF StationInv
<1> QED
  BY <1>1, <1>2, <1>3, PTL DEF NetSpec

-----------------------------------------------------------------------------
(***************************************************************************)
(* WIFI_CONNECTED_BIT follows the station.                                 *)
(***************************************************************************)
Online == sta = "online"

\* The last event of the queue that says something about the connection tells
\* how the station is now.
LastWord ==
  \A i \in 1 .. Len(events) :
    /\ events[i] # "sta_start"
    /\ \A j \in 1 .. Len(events) : j > i => events[j] = "sta_start"
    => ((events[i] = "got_ip") <=> Online)

\* When no event says anything, the bit already does.
Settled == (\A i \in 1 .. Len(events) : events[i] = "sta_start") => (bit <=> Online)

BitInv == NetTypeOK /\ EventAtHand /\ LastWord /\ Settled

Takes(e, b) ==
  events # <<>> /\ Head(events) = e /\ events' = Tail(events) /\ (bit' <=> b)

\* What one step can do to the queue, the bit and the connection together.
LEMMA BitStep ==
  ASSUME NetTypeOK, EventAtHand, [NetNext]_netvars, ~\E r \in BOOLEAN : Reboot(r)
  PROVE  \/ UNCHANGED <<events, bit>> /\ (Online' <=> Online)
         \/ Post("sta_start") /\ bit' = bit /\ (Online' <=> Online)
         \/ Post("got_ip") /\ bit' = bit /\ Online'
         \/ Post("disconnected") /\ bit' = bit /\ ~Online'
         \/ /\ Online' <=> Online
            /\ Takes("sta_start", bit) \/ Takes("disconnected", FALSE) \/ Takes("got_ip", TRUE)
<1>1. CASE MainWifi \/ MainStartAp
  BY <1>1 DEF MainWifi, MainStartAp, Start, Online
<1>2. CASE MainConnected \/ MainTimeout \/ MainStartDns \/ MainStartWeb
  BY <1>2 DEF MainConnected, MainTimeout, MainStartDns, MainStartWeb, Online, wifi, loop
<1>3. CASE StationStarted
  BY <1>3 DEF StationStarted, Connect, Connecting, Online, Takes
<1>4. CASE StationDisconnected
  BY <1>4 DEF StationDisconnected, Retry, ClearBit, Connect, Connecting, Online, Takes
<1>5. CASE GotIp
  BY <1>5 DEF GotIp, Online, wifi
<1>6. CASE SetConnectedBit
  BY <1>6 DEF SetConnectedBit, EventAtHand, Online, wifi, Takes
<1>7. CASE \E t \in Connects : PostConnect(t) \/ ConnectTask(t)
  BY <1>7 DEF PostConnect, ConnectTask, SetMode, SetConfig, ConnectSta, Connect,
              Connecting, Online, wifi, loop
<1>8. CASE Joins \/ Fails \/ Breaks
  BY <1>8 DEF Joins, Fails, Breaks, Online
<1>9. CASE DnsBind \/ DnsFails \/ UdpBind \/ UdpFails \/ PostReset \/ Restore
           \/ UNCHANGED netvars
  BY <1>9 DEF DnsBind, DnsFails, UdpBind, UdpFails, PostReset, Restore, Online,
              netvars, wifi, loop
<1>10. ASSUME NEW r \in BOOLEAN PROVE ~Reboot(r)
  OBVIOUS
<1> QED
  BY <1>1, <1>2, <1>3, <1>4, <1>5, <1>6, <1>7, <1>8, <1>9, <1>10
     DEF NetNext, Main, EventTask, DanglingDelete, ScanAborts, Restart,
         SetConfigAborts, PowerCycle

\* Posting "sta_start" says nothing about the connection.
LEMMA SaysNothing ==
  ASSUME BitInv, Post("sta_start"), bit' = bit, Online' <=> Online
  PROVE  LastWord' /\ Settled'
<1>1. /\ Len(events) \in Nat /\ Len(events') = Len(events) + 1
      /\ \A i \in 1 .. Len(events) : events'[i] = events[i]
      /\ events'[Len(events) + 1] = "sta_start"
  BY PostEvent DEF BitInv, NetTypeOK, Kinds
<1>2. LastWord'
  BY <1>1 DEF BitInv, LastWord, Online
<1>3. Settled'
  BY <1>1 DEF BitInv, Settled
<1> QED
  BY <1>2, <1>3

\* Posting "got_ip" or "disconnected" together with what it reports.
LEMMA SaysNew ==
  ASSUME BitInv, NEW e \in {"got_ip", "disconnected"}, Post(e), Online' <=> (e = "got_ip")
  PROVE  LastWord' /\ Settled'
<1>1. /\ Len(events) \in Nat /\ Len(events') = Len(events) + 1
      /\ events'[Len(events) + 1] = e
  BY PostEvent DEF BitInv, NetTypeOK, Kinds
<1>2. LastWord'
  <2> SUFFICES ASSUME NEW i \in 1 .. Len(events'), events'[i] # "sta_start",
                      \A j \in 1 .. Len(events') : j > i => events'[j] = "sta_start"
               PROVE  (events'[i] = "got_ip") <=> Online'
    BY DEF LastWord
  <2>1. i = Len(events')
    BY <1>1
  <2> QED
    BY <1>1, <2>1
<1>3. Settled'
  BY <1>1 DEF Settled
<1> QED
  BY <1>2, <1>3

\* Handling an event sets the bit to what the event says.
LEMMA SaysHandled ==
  ASSUME BitInv, Online' <=> Online,
         Takes("sta_start", bit) \/ Takes("disconnected", FALSE) \/ Takes("got_ip", TRUE)
  PROVE  LastWord' /\ Settled'
<1>1. /\ Len(events) \in Nat \ {0} /\ Len(events') = Len(events) - 1
      /\ \A i \in 1 .. Len(events') : events'[i] = events[i + 1]
      /\ Head(events) = events[1]
  BY TakeEvent DEF BitInv, NetTypeOK, Kinds, Takes
<1>2. LastWord'
  <2> SUFFICES ASSUME NEW i \in 1 .. Len(events'), events'[i] # "sta_start",
                      \A j \in 1 .. Len(events') : j > i => events'[j] = "sta_start"
               PROVE  (events'[i] = "got_ip") <=> Online'
    BY DEF LastWord
  <2>1. i + 1 \in 1 .. Len(events) /\ events[i + 1] = events'[i]
    BY <1>1
  <2>2. ASSUME NEW j \in 1 .. Len(events), j > i + 1 PROVE events[j] = "sta_start"
    <3>1. j - 1 \in 1 .. Len(events') /\ j - 1 > i /\ events'[j - 1] = events[j]
      BY <1>1, <2>2
    <3> QED
      BY <3>1
  <2> QED
    BY <2>1, <2>2 DEF BitInv, LastWord
<1>3. Settled'
  <2> SUFFICES ASSUME \A i \in 1 .. Len(events') : events'[i] = "sta_start"
               PROVE  bit' <=> Online'
    BY DEF Settled
  <2>1. ASSUME NEW j \in 1 .. Len(events), j > 1 PROVE events[j] = "sta_start"
    <3>1. j - 1 \in 1 .. Len(events') /\ events'[j - 1] = events[j]
      BY <1>1, <2>1
    <3> QED
      BY <3>1
  <2>2. 1 \in 1 .. Len(events)
    BY <1>1
  <2>3. CASE Takes("sta_start", bit)
    <3>1. \A i \in 1 .. Len(events) : events[i] = "sta_start"
      BY <1>1, <2>1, <2>3 DEF Takes
    <3> QED
      BY <2>3, <3>1 DEF BitInv, Settled, Takes
  <2>4. CASE Takes("disconnected", FALSE) \/ Takes("got_ip", TRUE)
    <3>1. (events[1] = "got_ip") <=> Online
      BY <1>1, <2>1, <2>2, <2>4 DEF BitInv, LastWord, Takes
    <3> QED
      BY <1>1, <2>4, <3>1 DEF Takes
  <2> QED
    BY <2>3, <2>4
<1> QED
  BY <1>2, <1>3

\* BitInv is inductive.
LEMMA BitInvStep ==
  ASSUME BitInv, [NetNext]_netvars PROVE BitInv'
<1>1. NetTypeOK' /\ EventAtHand'
  BY NetTypeStep DEF BitInv
<1> SUFFICES LastWord' /\ Settled'
  BY <1>1 DEF BitInv
<1>2. CASE \E r \in BOOLEAN : Reboot(r)
  <2>1. events' = <<>> /\ bit' = FALSE /\ sta' = "stopped"
    BY <1>2 DEF Reboot
  <2>2. Len(events') = 0
    BY <2>1, EmptySeq
  <2> QED
    BY <2>1, <2>2 DEF LastWord, Settled, Online
<1>3. CASE UNCHANGED <<events, bit>> /\ (Online' <=> Online)
  BY <1>3 DEF BitInv, LastWord, Settled
<1>4. CASE ~\E r \in BOOLEAN : Reboot(r)
  BY <1>3, <1>4, BitStep, SaysNothing, SaysNew, SaysHandled DEF BitInv
<1> QED
  BY <1>2, <1>4

\* Once the event task has handled every event, WIFI_CONNECTED_BIT says whether
\* the station has an IP address: the driver posts one event with each change of
\* the connection, the handlers see them in order, and nothing else sets the bit.
THEOREM BitIsRight == NetSpec => []BitFollowsStation
<1>1. NetInit => BitInv
  <2> SUFFICES ASSUME NetInit PROVE BitInv
    OBVIOUS
  <2>1. NetTypeOK /\ EventAtHand /\ events = <<>> /\ bit = FALSE /\ sta = "stopped"
    BY NetTypeInit DEF NetInit
  <2>2. Len(events) = 0
    BY <2>1, EmptySeq
  <2> QED
    BY <2>1, <2>2 DEF BitInv, LastWord, Settled, Online
<1>2. BitInv /\ [NetNext]_netvars => BitInv'
  BY BitInvStep
<1>3. BitInv => BitFollowsStation
  <2> SUFFICES ASSUME BitInv, events = <<>> PROVE bit = (sta = "online")
    BY DEF BitFollowsStation
  <2>1. Len(events) = 0
    BY EmptySeq
  <2>2. (bit <=> (sta = "online")) /\ bit \in BOOLEAN
    BY <2>1 DEF BitInv, Settled, Online, NetTypeOK
  <2> QED
    BY <2>2
<1> QED
  BY <1>1, <1>2, <1>3, PTL DEF NetSpec
-----------------------------------------------------------------------------
(***************************************************************************)
(* The portal is given up only for a network.                              *)
(***************************************************************************)
\* The web server is the last thing that app_main starts, so no request comes
\* before, and app_main passes the access point by only with a network saved.
PortalInv ==
  /\ httpd = "off" <=> main # "done"
  /\ httpd = "off" => \A t \in Connects : task[t] = NoTask
  /\ main = "wait" => creds # NoSsid
  /\ main \in {"dns", "web"} => creds # NoSsid \/ mode = "apsta"
  /\ PortalUnlessNetwork

\* A connect_task that keeps the portal's absence justified.
Excused(t) == \/ task[t].st = "config"
              \/ task[t].st \in {"connect", "ended"} /\ task[t].ssid = NoSsid

\* The steps of a connect_task.
LEMMA PortalTaskStep ==
  ASSUME NetTypeOK, PortalInv, NEW t \in Connects, PostConnect(t) \/ ConnectTask(t)
  PROVE  PortalInv'
<1>1. task \in [Connects -> TaskRec]
  BY DEF NetTypeOK, TaskRec
<1>2. httpd # "off" /\ main = "done" /\ httpd' = httpd /\ main' = main
  BY DEF PortalInv, PostConnect, ConnectTask, SetMode, SetConfig, ConnectSta, NoTask
<1>3. /\ httpd' = "off" <=> main' # "done"
      /\ httpd' = "off" => \A u \in Connects : task'[u] = NoTask
      /\ main' = "wait" => creds' # NoSsid
      /\ main' \in {"dns", "web"} => creds' # NoSsid \/ mode' = "apsta"
  BY <1>2
<1>4. creds = NoSsid => mode = "apsta" \/ httpd = "restart" \/ \E u \in Connects : Excused(u)
  BY <1>2 DEF PortalInv, PortalUnlessNetwork, Excused
<1>5. ASSUME creds' = NoSsid
      PROVE  mode' = "apsta" \/ httpd' = "restart" \/ \E u \in Connects : Excused(u)'
  <2>1. CASE PostConnect(t)
    <3>1. UNCHANGED <<creds, mode>> /\ ~Excused(t)
      BY <2>1 DEF PostConnect, NoTask, Excused, wifi
    <3>2. \A u \in Connects : u # t => task'[u] = task[u]
      BY <1>1, <2>1 DEF PostConnect
    <3>3. \A u \in Connects : Excused(u) => Excused(u)'
      BY <3>1, <3>2 DEF Excused
    <3> QED
      BY <1>2, <1>4, <1>5, <3>1, <3>3
  <2>2. CASE SetMode(t)
    <3>1. task'[t].st = "config"
      BY <1>1, <2>2 DEF SetMode, TaskRec
    <3> QED
      BY <3>1 DEF Excused
  <2>3. CASE SetConfig(t)
    <3>1. task'[t].st = "connect" /\ task'[t].ssid = task[t].ssid /\ creds' = task[t].ssid
      BY <1>1, <2>3 DEF SetConfig, TaskRec
    <3> QED
      BY <1>5, <3>1 DEF Excused
  <2>4. CASE ConnectSta(t)
    <3>1. UNCHANGED <<creds, mode>>
      BY <2>4 DEF ConnectSta
    <3>2. \A u \in Connects : u # t => task'[u] = task[u]
      BY <1>1, <2>4 DEF ConnectSta
    <3>3. task[t].st = "connect" /\ task'[t].st = "ended" /\ task'[t].ssid = task[t].ssid
      BY <1>1, <2>4 DEF ConnectSta, TaskRec
    <3>4. \A u \in Connects : Excused(u) => Excused(u)'
      BY <3>2, <3>3 DEF Excused
    <3> QED
      BY <1>2, <1>4, <1>5, <3>1, <3>4
  <2> QED
    BY <2>1, <2>2, <2>3, <2>4 DEF ConnectTask
<1>6. PortalUnlessNetwork'
  BY <1>5 DEF PortalUnlessNetwork, Excused
<1> QED
  BY <1>3, <1>6 DEF PortalInv

\* Every step.
LEMMA PortalStep ==
  ASSUME NetTypeOK, PortalInv, [NetNext]_netvars
  PROVE  PortalInv'
<1>1. CASE \E r \in BOOLEAN : Reboot(r)
  <2>1. main' = "wifi" /\ httpd' = "off" /\ task' = [t \in Connects |-> NoTask]
    BY <1>1 DEF Reboot
  <2> QED
    BY <2>1 DEF PortalInv, PortalUnlessNetwork
<1>2. CASE MainWifi
  BY <1>2 DEF MainWifi, PortalInv, PortalUnlessNetwork, web
<1>3. CASE MainConnected \/ MainTimeout
  BY <1>3 DEF MainConnected, MainTimeout, PortalInv, PortalUnlessNetwork, wifi, web
<1>4. CASE MainStartAp
  BY <1>4 DEF MainStartAp, PortalInv, PortalUnlessNetwork, web
<1>5. CASE MainStartDns
  BY <1>5 DEF MainStartDns, PortalInv, PortalUnlessNetwork, wifi, web
<1>6. CASE MainStartWeb
  BY <1>6 DEF MainStartWeb, PortalInv, PortalUnlessNetwork, wifi
<1>7. CASE PostReset
  BY <1>7 DEF PostReset, PortalInv, PortalUnlessNetwork, wifi
<1>8. CASE Restore
  BY <1>8 DEF Restore, PortalInv, PortalUnlessNetwork
<1>9. ASSUME NEW t \in Connects, PostConnect(t) \/ ConnectTask(t)
      PROVE  PortalInv'
  BY <1>9, PortalTaskStep
<1>10. CASE UNCHANGED <<creds, mode, main, httpd, task>>
  BY <1>10 DEF PortalInv, PortalUnlessNetwork
<1>11. CASE EventTask \/ DnsBind \/ DnsFails \/ UdpBind \/ UdpFails
            \/ Joins \/ Fails \/ Breaks \/ UNCHANGED netvars
  <2>1. UNCHANGED <<creds, mode, main, httpd, task>>
    BY <1>11 DEF EventTask, StationStarted, StationDisconnected, GotIp, SetConnectedBit,
                 DnsBind, DnsFails, UdpBind, UdpFails, Joins, Fails, Breaks,
                 netvars, wifi, web
  <2> QED
    BY <1>10, <2>1
<1>12. ASSUME NEW r \in BOOLEAN, Reboot(r) PROVE PortalInv'
  BY <1>1, <1>12
<1> QED
  BY <1>2, <1>3, <1>4, <1>5, <1>6, <1>7, <1>8, <1>9, <1>11, <1>12
     DEF NetNext, Main, DanglingDelete, ScanAborts, Restart, SetConfigAborts, PowerCycle

\* wifi_app.c, wifi_app_connect_sta and wifi_app_init: whatever requests and reboots
\* come, a device that has booted and has no network to join has its portal, but for
\* a configuration that is on its way, an empty name or a reset.
THEOREM PortalIsUp == NetSpec => []PortalUnlessNetwork
<1>1. NetInit => PortalInv
  BY DEF NetInit, PortalInv, PortalUnlessNetwork
<1>2. NetTypeOK /\ PortalInv /\ [NetNext]_netvars => PortalInv'
  BY PortalStep
<1>3. PortalInv => PortalUnlessNetwork
  BY DEF PortalInv
<1> QED
  BY <1>1, <1>2, <1>3, NetTypeCorrect, PTL DEF NetSpec
=============================================================================

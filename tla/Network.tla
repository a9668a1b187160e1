------------------------------ MODULE Network -------------------------------
(***************************************************************************)
(* Coming up and going online: app_main, the Wi-Fi station and access      *)
(* point of wifi_app.c, the two handlers of Wi-Fi and IP events, the       *)
(* captive-portal DNS server, the UDP responder, and the HTTP requests     *)
(* that change the network (/scan, /connect, /reset_wifi).                 *)
(*                                                                         *)
(* Five kinds of task interleave: app_main, the event task (which runs     *)
(* both handlers), the web server's task, a connect_task per POST of       *)
(* /connect, and the DNS and UDP tasks.  The Wi-Fi driver is external: it  *)
(* keeps the configuration in flash, connects in the background, posts     *)
(* events in order, and refuses to scan or to be configured while the      *)
(* station is connecting.  Delays and timeouts take any time.              *)
(***************************************************************************)
EXTENDS Integers, Sequences

CONSTANTS
  Ssids,        \* networks a user may name
  NoSsid,       \* the empty SSID: nothing is saved
  Connects,     \* bound: the connect_tasks of one boot
  MaxBoots,     \* bound: boots
  MaxErrors,    \* bound: socket calls that fail
  MaxLosses     \* bound: connections that break

ASSUME SsidAssumption == NoSsid \notin Ssids
ASSUME NetBoundsAssumption ==
  MaxBoots \in Nat \ {0} /\ {MaxErrors, MaxLosses} \subseteq Nat

VARIABLES
  creds,        \* the SSID of the station's configuration, kept in flash
  mode,         \* the Wi-Fi mode: "off", "sta" or "apsta"
  sta,          \* the station: "stopped", "idle", "connecting" or "online"
  events,       \* the queue of the default event loop
  evt,          \* the event task: "idle", or between its handlers of GOT_IP
  bit,          \* WIFI_CONNECTED_BIT
  main,         \* what app_main does next
  dns,          \* the DNS task: "none", "starting", "running" or "exited"
  xDnsTask,     \* whether xDnsTask holds a handle
  udp_tasks,    \* UDP tasks that have not bound their socket
  udp_bound,    \* whether a UDP task listens on UDP_PORT
  httpd,        \* the web server: "off", "idle", or in reset_wifi_post_handler
  task,         \* the connect_tasks: what each does next, and its SSID
  boots, errors, losses,
  refused       \* history: whether the last reboot was the abort of a
                \* configuration that the driver refused

wifi == <<creds, mode, sta>>
loop == <<events, evt, bit>>
services == <<dns, xDnsTask, udp_tasks, udp_bound>>
web == <<httpd, task>>
bounds == <<boots, errors, losses, refused>>
netvars == <<wifi, loop, main, services, web, bounds>>

NoTask == [st |-> "unused", ssid |-> NoSsid]

NetInit ==
  /\ creds \in Ssids \cup {NoSsid}
  /\ mode = "off" /\ sta = "stopped"
  /\ events = <<>> /\ evt = "idle" /\ bit = FALSE
  /\ main = "wifi"
  /\ dns = "none" /\ xDnsTask = FALSE /\ udp_tasks = 0 /\ udp_bound = FALSE
  /\ httpd = "off" /\ task = [t \in Connects |-> NoTask]
  /\ boots = 1 /\ errors = 0 /\ losses = 0 /\ refused = FALSE

\* Everything but the configuration is lost; all tasks end.
Reboot(refusal) ==
  /\ boots < MaxBoots /\ boots' = boots + 1 /\ refused' = refusal
  /\ mode' = "off" /\ sta' = "stopped"
  /\ events' = <<>> /\ evt' = "idle" /\ bit' = FALSE
  /\ main' = "wifi"
  /\ dns' = "none" /\ xDnsTask' = FALSE /\ udp_tasks' = 0 /\ udp_bound' = FALSE
  /\ httpd' = "off" /\ task' = [t \in Connects |-> NoTask]
  /\ UNCHANGED <<creds, errors, losses>>

Post(e) == events' = Append(events, e)

\* esp_wifi_connect: the driver starts to connect if it has something to connect
\* to and is not at it already.
Connecting == sta = "idle" /\ creds # NoSsid
Connect == sta' = IF Connecting THEN "connecting" ELSE sta

\* esp_wifi_start: a station that is part of the mode starts once.
Start == IF sta = "stopped" THEN sta' = "idle" /\ Post("sta_start")
                            ELSE UNCHANGED <<sta, events>>

-----------------------------------------------------------------------------
(***************************************************************************)
(* app_main and wifi_app_init.                                             *)
(***************************************************************************)
MainWifi ==
  /\ main = "wifi"
  /\ IF creds # NoSsid
       THEN mode' = "sta" /\ Start /\ main' = "wait"
       ELSE main' = "ap" /\ UNCHANGED <<mode, sta, events>>
  /\ UNCHANGED <<creds, evt, bit, services, web, bounds>>

\* xEventGroupWaitBits returns with the bit or after five seconds.
MainConnected ==
  /\ main = "wait" /\ bit
  /\ main' = "dns"
  /\ UNCHANGED <<wifi, loop, services, web, bounds>>

\* Mutant of MainTimeout: app_main waits for the network with portMAX_DELAY.
WaitsForever == FALSE

MainTimeout ==
  /\ main = "wait"
  /\ main' = "ap"
  /\ UNCHANGED <<wifi, loop, services, web, bounds>>

\* wifi_app_start_ap.
MainStartAp ==
  /\ main = "ap"
  /\ mode' = "apsta" /\ Start
  /\ main' = "dns"
  /\ UNCHANGED <<creds, evt, bit, services, web, bounds>>

\* dns_server_start, whatever the mode.
MainStartDns ==
  /\ main = "dns"
  /\ dns' = "starting" /\ xDnsTask' = TRUE
  /\ main' = "web"
  /\ UNCHANGED <<wifi, loop, udp_tasks, udp_bound, web, bounds>>

MainStartWeb ==
  /\ main = "web"
  /\ httpd' = "idle"
  /\ main' = "done"
  /\ UNCHANGED <<wifi, loop, services, task, bounds>>

Main == MainWifi \/ MainConnected \/ MainTimeout \/ MainStartAp \/ MainStartDns
        \/ MainStartWeb

-----------------------------------------------------------------------------
(***************************************************************************)
(* The event task.                                                         *)
(***************************************************************************)
StationStarted ==
  /\ evt = "idle" /\ events # <<>> /\ Head(events) = "sta_start"
  /\ Connect
  /\ events' = Tail(events)
  /\ UNCHANGED <<creds, mode, evt, bit, main, services, web, bounds>>

\* Mutant of Retry: the handler leaves reconnecting to somebody else.
NoRetry == UNCHANGED sta

Retry == Connect

\* Mutant of ClearBit: the bit, once set, stays.
KeepBit == UNCHANGED bit

ClearBit == bit' = FALSE

\* wifi_event_handler retries at once while something is saved.
StationDisconnected ==
  /\ evt = "idle" /\ events # <<>> /\ Head(events) = "disconnected"
  /\ Retry
  /\ ClearBit
  /\ events' = Tail(events)
  /\ UNCHANGED <<creds, mode, evt, main, services, web, bounds>>

\* dns_server_stop deletes the task it has a handle of.  The task may have
\* deleted itself: then the handle dangles, and anything may happen.  The socket
\* is a local of the task (it shadows dns_socket) and is never closed.
DnsStop ==
  /\ dns' = IF xDnsTask THEN "none" ELSE dns
  /\ xDnsTask' = FALSE

DanglingDelete ==
  /\ evt = "idle" /\ events # <<>> /\ Head(events) = "got_ip"
  /\ xDnsTask /\ dns = "exited"
  /\ Reboot(FALSE)

\* Mutant of ResponderStarts: the responder is not started during the boot.
StartsAfterBoot == udp_tasks' = IF main = "done" THEN udp_tasks + 1 ELSE udp_tasks

ResponderStarts == udp_tasks' = udp_tasks + 1

\* ip_event_handler was registered first; wifi_event_handler follows, once for
\* its own registration and once for each connect_task that registered it again;
\* setting the bit again changes nothing.
GotIp ==
  /\ evt = "idle" /\ events # <<>> /\ Head(events) = "got_ip"
  /\ ResponderStarts
  /\ DnsStop
  /\ evt' = "got_ip"
  /\ UNCHANGED <<wifi, events, bit, main, udp_bound, web, bounds>>

SetConnectedBit ==
  /\ evt = "got_ip"
  /\ bit' = TRUE
  /\ evt' = "idle" /\ events' = Tail(events)
  /\ UNCHANGED <<wifi, main, services, web, bounds>>

EventTask == StationStarted \/ StationDisconnected \/ GotIp \/ SetConnectedBit

-----------------------------------------------------------------------------
(***************************************************************************)
(* The DNS and UDP tasks.                                                  *)
(***************************************************************************)
SocketError == errors < MaxErrors /\ errors' = errors + 1

DnsBind ==
  /\ dns = "starting"
  /\ \/ dns' = "running" /\ UNCHANGED errors
     \/ dns' = "exited" /\ SocketError
  /\ UNCHANGED <<wifi, loop, main, xDnsTask, udp_tasks, udp_bound, web, boots, losses, refused>>

DnsFails ==
  /\ dns = "running" /\ dns' = "exited" /\ SocketError
  /\ UNCHANGED <<wifi, loop, main, xDnsTask, udp_tasks, udp_bound, web, boots, losses, refused>>

\* Mutant of UdpStarting: a task that was never created runs.
UdpAnyTime == TRUE

UdpStarting == udp_tasks > 0

\* A second responder cannot bind the port, and exits.
UdpBind ==
  /\ UdpStarting
  /\ udp_tasks' = udp_tasks - 1
  /\ \/ udp_bound' = TRUE /\ UNCHANGED errors
     \/ UNCHANGED udp_bound /\ SocketError
  /\ UNCHANGED <<wifi, loop, main, dns, xDnsTask, web, boots, losses, refused>>

UdpFails ==
  /\ udp_bound /\ udp_bound' = FALSE /\ SocketError
  /\ UNCHANGED <<wifi, loop, main, dns, xDnsTask, udp_tasks, web, boots, losses, refused>>

-----------------------------------------------------------------------------
(***************************************************************************)
(* HTTP requests, one at a time, and the connect_tasks they leave behind.  *)
(***************************************************************************)
\* wifi_app_scan checks the result of esp_wifi_scan_start with ESP_ERROR_CHECK.
ScanAborts ==
  /\ httpd = "idle" /\ sta = "connecting"
  /\ Reboot(FALSE)

\* A form without "ssid=" names the empty SSID.
PostConnect(t) ==
  /\ httpd = "idle" /\ task[t] = NoTask
  /\ \E s \in Ssids \cup {NoSsid} :
       task' = [task EXCEPT ![t] = [st |-> "mode", ssid |-> s]]
  /\ UNCHANGED <<wifi, loop, main, services, httpd, bounds>>

\* wifi_app_connect_sta, one driver call after the other.
SetMode(t) ==
  /\ task[t].st = "mode"
  /\ mode' = "sta"
  /\ task' = [task EXCEPT ![t].st = "config"]
  /\ UNCHANGED <<creds, sta, loop, main, services, httpd, bounds>>

\* A new configuration may make the driver drop the connection it has.
SetConfig(t) ==
  /\ task[t].st = "config" /\ sta # "connecting"
  /\ creds' = task[t].ssid
  /\ task' = [task EXCEPT ![t].st = "connect"]
  /\ \/ UNCHANGED <<sta, events>>
     \/ sta = "online" /\ sta' = "idle" /\ Post("disconnected")
  /\ UNCHANGED <<mode, evt, bit, main, services, httpd, bounds>>

\* ESP_ERROR_CHECK(esp_wifi_set_config(WIFI_IF_STA, ...)).
SetConfigAborts(t) ==
  /\ task[t].st = "config" /\ sta = "connecting"
  /\ Reboot(TRUE)

ConnectSta(t) ==
  /\ task[t].st = "connect"
  /\ Connect
  /\ task' = [task EXCEPT ![t].st = "ended"]
  /\ UNCHANGED <<creds, mode, loop, main, services, httpd, bounds>>

ConnectTask(t) == SetMode(t) \/ SetConfig(t) \/ ConnectSta(t)

\* Mutant of PostReset: the configuration is cleared before the answer and the wait.
RestoreFirst ==
  /\ httpd = "idle" /\ httpd' = "reset" /\ creds' = NoSsid
  /\ UNCHANGED <<mode, sta, loop, main, services, task, bounds>>

\* reset_wifi_post_handler: answer, wait, esp_wifi_restore, esp_restart.
PostReset ==
  /\ httpd = "idle" /\ httpd' = "reset"
  /\ UNCHANGED <<wifi, loop, main, services, task, bounds>>

Restore ==
  /\ httpd = "reset" /\ httpd' = "restart"
  /\ creds' = NoSsid
  /\ UNCHANGED <<mode, sta, loop, main, services, task, bounds>>

Restart ==
  /\ httpd = "restart"
  /\ Reboot(FALSE)

-----------------------------------------------------------------------------
(***************************************************************************)
(* The Wi-Fi driver and the world.                                         *)
(***************************************************************************)
Joins ==
  /\ sta = "connecting" /\ sta' = "online" /\ Post("got_ip")
  /\ UNCHANGED <<creds, mode, evt, bit, main, services, web, bounds>>

Fails ==
  /\ sta = "connecting" /\ sta' = "idle" /\ Post("disconnected")
  /\ UNCHANGED <<creds, mode, evt, bit, main, services, web, bounds>>

Breaks ==
  /\ losses < MaxLosses /\ losses' = losses + 1
  /\ sta = "online" /\ sta' = "idle" /\ Post("disconnected")
  /\ UNCHANGED <<creds, mode, evt, bit, main, services, web, boots, errors, refused>>

PowerCycle == Reboot(FALSE)

NetNext ==
  \/ Main \/ EventTask \/ DanglingDelete
  \/ DnsBind \/ DnsFails \/ UdpBind \/ UdpFails
  \/ ScanAborts \/ PostReset \/ Restore \/ Restart
  \/ \E t \in Connects : PostConnect(t) \/ ConnectTask(t) \/ SetConfigAborts(t)
  \/ Joins \/ Fails \/ Breaks \/ PowerCycle

NetSpec == NetInit /\ [][NetNext]_netvars

\* Every task that can run does, and every wait ends.
NetFair ==
  /\ NetSpec
  /\ WF_netvars(Main) /\ WF_netvars(EventTask) /\ WF_netvars(UdpBind)

-----------------------------------------------------------------------------
(***************************************************************************)
(* Properties.                                                             *)
(***************************************************************************)
NetTypeOK ==
  /\ creds \in Ssids \cup {NoSsid}
  /\ mode \in {"off", "sta", "apsta"}
  /\ sta \in {"stopped", "idle", "connecting", "online"}
  /\ events \in Seq({"sta_start", "disconnected", "got_ip"})
  /\ evt \in {"idle", "got_ip"} /\ bit \in BOOLEAN
  /\ main \in {"wifi", "wait", "ap", "dns", "web", "done"}
  /\ dns \in {"none", "starting", "running", "exited"} /\ xDnsTask \in BOOLEAN
  /\ udp_tasks \in Nat /\ udp_bound \in BOOLEAN
  /\ httpd \in {"off", "idle", "reset", "restart"}
  /\ task \in [Connects -> [st : {"unused", "mode", "config", "connect", "ended"},
                            ssid : Ssids \cup {NoSsid}]]
  /\ boots \in 1 .. MaxBoots /\ errors \in 0 .. MaxErrors /\ losses \in 0 .. MaxLosses
  /\ refused \in BOOLEAN

\* The station is not forgotten: when it is disconnected although a network is
\* saved, an event or a connect_task is on its way that makes it connect.
StationNotForgotten ==
  sta = "idle" /\ creds # NoSsid =>
    \/ \E i \in 1 .. Len(events) : events[i] \in {"sta_start", "disconnected"}
    \/ \E t \in Connects : task[t].st = "connect"

\* WIFI_CONNECTED_BIT says whether the station has an IP address, once the
\* events are handled.
BitFollowsStation ==
  events = <<>> => bit = (sta = "online")

\* A device that has booted without a network to join can be reached through the portal:
\* the access point is missing only while a connect_task brings a configuration,
\* after the user named the empty SSID, or on the way to the restart that ends a
\* reset.
PortalUnlessNetwork ==
  main = "done" /\ creds = NoSsid =>
    \/ mode = "apsta" \/ httpd = "restart"
    \/ \E t \in Connects : \/ task[t].st = "config"
                           \/ task[t].st \in {"connect", "ended"} /\ task[t].ssid = NoSsid

\* app_main always gets to the services, whether the network answers in time,
\* too late or never.
BootCompletes == (main # "done") ~> (main = "done")

\* A station with an IP address can be found by UDP broadcast, unless a socket
\* failed: the responder is started by each GOT_IP, and only then.
ResponderUp == (sta = "online") ~> (udp_bound \/ sta # "online" \/ errors > 0)

\* ubac_main.c, on getting an IP address: "Stop DNS server as we are no longer an
\* AP (or shouldn't be hijacking)".
NoHijack ==
  sta = "online" /\ events = <<>> => dns # "running"

\* wifi_app.c asserts that the driver takes a connect_task's configuration.
ConfigAccepted == ~refused
=============================================================================

------------------------------- MODULE SysNet ---------------------------------
(****************************************************************************)
(* Connection management: the message handlers of platform/sys/tls_sys.c    *)
(* run by the system task of SysTask, the netif status callback that sends  *)
(* it messages, and the application's luat_wlan_connect/disconnect          *)
(* (app/network/luat_wlan_air101.c).  The Wi-Fi driver is external: it      *)
(* accepts connect, disconnect and soft-AP requests and reports events.     *)
(****************************************************************************)
EXTENDS SysTask

CONSTANTS
    Driver,     \* the task that runs the netif status callbacks
    Configs,    \* parameter settings: wireless protocol, stored ssid and
                \* bssid, DHCP
    OffModes    \* how the application switches the automatic connection off

ASSUME SysNetAssumption ==
    /\ Driver \in Senders
    /\ OffModes \subseteq {"OFF", "TMP_OFF"}

SysMessages == {"NET_UP", "NET_DOWN", "CONNECT_FAILED", "AUTO_MODE_RUN",
                "NET2_UP", "NET2_DOWN", "NET2_FAIL"}

StaMessages == {"NET_UP", "NET_DOWN", "CONNECT_FAILED"}
ApMessages == {"NET2_UP", "NET2_DOWN", "NET2_FAIL"}

VARIABLES
    config,         \* the stored parameters the handlers read
    netif,          \* station and soft-AP interface: up or not
    netif_status,   \* the station interface has an address
    auto,           \* automatic connection flag: "ON", "OFF", "TMP_OFF"
    wifi, softap,   \* state of the external driver
    app,            \* where the application is in connect/disconnect
    step,           \* where the handler is
    accepted        \* history: the last message accepted says up, per interface

netvars == <<config, netif, netif_status, auto, wifi, softap, app, step,
             accepted>>
vars == <<taskvars, netvars>>

NetTypeOK ==
    /\ TypeOK
    /\ config \in Configs
    /\ netif \in [{"sta", "ap"} -> BOOLEAN]
    /\ netif_status \in BOOLEAN
    /\ auto \in {"ON", "OFF", "TMP_OFF"}
    /\ wifi \in {"off", "connecting", "joined", "leaving"}
    /\ softap \in {"off", "creating", "joined"}
    /\ app \in {"idle", "connecting", "disconnecting"}
    /\ step \in {"start", "restore", "get", "set", "connect", "done"}
    /\ accepted \in [{"sta", "ap"} -> BOOLEAN]

NetInit ==
    /\ Init
    /\ config \in Configs
    /\ netif = [i \in {"sta", "ap"} |-> FALSE]
    /\ netif_status = FALSE
    /\ auto \in {"ON", "OFF"}
    /\ wifi = "off" /\ softap = "off"
    /\ app = "idle"
    /\ step = "start"
    /\ accepted = [i \in {"sta", "ap"} |-> FALSE]

-----------------------------------------------------------------------------
(* External: requests to the Wi-Fi driver *)
tls_wifi_connect == wifi' = IF wifi = "off" THEN "connecting" ELSE wifi
tls_wifi_disconnect ==
    wifi' = IF wifi \in {"connecting", "joined"} THEN "leaving" ELSE wifi
tls_wifi_softap_create == softap' = IF softap = "off" THEN "creating" ELSE softap

(* Does the configuration name a network, a soft AP? *)
StaConfigured == config.protocol \in {"infra", "both"} /\ (config.ssid \/ config.bssid)
ApConfigured == config.protocol \in {"softap", "both"}

(* tls_auto_reconnect_softap, which gives up when there is no memory *)
tls_auto_reconnect_softap == tls_wifi_softap_create \/ UNCHANGED softap

(* sys_net_up: with DHCP the address comes later (NETIF_IP_NET_UP), without *)
(* it the stored one is set and the interface is ready                      *)
sys_net_up ==
    /\ current = "NET_UP"
    /\ netif' = [netif EXCEPT !["sta"] = TRUE]
    /\ netif_status' = (netif_status \/ ~config.dhcp)
    /\ step' = "done"
    /\ UNCHANGED auto

(* Mutant: no reconnection after the interface has gone down *)
sys_net_down_NoReconnect ==
    /\ current \in {"NET_DOWN", "CONNECT_FAILED"}
    /\ netif' = [netif EXCEPT !["sta"] = FALSE]
    /\ netif_status' = FALSE
    /\ step' = "done"
    /\ UNCHANGED auto

(* sys_net_down, also for a failed connection; then tls_auto_reconnect(1) *)
sys_net_down ==
    /\ current \in {"NET_DOWN", "CONNECT_FAILED"}
    /\ netif' = [netif EXCEPT !["sta"] = FALSE]
    /\ netif_status' = FALSE
    /\ step' = "get"
    /\ UNCHANGED auto

(* sys_net2_up, sys_net2_down; a failed soft AP is followed by a reconnect *)
sys_net2_up ==
    /\ current = "NET2_UP"
    /\ netif' = [netif EXCEPT !["ap"] = TRUE]
    /\ step' = "done"
    /\ UNCHANGED <<netif_status, auto>>


sys_net2_down ==
    /\ current \in {"NET2_DOWN", "NET2_FAIL"}
    /\ netif' = [netif EXCEPT !["ap"] = FALSE]
    /\ step' = IF current = "NET2_FAIL" THEN "get" ELSE "done"
    /\ UNCHANGED <<netif_status, auto>>

(* SYS_MSG_AUTO_MODE_RUN restores a flag that is temporarily off; reading   *)
(* and setting the flag are two calls                                       *)
AutoModeRun ==
    /\ current = "AUTO_MODE_RUN"
    /\ step' = IF auto = "TMP_OFF" THEN "restore" ELSE "get"
    /\ UNCHANGED <<netif, netif_status, auto>>

AutoModeRestore ==
    /\ step = "restore"
    /\ auto' = "ON"
    /\ step' = "get"
    /\ UNCHANGED <<netif, netif_status>>

(* tls_auto_reconnect: read the flag *)
ReconnectFlag ==
    /\ step = "get"
    /\ step' = CASE auto = "OFF" -> "done"
                 [] auto = "TMP_OFF" -> "set"
                 [] auto = "ON" -> "connect"
    /\ UNCHANGED <<netif, netif_status, auto>>

(* temporarily off: switch it on again, without a connection *)
ReconnectSet ==
    /\ step = "set"
    /\ auto' = "ON"
    /\ step' = "done"
    /\ UNCHANGED <<netif, netif_status>>

(* after the delay of 1500 ticks: connect, or create the soft AP *)
ReconnectConnect ==
    /\ task = "handle" /\ step = "connect"
    /\ \/ /\ StaConfigured
          /\ tls_wifi_connect
          /\ UNCHANGED softap
       \/ /\ config.protocol = "softap"
          /\ tls_auto_reconnect_softap
          /\ UNCHANGED wifi
       \/ /\ ~StaConfigured /\ config.protocol # "softap"
          /\ UNCHANGED <<wifi, softap>>
    /\ step' = "done"
    /\ UNCHANGED <<taskvars, config, netif, netif_status, auto, app, accepted>>

Handler ==
    /\ task = "handle"
    /\ \/ /\ step = "start"
          /\ sys_net_up \/ sys_net_down \/ sys_net2_up \/ sys_net2_down \/ AutoModeRun
       \/ AutoModeRestore \/ ReconnectFlag \/ ReconnectSet
    /\ UNCHANGED <<taskvars, config, wifi, softap, app, accepted>>


HandlerReturn ==
    /\ step = "done"
    /\ Handled
    /\ step' = "start"
    /\ UNCHANGED <<config, netif, netif_status, auto, wifi, softap, app, accepted>>

-----------------------------------------------------------------------------
(* The driver reports an event: the callback sends m, unless there is no    *)
(* memory for it                                                            *)
Report(m) ==
    \/ SendMsg(Driver, m)
    \/ pc[Driver] = "idle" /\ UNCHANGED taskvars

(* sys_net_status_changed for the station events *)
StationEvent ==
    /\ \/ wifi = "connecting" /\ wifi' = "joined" /\ Report("NET_UP")
       \/ wifi = "connecting" /\ wifi' = "off" /\ Report("CONNECT_FAILED")
       \/ wifi \in {"joined", "leaving"} /\ wifi' = "off" /\ Report("NET_DOWN")
    /\ UNCHANGED <<config, netif, netif_status, auto, softap, app, step,
                   accepted>>

(* sys_net_status_changed for the soft-AP events *)
SoftapEvent ==
    /\ \/ softap = "creating" /\ softap' = "joined" /\ Report("NET2_UP")
       \/ softap = "creating" /\ softap' = "off" /\ Report("NET2_FAIL")
       \/ softap = "joined" /\ softap' = "off" /\ Report("NET2_DOWN")
    /\ UNCHANGED <<config, netif, netif_status, auto, wifi, app, step,
                   accepted>>

(* NETIF_IP_NET_UP: DHCP has bound an address; a configured soft AP that is *)
(* not running is started                                                   *)
IpNetUp ==
    /\ pc[Driver] = "idle"
    /\ config.dhcp /\ netif["sta"] /\ ~netif_status /\ wifi = "joined"
    /\ netif_status' = TRUE
    /\ \/ ApConfigured /\ softap # "joined" /\ tls_auto_reconnect_softap
       \/ ~(ApConfigured /\ softap # "joined") /\ UNCHANGED softap
    /\ UNCHANGED <<taskvars, config, netif, auto, wifi, app, step, accepted>>

(* tls_sys_auto_mode_run, from any task *)
tls_sys_auto_mode_run(s) ==
    /\ SendMsg(s, "AUTO_MODE_RUN")
    /\ UNCHANGED netvars

(* luat_wlan_connect: connect, then switch the flag on *)
luat_wlan_connect ==
    /\ \/ app = "idle" /\ app' = "connecting" /\ tls_wifi_connect /\ UNCHANGED auto
       \/ app = "connecting" /\ app' = "idle" /\ auto' = "ON" /\ UNCHANGED wifi
    /\ UNCHANGED <<taskvars, config, netif, netif_status, softap, step,
                   accepted>>

(* luat_wlan_disconnect: switch the flag off, then disconnect.  A user of   *)
(* the SDK may switch it off temporarily instead (wm_wifi.h).               *)
luat_wlan_disconnect ==
    /\ \/ app = "idle" /\ app' = "disconnecting" /\ auto' \in OffModes
          /\ UNCHANGED wifi
       \/ app = "disconnecting" /\ app' = "idle" /\ tls_wifi_disconnect
          /\ UNCHANGED auto
    /\ UNCHANGED <<taskvars, config, netif, netif_status, softap, step,
                   accepted>>

(* history: what a step of tls_sys_send_msg adds to the queue *)
Record(s) ==
    accepted' = IF msg_queue' = msg_queue THEN accepted
                ELSE CASE pmsg[s] \in StaMessages -> [accepted EXCEPT !["sta"] = (pmsg[s] = "NET_UP")]
                       [] pmsg[s] \in ApMessages -> [accepted EXCEPT !["ap"] = (pmsg[s] = "NET2_UP")]
                       [] OTHER -> accepted

SendStep(s) ==
    /\ SenderStep(s)
    /\ Record(s)
    /\ UNCHANGED <<config, netif, netif_status, auto, wifi, softap, app, step>>

TaskOnly ==
    /\ Receive \/ TaskAcquire \/ TaskCheck \/ TaskFree
    /\ UNCHANGED netvars

NetNext ==
    \/ Handler \/ ReconnectConnect \/ HandlerReturn
    \/ StationEvent \/ SoftapEvent \/ IpNetUp
    \/ luat_wlan_connect \/ luat_wlan_disconnect
    \/ \E s \in Senders : tls_sys_auto_mode_run(s) \/ SendStep(s)
    \/ TaskOnly

NetSpec == NetInit /\ [][NetNext]_vars

(* As in SysTask: the tasks are scheduled, and the semaphore is given to    *)
(* each task that waits for it in turn.  The driver need not report.        *)
NetFairSpec ==
    /\ NetSpec
    /\ WF_vars(Handler) /\ WF_vars(ReconnectConnect) /\ WF_vars(HandlerReturn)
    /\ WF_vars(TaskOnly) /\ SF_vars(TaskAcquire /\ UNCHANGED netvars)
    /\ \A s \in Senders : WF_vars(SendStep(s)) /\ SF_vars(SendAcquire(s) /\ SendStep(s))

-----------------------------------------------------------------------------
(* A message for interface i is still to be handled *)
Pending(M) ==
    \/ \E k \in DOMAIN msg_queue : msg_queue[k] \in M
    \/ task = "handle" /\ step = "start" /\ current \in M



(* A lost connection whose message is in the queue while the flag is on is  *)
(* followed by a new attempt, unless the flag is switched meanwhile.        *)
Reconnects ==
    (/\ StaConfigured /\ auto = "ON"
     /\ \E k \in DOMAIN msg_queue : msg_queue[k] \in {"NET_DOWN", "CONNECT_FAILED"})
        ~> (wifi # "off" \/ auto # "ON")
=============================================================================

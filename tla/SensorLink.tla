----------------------------- MODULE SensorLink -----------------------------
(***************************************************************************)
(* How the firmware finds, connects to and subscribes to the Bluetooth     *)
(* sensor tag: esp_gap_cb and gattc_profile_BA5C_event_handler of          *)
(* Bluetooth/esp32iot_bluetooth.c.  (What it does with the readings is in  *)
(* SensorData.)                                                            *)
(*                                                                         *)
(* The handlers are callbacks, run one at a time by the Bluetooth callback *)
(* task.  Events reach that task in a queue, and what a handler asks of    *)
(* the stack is queued for the stack's own task, so that scan results and  *)
(* lost connections overtake what the handlers believe.  The stack, the    *)
(* radio and the tags are the vendor's: external.                          *)
(***************************************************************************)
EXTENDS Integers, Sequences

CONSTANTS
    Devices,    \* addresses of the tags that advertise the name searched for
    MaxEvents   \* bound: events queued before another scan result is

Services == {"HTU21D", "MS5637", "Battery"}

None == "none"

ASSUME LinkConstants ==
    /\ Devices # {} /\ None \notin Devices /\ Services \cap Devices = {}
    /\ MaxEvents \in Nat \ {0}

VARIABLES
    conn_device,     \* BA5C_handle_data.conn_device
    Isconnecting,    \* a connection is being opened, or is open
    stop_scan_done,  \* the scan was stopped because a device is connected
    remote_bda,      \* gl_profile_tab[...].remote_bda
    get_service,     \* the services whose *_get_service flag is set
    data_char,       \* the services whose *_data_char_handle is known
    events,          \* events queued for the callback task
    api,             \* requests queued for the stack
    scanning,        \* the stack is scanning
    link,            \* the stack's connection: "none", "opening" or "up"
    peer,            \* the tag it is with
    enabled,         \* services whose notifications the tag has enabled
    faults           \* history: what has gone wrong, see FaultKinds

appVars == <<conn_device, Isconnecting, stop_scan_done, remote_bda, get_service, data_char>>
stackVars == <<scanning, link, peer, enabled>>
vars == <<appVars, events, api, stackVars, faults>>

(* "refused": the stack could not start to open a connection; "expired": a *)
(* scan lasted its 30 seconds; "search": a service, a characteristic, a    *)
(* descriptor or the memory for one was not found.  Tags that do not       *)
(* answer and connections that break are not recorded: no property needs   *)
(* to exclude them.                                                        *)
FaultKinds == {"refused", "expired", "search"}

Fault(kind) == faults' = faults \cup {kind}

Event(type, arg, ok) == [type |-> type, arg |-> arg, ok |-> ok]

Request(call, arg) == [call |-> call, arg |-> arg]

Args == Devices \cup Services \cup {None}

EventTypes == {"REG", "SCAN_PARAM_SET", "SCAN_RESULT", "OPEN", "CFG_MTU", "SEARCH_RES",
               "SEARCH_CMPL", "REG_FOR_NOTIFY", "DISCONNECT"}

Calls == {"set_scan_params", "start_scanning", "stop_scanning", "open", "send_mtu_req",
          "search_service", "register_for_notify", "write_char_descr"}

(* Events and requests about a tag name a tag, those about a service name  *)
(* a service.                                                              *)
QueuedEvents ==
    {e \in [type : EventTypes, arg : Args, ok : BOOLEAN] :
       /\ e.type \in {"SCAN_RESULT", "OPEN", "DISCONNECT"} => e.arg \in Devices
       /\ e.type \in {"SEARCH_RES", "REG_FOR_NOTIFY"} => e.arg \in Services}

QueuedRequests ==
    {r \in [call : Calls, arg : Args] :
       /\ r.call = "open" => r.arg \in Devices
       /\ r.call \in {"search_service", "register_for_notify", "write_char_descr"}
            => r.arg \in Services}

TypeOK ==
    /\ conn_device \in BOOLEAN /\ Isconnecting \in BOOLEAN /\ stop_scan_done \in BOOLEAN
    /\ remote_bda \in Devices \cup {None}
    /\ get_service \subseteq Services /\ data_char \subseteq Services
    /\ events \in Seq(QueuedEvents) /\ api \in Seq(QueuedRequests)
    /\ scanning \in BOOLEAN /\ link \in {"none", "opening", "up"}
    /\ peer \in Devices \cup {None} /\ enabled \subseteq Services
    /\ link # "none" => peer \in Devices
    /\ faults \subseteq FaultKinds

(* bluetooth_initialize has registered the application. *)
Init ==
    /\ conn_device = FALSE /\ Isconnecting = FALSE /\ stop_scan_done = FALSE
    /\ remote_bda = None /\ get_service = {} /\ data_char = {}
    /\ events = <<Event("REG", None, TRUE)>> /\ api = <<>>
    /\ scanning = FALSE /\ link = "none" /\ peer = None /\ enabled = {}
    /\ faults = {}
-----------------------------------------------------------------------------
(* The callbacks.                                                          *)

(* esp_gattc_cb and the dispatch on the event. *)
Handles(type) ==
    /\ events # <<>> /\ Head(events).type = type
    /\ events' = Tail(events)
    /\ UNCHANGED stackVars

Arg == Head(events).arg

Ask(requests) == api' = api \o requests

(* A start_scan that forgets to clear Isconnecting. *)
StartScanDeaf ==
    /\ stop_scan_done' = FALSE
    /\ UNCHANGED Isconnecting
    /\ Ask(<<Request("start_scanning", None)>>)

start_scan ==
    /\ stop_scan_done' = FALSE
    /\ Isconnecting' = FALSE
    /\ Ask(<<Request("start_scanning", None)>>)

Registered ==
    /\ Handles("REG")
    /\ Ask(<<Request("set_scan_params", None)>>)
    /\ UNCHANGED appVars

ScanParamSet ==
    /\ Handles("SCAN_PARAM_SET")
    /\ Ask(<<Request("start_scanning", None)>>)
    /\ UNCHANGED appVars

(* A scan result that is acted on although a connection is being opened. *)
ScanResultUnguarded ==
    /\ Handles("SCAN_RESULT")
    /\ conn_device' = TRUE
    /\ Isconnecting' = TRUE
    /\ Ask(<<Request("stop_scanning", None), Request("open", Arg)>>)
    /\ UNCHANGED <<stop_scan_done, remote_bda, get_service, data_char>>

(* A scan result that is acted on only until a tag has once been connected. *)
ScanResultOnce ==
    /\ Handles("SCAN_RESULT")
    /\ IF Isconnecting \/ remote_bda # None
       THEN UNCHANGED <<api, conn_device, Isconnecting>>
       ELSE /\ conn_device' = TRUE
            /\ Isconnecting' = TRUE
            /\ Ask(<<Request("stop_scanning", None), Request("open", Arg)>>)
    /\ UNCHANGED <<stop_scan_done, remote_bda, get_service, data_char>>

(* ESP_GAP_SEARCH_INQ_RES_EVT: an advertisement with the name searched     *)
(* for.  (Any other can only take the second branch.)                      *)
ScanResult ==
    /\ Handles("SCAN_RESULT")
    /\ IF Isconnecting \/ (conn_device /\ stop_scan_done)
       THEN UNCHANGED <<api, conn_device, Isconnecting, stop_scan_done>>
       ELSE IF conn_device
       THEN /\ stop_scan_done' = TRUE
            /\ Ask(<<Request("stop_scanning", None)>>)
            /\ UNCHANGED <<conn_device, Isconnecting>>
       ELSE /\ conn_device' = TRUE
            /\ Isconnecting' = TRUE
            /\ Ask(<<Request("stop_scanning", None), Request("open", Arg)>>)
            /\ UNCHANGED stop_scan_done
    /\ UNCHANGED <<remote_bda, get_service, data_char>>

(* A failed open that leaves the device marked as connected. *)
OpenFailedUnnoticed ==
    /\ Handles("OPEN") /\ ~Head(events).ok
    /\ UNCHANGED <<appVars, api>>

OpenFailed ==
    /\ Handles("OPEN") /\ ~Head(events).ok
    /\ conn_device' = FALSE
    /\ UNCHANGED <<api, Isconnecting, stop_scan_done, remote_bda, get_service, data_char>>

Opened ==
    /\ Handles("OPEN") /\ Head(events).ok
    /\ remote_bda' = Arg
    /\ Ask(<<Request("send_mtu_req", Arg)>>)
    /\ UNCHANGED <<conn_device, Isconnecting, stop_scan_done, get_service, data_char>>

(* Whether or not the MTU was set, the three services are searched for. *)
CfgMtu ==
    /\ Handles("CFG_MTU")
    /\ Ask(<<Request("search_service", "HTU21D"), Request("search_service", "MS5637"),
             Request("search_service", "Battery")>>)
    /\ UNCHANGED appVars

(* A search result that leaves the flags of the other services alone. *)
SearchResAdds ==
    /\ Handles("SEARCH_RES")
    /\ get_service' = get_service \cup {Arg}
    /\ UNCHANGED <<api, conn_device, Isconnecting, stop_scan_done, remote_bda, data_char>>

SearchRes ==
    /\ Handles("SEARCH_RES")
    /\ get_service' = {Arg}
    /\ UNCHANGED <<api, conn_device, Isconnecting, stop_scan_done, remote_bda, data_char>>

(* The service an if-else chain over the flags settles on. *)
FirstService ==
    IF "HTU21D" \in get_service THEN "HTU21D"
    ELSE IF "MS5637" \in get_service THEN "MS5637"
    ELSE IF "Battery" \in get_service THEN "Battery"
    ELSE None

(* The end of a search taken for a success whatever it found. *)
SearchCmplUnchecked ==
    /\ Handles("SEARCH_CMPL")
    /\ data_char' = data_char \cup {FirstService}
    /\ Ask(<<Request("register_for_notify", FirstService)>>)
    /\ UNCHANGED <<faults, conn_device, Isconnecting, stop_scan_done, remote_bda, get_service>>

(* The end of a search says nothing of what was searched for: the handler  *)
(* goes by the flags.  It registers for the notifications of the data      *)
(* characteristic, if the stack, which looks it up for a connection that   *)
(* is up, finds one.                                                       *)
SearchCmpl ==
    /\ Handles("SEARCH_CMPL")
    /\ \/ /\ Head(events).ok /\ FirstService # None /\ link = "up"
          /\ data_char' = data_char \cup {FirstService}
          /\ Ask(<<Request("register_for_notify", FirstService)>>)
          /\ UNCHANGED faults
       \/ /\ IF Head(events).ok /\ FirstService # None /\ link = "up"
             THEN Fault("search") ELSE UNCHANGED faults
          /\ UNCHANGED <<data_char, api>>
    /\ UNCHANGED <<conn_device, Isconnecting, stop_scan_done, remote_bda, get_service>>

(* The descriptor is looked up in the same way, and written only for a     *)
(* handle the handler knows.                                               *)
RegForNotify ==
    /\ Handles("REG_FOR_NOTIFY")
    /\ \/ /\ Head(events).ok /\ Arg \in data_char /\ link = "up"
          /\ Ask(<<Request("write_char_descr", Arg)>>)
          /\ UNCHANGED faults
       \/ /\ IF Head(events).ok /\ Arg \in data_char /\ link = "up"
             THEN Fault("search") ELSE UNCHANGED faults
          /\ UNCHANGED api
    /\ UNCHANGED appVars

Disconnected ==
    /\ Handles("DISCONNECT")
    /\ start_scan
    /\ IF Arg = remote_bda
       THEN conn_device' = FALSE /\ get_service' = {}
       ELSE UNCHANGED <<conn_device, get_service>>
    /\ UNCHANGED <<remote_bda, data_char>>

Callback ==
    \/ /\ \/ Registered \/ ScanParamSet \/ ScanResult \/ OpenFailed \/ Opened
          \/ CfgMtu \/ SearchRes \/ Disconnected
       /\ UNCHANGED faults
    \/ SearchCmpl \/ RegForNotify
-----------------------------------------------------------------------------
(* The stack.                                                              *)

Serves(call) ==
    /\ api # <<>> /\ Head(api).call = call
    /\ api' = Tail(api)
    /\ UNCHANGED appVars

Post(es) == events' = events \o es

SetScanParams ==
    /\ Serves("set_scan_params")
    /\ Post(<<Event("SCAN_PARAM_SET", None, TRUE)>>)
    /\ UNCHANGED stackVars

(* A scan that is under way goes on. *)
StartScanning ==
    /\ Serves("start_scanning")
    /\ scanning' = TRUE
    /\ UNCHANGED <<events, link, peer, enabled>>

StopScanning ==
    /\ Serves("stop_scanning")
    /\ scanning' = FALSE
    /\ UNCHANGED <<events, link, peer, enabled>>

(* A connection that cannot even be started is reported at once. *)
Open ==
    /\ Serves("open") /\ link = "none"
    /\ \/ /\ link' = "opening" /\ peer' = Head(api).arg
          /\ UNCHANGED <<events, faults>>
       \/ /\ Post(<<Event("OPEN", Head(api).arg, FALSE)>>)
          /\ Fault("refused")
          /\ UNCHANGED <<link, peer>>
    /\ UNCHANGED <<scanning, enabled>>

(* Requests about a connection that is gone are dropped. *)
Attribute(call, es) ==
    /\ Serves(call)
    /\ Post(IF link = "up" THEN es ELSE <<>>)
    /\ UNCHANGED <<scanning, link, peer>>

SendMtuReq ==
    /\ Attribute("send_mtu_req", <<Event("CFG_MTU", None, TRUE)>>)
    /\ UNCHANGED enabled

(* The results of a search and its end come together. *)
SearchService ==
    /\ \/ /\ Attribute("search_service", <<Event("SEARCH_RES", Head(api).arg, TRUE),
                                         Event("SEARCH_CMPL", None, TRUE)>>)
          /\ UNCHANGED faults
       \/ /\ \E ok \in BOOLEAN : Attribute("search_service", <<Event("SEARCH_CMPL", None, ok)>>)
          /\ Fault("search")
    /\ UNCHANGED enabled

RegisterForNotify ==
    /\ Serves("register_for_notify")
    /\ \E ok \in BOOLEAN :
         /\ Post(<<Event("REG_FOR_NOTIFY", Head(api).arg, ok)>>)
         /\ IF ok THEN UNCHANGED faults ELSE Fault("search")
    /\ UNCHANGED stackVars

WriteCharDescr ==
    /\ Attribute("write_char_descr", <<>>)
    /\ enabled' = IF link = "up" THEN enabled \cup {Head(api).arg} ELSE enabled

Stack ==
    \/ /\ \/ SetScanParams \/ StartScanning \/ StopScanning \/ SendMtuReq
          \/ WriteCharDescr
       /\ UNCHANGED faults
    \/ Open \/ SearchService \/ RegisterForNotify
-----------------------------------------------------------------------------
(* The radio and the tags.                                                 *)

(* A tag advertises unless it is connected. *)
Advertise(d) ==
    /\ scanning /\ Len(events) < MaxEvents
    /\ link = "up" => d # peer
    /\ Post(<<Event("SCAN_RESULT", d, TRUE)>>)
    /\ UNCHANGED <<appVars, api, stackVars, faults>>

ScanExpires ==
    /\ scanning
    /\ scanning' = FALSE
    /\ Fault("expired")
    /\ UNCHANGED <<appVars, events, api, link, peer, enabled>>

TagAnswers ==
    /\ link = "opening"
    /\ link' = "up" /\ enabled' = {}
    /\ Post(<<Event("OPEN", peer, TRUE)>>)
    /\ UNCHANGED <<appVars, api, scanning, peer, faults>>

(* The stack reports the end of a connection that never was, then the      *)
(* failure to open it.                                                     *)
TagDoesNotAnswer ==
    /\ link = "opening"
    /\ link' = "none" /\ peer' = None
    /\ Post(<<Event("DISCONNECT", peer, TRUE), Event("OPEN", peer, FALSE)>>)
    /\ UNCHANGED <<appVars, api, scanning, enabled, faults>>

LinkLost ==
    /\ link = "up"
    /\ link' = "none" /\ peer' = None /\ enabled' = {}
    /\ Post(<<Event("DISCONNECT", peer, TRUE)>>)
    /\ UNCHANGED <<appVars, api, scanning, faults>>

Radio ==
    \/ \E d \in Devices : Advertise(d)
    \/ ScanExpires \/ TagAnswers \/ TagDoesNotAnswer \/ LinkLost

Next == Callback \/ Stack \/ Radio

Spec == Init /\ [][Next]_vars

(* The callback task and the stack's task run whenever they have something *)
(* queued, and a tag that is not connected goes on advertising.  Nothing   *)
(* is assumed of whether it answers.                                       *)
FairSpec ==
    /\ Spec
    /\ WF_vars(Callback) /\ WF_vars(Stack)
    /\ \A d \in Devices : WF_vars(Advertise(d))
-----------------------------------------------------------------------------
OpenRequests == {i \in 1..Len(api) : api[i].call = "open"}

(* The stack has reported, or will next, that there is no connection. *)
EndReported ==
    \E i \in 1..Len(events) :
        \/ events[i].type = "DISCONNECT"
        \/ events[i].type = "OPEN" /\ ~events[i].ok

(* esp_gap_cb opens a connection only if conn_device is false, and only    *)
(* two handlers clear it.  It is set as long as a connection is asked for, *)
(* being opened or up, and it never outlives them except until the event   *)
(* that reports the end is handled: a phantom device would keep the tag    *)
(* from ever being opened again.                                           *)
ConnDeviceIsTrue ==
    /\ OpenRequests # {} \/ link # "none" => conn_device
    /\ conn_device => OpenRequests # {} \/ link # "none" \/ EndReported

(* However many scan results are queued when the first is acted on, from   *)
(* however many tags, one connection is opened at a time.                  *)
OneConnection ==
    /\ \A i, j \in OpenRequests : i = j
    /\ OpenRequests # {} => link = "none"

(* While Isconnecting is set every advertisement is ignored, so it must    *)
(* not be set when there is no connection to wait for.  The handler of a   *)
(* failed open leaves that to the DISCONNECT event that comes before it;   *)
(* only a stack that cannot even start to open a connection sends none.    *)
ListensWhenFree == Isconnecting => conn_device \/ "refused" \in faults

(* A client without a connection tries to open one.  The "Start scanning   *)
(* again" of ESP_GATTC_DISCONNECT_EVT is enough for a tag that cannot be   *)
(* reached at first or is lost later, as long as no scan expires and the   *)
(* stack does not refuse to open a connection.                             *)
SensorIsSought ==
    []({"refused", "expired"} \cap faults = {}) => (link = "none" ~> link # "none")

(* The three searches of ESP_GATTC_CFG_MTU_EVT share one set of flags, and *)
(* their ends are told apart by nothing else.  All the same, if every      *)
(* service is found, each has its notifications enabled unless the         *)
(* connection is lost first.                                               *)
ServicesAreEnabled ==
    []("search" \notin faults) =>
        (link = "up" ~> (enabled = Services \/ link # "up"))
=============================================================================

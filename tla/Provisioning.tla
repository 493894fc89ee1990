---------------------------- MODULE Provisioning ----------------------------
(***************************************************************************)
(* How the device gets onto a WiFi network and to the MQTT broker:         *)
(* wifi_start, the WiFi event handler (esp32iot_wifi.c) and the pages of   *)
(* the HTTP server (esp32iot_http_server.c).  The event task and the HTTP  *)
(* task share actual_wifi, the stored settings, the WiFi driver and the    *)
(* one MQTT client, without locks.                                         *)
(*                                                                         *)
(* Settings are modelled part by part, a part being the network or account *)
(* it belongs to.  What NVS does with a write, and the restart counter,    *)
(* are the subject of Storage: here a write is durable.  The WiFi driver,  *)
(* the broker and the user are external.                                   *)
(***************************************************************************)
EXTENDS Naturals, Sequences

CONSTANTS
    Networks,      \* WiFi networks the user may enter
    Accounts,      \* MQTT accounts the user may enter
    GoodAccounts,  \* those the broker accepts
    Empty,         \* the empty string
    Garbage,       \* what an uninitialized or dead buffer may hold
    MaxEvents,     \* bound: events queued when the driver posts another
    MaxLosses      \* bound: power losses

ASSUME ConstantsAssumption ==
    /\ GoodAccounts \subseteq Accounts
    /\ {Empty, Garbage} \cap (Networks \cup Accounts) = {} /\ Empty # Garbage
    /\ MaxEvents \in Nat /\ MaxLosses \in Nat

VARIABLES
    mode,         \* of the driver; "off" before wifi_start
    sta,          \* the driver's station
    config,       \* the station's configuration
    events,       \* the queue of the event task
    event,        \* place reached by the event task
    buffer,       \* its local username, password and clientID
    http,         \* place reached by the HTTP task
    form,         \* what the request it serves has entered
    actual_wifi,
    wifi,         \* stored: last_ssid, last_password
    mqtt,         \* stored: mqtt_user, mqtt_pass, mqtt_id
    client,       \* mqttClient: account, whether that points into the event
                  \* task's buffer, and isconnected
    sent,         \* the account of the CONNECT each task waits for
    bluetooth,    \* Bluetooth is initialized
    publisher,    \* a task made by xTaskCreate runs cayenne_task
    losses,       \* power losses
    \* history
    worked,       \* the accounts with which connectClient succeeded
    shared        \* one task set up the client while the other connected it

driverVars == <<mode, sta, config, events>>
eventVars == <<event, buffer>>
httpVars == <<http, form, actual_wifi>>
storedVars == <<wifi, mqtt>>
clientVars == <<client, sent, worked, shared>>
restVars == <<bluetooth, publisher, losses>>
vars == <<driverVars, eventVars, httpVars, storedVars, clientVars, restVars>>

Pair(x) == [ssid |-> x, password |-> x]
Account(x) == [user |-> x, pass |-> x, id |-> x]
NoClient == [account |-> Account(Empty), local |-> FALSE, isconnected |-> FALSE]

HasStation == mode \in {"sta", "apsta"}

(* Places between a task's CayenneInit and the end of its connectClient.   *)
EventConnecting == event \in {"test", "first", "retry", "again"}
HttpConnecting == http \in {"mqtt_connect", "mqtt_wait"}

-----------------------------------------------------------------------------
Init ==
    /\ mode = "off" /\ sta = "idle" /\ config = Pair(Empty) /\ events = <<>>
    /\ event = "idle" /\ buffer = Account(Empty)
    /\ http = "idle" /\ form = Empty
    /\ actual_wifi = Pair(Empty)
    /\ wifi = Pair(Empty) /\ mqtt = Account(Empty)
    /\ client = NoClient /\ sent = [t \in {"event", "http"} |-> Account(Empty)]
    /\ bluetooth = FALSE /\ publisher = FALSE
    /\ losses = 0 /\ worked = {} /\ shared = FALSE

(* esp_restart, or the abort of a failed ESP_ERROR_CHECK: the stored       *)
(* settings are all that is left.                                          *)
Reboots ==
    /\ mode' = "off" /\ sta' = "idle" /\ config' = Pair(Empty) /\ events' = <<>>
    /\ event' = "idle" /\ buffer' = Account(Empty)
    /\ http' = "idle" /\ form' = Empty
    /\ actual_wifi' = Pair(Empty)
    /\ client' = NoClient /\ sent' = [t \in {"event", "http"} |-> Account(Empty)]
    /\ bluetooth' = FALSE /\ publisher' = FALSE
    /\ UNCHANGED <<worked, shared>>

PowerLoss ==
    /\ mode # "off" /\ losses < MaxLosses
    /\ losses' = losses + 1
    /\ Reboots
    /\ UNCHANGED storedVars

(* (mutant: a device without settings waits for a station to be configured)*)
StartIdle ==
    /\ mode = "off"
    /\ actual_wifi' = wifi
    /\ mode' = IF wifi.ssid # Empty /\ wifi.password # Empty THEN "sta" ELSE "none"
    /\ events' = IF mode' = "sta" THEN <<"STA_START">> ELSE <<>>
    /\ config' = IF mode' = "sta" THEN wifi ELSE config
    /\ UNCHANGED <<sta, eventVars, http, form, storedVars, clientVars, restVars>>

(* app_main's wifi_start, with wifi_sta_configure or wifi_ap_configure. *)
wifi_start ==
    /\ mode = "off"
    /\ actual_wifi' = wifi
    /\ mode' = IF wifi.ssid # Empty /\ wifi.password # Empty THEN "sta" ELSE "ap"
    /\ events' = IF mode' = "sta" THEN <<"STA_START">> ELSE <<>>
    /\ config' = IF mode' = "sta" THEN wifi ELSE config
    /\ UNCHANGED <<sta, eventVars, http, form, storedVars, clientVars, restVars>>

-----------------------------------------------------------------------------
(* The WiFi driver *)

(* A station that appears while the driver runs is announced; one that     *)
(* goes away loses its connection.  queue: the events still to be handled. *)
esp_wifi_set_mode(m, queue) ==
    /\ mode' = m
    /\ sta' = IF m = "ap" THEN "idle" ELSE sta
    /\ events' = CASE m = "apsta" /\ ~HasStation -> Append(queue, "STA_START")
                   [] m = "ap" /\ sta # "idle"   -> Append(queue, "STA_DISCONNECTED")
                   [] OTHER                      -> queue

(* Has no effect on a station that is not idle. *)
esp_wifi_connect == sta' = IF sta = "idle" THEN "connecting" ELSE sta

Posts(s, e) ==
    /\ Len(events) < MaxEvents
    /\ sta' = s
    /\ events' = Append(events, e)
    /\ UNCHANGED <<mode, config, eventVars, httpVars, storedVars, clientVars, restVars>>

(* Only a network with its own password can be joined. *)
Joins ==
    /\ sta = "connecting"
    /\ config \in {Pair(n) : n \in Networks}
    /\ Posts("joined", "STA_CONNECTED")

GetsIp == sta = "joined" /\ Posts("online", "STA_GOT_IP")
JoinFails == sta = "connecting" /\ Posts("idle", "STA_DISCONNECTED")
ConnectionLost == sta \in {"joined", "online"} /\ Posts("idle", "STA_DISCONNECTED")

-----------------------------------------------------------------------------
(* The event task: wifi_event_handler *)

Handles(e) == event = "idle" /\ events # <<>> /\ Head(events) = e

StaStart ==
    /\ Handles("STA_START")
    /\ \/ /\ HasStation
          /\ esp_wifi_connect
          /\ events' = Tail(events)
          /\ UNCHANGED <<mode, config, eventVars, httpVars, clientVars, bluetooth, publisher>>
       \/ ~HasStation /\ Reboots
    /\ UNCHANGED <<storedVars, losses>>

(* save_last_connected_wifi reads actual_wifi as it writes; save_wifi      *)
(* follows, see Storage.                                                   *)
StaConnected ==
    /\ Handles("STA_CONNECTED")
    /\ events' = Tail(events)
    /\ wifi' = [wifi EXCEPT !.ssid = actual_wifi.ssid]
    /\ event' = "save_password"
    /\ UNCHANGED <<mode, sta, config, buffer, httpVars, mqtt, clientVars, restVars>>

SavePassword ==
    /\ event = "save_password"
    /\ wifi' = [wifi EXCEPT !.password = actual_wifi.password]
    /\ event' = "idle"
    /\ UNCHANGED <<driverVars, buffer, httpVars, mqtt, clientVars, restVars>>

(* (mutant: a lost connection is only logged) *)
DisconnectionLogged ==
    /\ Handles("STA_DISCONNECTED")
    /\ events' = Tail(events)
    /\ UNCHANGED <<mode, sta, config, eventVars, httpVars, storedVars, clientVars, restVars>>

(* wifi_ap_configure *)
StaDisconnected ==
    /\ Handles("STA_DISCONNECTED")
    /\ esp_wifi_set_mode("ap", Tail(events))
    /\ UNCHANGED <<config, eventVars, httpVars, storedVars, clientVars, restVars>>

(* SYSTEM_EVENT_STA_GOT_IP.  get_last_connected_mqtt leaves a buffer as it *)
(* is, uninitialized, when its key is not stored.                          *)
Found(part) == IF mqtt[part] # Empty THEN {mqtt[part]} ELSE {Empty, Garbage}

Reads(part) == {[buffer EXCEPT ![part] = v] : v \in Found(part)}

GotIp ==
    /\ Handles("STA_GOT_IP")
    /\ events' = Tail(events)
    /\ event' = "read_pass"
    /\ buffer' \in Reads("user")
    /\ UNCHANGED <<mode, sta, config, httpVars, storedVars, clientVars, restVars>>

ReadPass ==
    /\ event = "read_pass"
    /\ event' = "read_id"
    /\ buffer' \in Reads("pass")
    /\ UNCHANGED <<driverVars, httpVars, storedVars, clientVars, restVars>>

(* Nothing more happens unless all three are there. *)
ReadId ==
    /\ event = "read_id"
    /\ \E b \in Reads("id") :
         IF Empty \in {b.user, b.pass, b.id}
         THEN event' = "idle" /\ buffer' = Account(Empty)
         ELSE event' = "init" /\ buffer' = b
    /\ UNCHANGED <<driverVars, httpVars, storedVars, clientVars, restVars>>

(* One second later: CayenneInit, which keeps pointers to the buffer. *)
EventInit ==
    /\ event = "init"
    /\ client' = [account |-> buffer, local |-> TRUE, isconnected |-> FALSE]
    /\ shared' = (shared \/ HttpConnecting)
    /\ event' = "test"
    /\ UNCHANGED <<driverVars, buffer, httpVars, storedVars, sent, worked, restVars>>

(* The handler returns, connected, and its buffer is gone. *)
HandlerReturns ==
    /\ event' = "idle"
    /\ buffer' = Account(Empty)
    /\ client' = [account |-> IF client.local THEN Account(Garbage) ELSE client.account,
                  local |-> FALSE, isconnected |-> TRUE]

(* Connected already, by the other task: "C". *)
EventFindsConnection ==
    /\ event = "test" /\ client.isconnected
    /\ publisher' = TRUE
    /\ HandlerReturns
    /\ UNCHANGED <<driverVars, httpVars, storedVars, sent, worked, shared, bluetooth, losses>>

(* connectClient sends the CONNECT; without a network it fails before      *)
(* that.  In the loop that tries again, a client that is connected already *)
(* makes MQTTConnect fail, and nothing changes.                            *)
EventConnects ==
    /\ event \in {"test", "retry"} /\ ~client.isconnected /\ sta = "online"
    /\ sent' = [sent EXCEPT !["event"] = client.account]
    /\ event' = IF event = "test" THEN "first" ELSE "again"
    /\ UNCHANGED <<driverVars, buffer, httpVars, storedVars, client, worked, shared, restVars>>

EventFindsNoNetwork ==
    /\ event = "test" /\ ~client.isconnected /\ sta # "online"
    /\ event' = "retry"
    /\ UNCHANGED <<driverVars, buffer, httpVars, storedVars, clientVars, restVars>>

(* The broker accepts a CONNECT.  Both tasks may be waiting for a CONNACK, *)
(* in one flag and over one Network, and either may get the other's.       *)
Accepted(t) ==
    \E a \in GoodAccounts, u \in {"event", "http"} :
      /\ sent[u] = Account(a)
      /\ worked' = worked \cup {a}
      /\ sent' = [sent EXCEPT ![t] = Account(Empty)]

EventFirstAccepted ==
    /\ event = "first"
    /\ Accepted("event")
    /\ client' = [client EXCEPT !.isconnected = TRUE]
    /\ event' = "bluetooth"
    /\ UNCHANGED <<driverVars, buffer, httpVars, storedVars, shared, restVars>>

EventAccepted ==
    /\ event = "again"
    /\ Accepted("event")
    /\ publisher' = TRUE
    /\ HandlerReturns
    /\ UNCHANGED <<driverVars, httpVars, storedVars, shared, bluetooth, losses>>

(* (mutants: a failed connection is not tried again; is taken for one) *)
EventGivesUp ==
    /\ event \in {"first", "again"}
    /\ event' = "idle"
    /\ sent' = [sent EXCEPT !["event"] = Account(Empty)]
    /\ UNCHANGED <<driverVars, buffer, httpVars, storedVars, client, worked, shared, restVars>>

EventIgnoresRefusal ==
    /\ event \in {"first", "again"}
    /\ event' = "bluetooth"
    /\ client' = [client EXCEPT !.isconnected = TRUE]
    /\ sent' = [sent EXCEPT !["event"] = Account(Empty)]
    /\ UNCHANGED <<driverVars, buffer, httpVars, storedVars, worked, shared, restVars>>

(* The network or the broker fails it: again, for ever. *)
EventRefused ==
    /\ event \in {"first", "again"}
    /\ event' = "retry"
    /\ sent' = [sent EXCEPT !["event"] = Account(Empty)]
    /\ UNCHANGED <<driverVars, buffer, httpVars, storedVars, client, worked, shared, restVars>>

(* bluetooth_initialize cannot be called twice.  Then cayenne_task, for    *)
(* ever.                                                                   *)
EventStartsBluetooth ==
    /\ event = "bluetooth"
    /\ \/ /\ ~bluetooth
          /\ bluetooth' = TRUE
          /\ event' = "publishing"
          /\ UNCHANGED <<driverVars, buffer, httpVars, clientVars, publisher>>
       \/ bluetooth /\ Reboots
    /\ UNCHANGED <<storedVars, losses>>

-----------------------------------------------------------------------------
(* The HTTP task: http_server_netconn_serve *)

Reachable == mode \in {"ap", "apsta"} \/ sta = "online"

Serves == http = "idle" /\ Reachable

(* POST /wifi-setup: two strcpy, then wifi_apsta_configure and connect. *)
WifiSetup(n) ==
    /\ Serves
    /\ form' = n
    /\ actual_wifi' = [actual_wifi EXCEPT !.ssid = n]
    /\ http' = "wifi_password"
    /\ UNCHANGED <<driverVars, eventVars, storedVars, clientVars, restVars>>

CopyPassword ==
    /\ http = "wifi_password"
    /\ actual_wifi' = [actual_wifi EXCEPT !.password = form]
    /\ http' = "wifi_mode"
    /\ UNCHANGED <<driverVars, eventVars, form, storedVars, clientVars, restVars>>

SetCombinedMode ==
    /\ http = "wifi_mode"
    /\ esp_wifi_set_mode("apsta", events)
    /\ http' = "wifi_config"
    /\ UNCHANGED <<config, eventVars, form, actual_wifi, storedVars, clientVars, restVars>>

(* Both calls fail, and the device restarts, if the event task has taken   *)
(* the station away meanwhile.                                             *)
SetStationConfig ==
    /\ http = "wifi_config"
    /\ \/ /\ HasStation
          /\ config' = actual_wifi
          /\ http' = "wifi_connect"
          /\ UNCHANGED <<mode, sta, events, eventVars, form, actual_wifi, clientVars,
                         bluetooth, publisher>>
       \/ ~HasStation /\ Reboots
    /\ UNCHANGED <<storedVars, losses>>

ConnectStation ==
    /\ http = "wifi_connect"
    /\ \/ /\ HasStation
          /\ esp_wifi_connect
          /\ http' = "idle" /\ form' = Empty
          /\ UNCHANGED <<mode, config, events, eventVars, actual_wifi, clientVars,
                         bluetooth, publisher>>
       \/ ~HasStation /\ Reboots
    /\ UNCHANGED <<storedVars, losses>>

(* POST /mqtt-setup: CayenneInit, connectClient, and on success the save.  *)
MqttSetup(a) ==
    /\ Serves
    /\ form' = a
    /\ client' = [account |-> Account(a), local |-> FALSE, isconnected |-> FALSE]
    /\ shared' = (shared \/ EventConnecting)
    /\ http' = "mqtt_connect"
    /\ UNCHANGED <<driverVars, eventVars, actual_wifi, storedVars, sent, worked, restVars>>

HttpConnects ==
    /\ http = "mqtt_connect"
    /\ \/ /\ ~client.isconnected /\ sta = "online"
          /\ sent' = [sent EXCEPT !["http"] = client.account]
          /\ http' = "mqtt_wait"
          /\ UNCHANGED <<driverVars, eventVars, form, actual_wifi, client, worked, shared,
                         bluetooth, publisher>>
       \/ (client.isconnected \/ sta # "online") /\ Reboots
    /\ UNCHANGED <<storedVars, losses>>

HttpAccepted ==
    /\ http = "mqtt_wait"
    /\ Accepted("http")
    /\ client' = [client EXCEPT !.isconnected = TRUE]
    /\ http' = "save_user"
    /\ UNCHANGED <<driverVars, eventVars, form, actual_wifi, storedVars, shared, restVars>>

(* (mutant: the account is saved all the same) *)
HttpSavesRefused ==
    /\ http = "mqtt_wait"
    /\ http' = "save_user"
    /\ sent' = [sent EXCEPT !["http"] = Account(Empty)]
    /\ UNCHANGED <<driverVars, eventVars, form, actual_wifi, storedVars, client, worked, shared,
                   restVars>>

(* A failed connection restarts the device. *)
HttpRefused ==
    /\ http = "mqtt_wait"
    /\ Reboots
    /\ UNCHANGED <<storedVars, losses>>

(* save_last_connected_mqtt *)
Saves(place, part, next) ==
    /\ http = place
    /\ mqtt' = [mqtt EXCEPT ![part] = form]
    /\ http' = next
    /\ form' = IF next = "idle" THEN Empty ELSE form
    /\ UNCHANGED <<driverVars, eventVars, actual_wifi, wifi, clientVars, restVars>>

SaveAccount ==
    \/ Saves("save_user", "user", "save_pass")
    \/ Saves("save_pass", "pass", "save_id")
    \/ Saves("save_id", "id", "idle")

EraseWifiData ==
    /\ Serves
    /\ wifi' = Pair(Empty) /\ mqtt' = Account(Empty)
    /\ UNCHANGED <<driverVars, eventVars, httpVars, clientVars, restVars>>

BleTest ==
    /\ Serves
    /\ \/ /\ ~bluetooth
          /\ bluetooth' = TRUE
          /\ UNCHANGED <<driverVars, eventVars, httpVars, clientVars, publisher>>
       \/ bluetooth /\ Reboots
    /\ UNCHANGED <<storedVars, losses>>

RestartPage ==
    /\ Serves
    /\ Reboots
    /\ UNCHANGED <<storedVars, losses>>

-----------------------------------------------------------------------------
EventTask ==
    \/ StaStart \/ StaConnected \/ SavePassword \/ StaDisconnected
    \/ GotIp \/ ReadPass \/ ReadId \/ EventInit
    \/ EventFindsConnection \/ EventFindsNoNetwork \/ EventConnects
    \/ EventFirstAccepted \/ EventAccepted \/ EventRefused
    \/ EventStartsBluetooth

HttpTask ==
    \/ CopyPassword \/ SetCombinedMode \/ SetStationConfig \/ ConnectStation
    \/ HttpConnects \/ HttpAccepted \/ HttpRefused \/ SaveAccount

Request ==
    \/ \E n \in Networks : WifiSetup(n)
    \/ \E a \in Accounts : MqttSetup(a)
    \/ EraseWifiData \/ BleTest \/ RestartPage

Driver == Joins \/ GetsIp \/ JoinFails \/ ConnectionLost

Next == wifi_start \/ PowerLoss \/ EventTask \/ HttpTask \/ Request \/ Driver

Spec == Init /\ [][Next]_vars

(* The tasks run, the driver answers, and a broker that is asked again and *)
(* again with an account it knows accepts it.                              *)
FairSpec ==
    /\ Spec
    /\ WF_vars(wifi_start) /\ WF_vars(EventTask) /\ WF_vars(HttpTask)
    /\ WF_vars(Joins \/ JoinFails) /\ WF_vars(GetsIp)
    /\ SF_vars(EventAccepted)

-----------------------------------------------------------------------------
Parts == Accounts \cup {Empty, Garbage}
Triples == [user : Parts, pass : Parts, id : Parts]
Pairs == [ssid : Networks \cup {Empty}, password : Networks \cup {Empty}]

TypeOK ==
    /\ mode \in {"off", "sta", "ap", "apsta"}
    /\ sta \in {"idle", "connecting", "joined", "online"}
    /\ sta # "idle" => HasStation
    /\ config \in Pairs /\ actual_wifi \in Pairs /\ wifi \in Pairs
    /\ events \in Seq({"STA_START", "STA_CONNECTED", "STA_GOT_IP", "STA_DISCONNECTED"})
    /\ event \in {"idle", "save_password", "read_pass", "read_id", "init", "test", "first",
                  "retry", "again", "bluetooth", "publishing"}
    /\ buffer \in Triples /\ mqtt \in Triples
    /\ http \in {"idle", "wifi_password", "wifi_mode", "wifi_config", "wifi_connect",
                 "mqtt_connect", "mqtt_wait", "save_user", "save_pass", "save_id"}
    /\ form \in Networks \cup Accounts \cup {Empty}
    /\ client \in [account : Triples, local : BOOLEAN, isconnected : BOOLEAN]
    /\ sent \in [{"event", "http"} -> Triples]
    /\ bluetooth \in BOOLEAN /\ publisher \in BOOLEAN /\ losses \in 0..MaxLosses
    /\ worked \subseteq GoodAccounts /\ shared \in BOOLEAN

(* Whatever part of an MQTT account is stored belongs to an account the    *)
(* broker has accepted, through crashes between the writes, erasures and   *)
(* restarts, as long as the event task did not set up the client while the *)
(* page /mqtt-setup was connecting it.                                     *)
SavedAccountWorked ==
    ~shared => \A p \in DOMAIN mqtt : mqtt[p] = Empty \/ mqtt[p] \in worked

(* The endless loop of the GOT_IP handler publishes, if anything, over a   *)
(* connection of an account that was accepted, and under topics of that    *)
(* account, with the same proviso.                                         *)
PublishesUnderAccount ==
    event = "publishing" /\ client.isconnected /\ ~shared =>
        \E a \in worked : client.account = Account(a)

(* A device that no page can be reached on, because it is starting, or has *)
(* lost its network or never found it, becomes reachable again by itself;  *)
(* or its event task has gone on to the broker, where it handles no        *)
(* further event.                                                          *)
ReachableAgain ==
    ~Reachable ~> (Reachable \/ EventConnecting \/ event \in {"bluetooth", "publishing"})

(* Once the GOT_IP handler has read an account that the broker knows, the  *)
(* device publishes, however often connecting fails; or it loses its       *)
(* network, which the handler does not learn of while it tries, or         *)
(* restarts, or the page /mqtt-setup interfered.                           *)
AccountIsUsed ==
    (event = "init" /\ \E a \in GoodAccounts : buffer = Account(a)) ~>
        (publisher \/ event = "publishing" \/ sta # "online" \/ shared)

(* "Use bool values to determine if a packet type has been received. This  *)
(* only works if waitfor is called once at a time per type."  The two      *)
(* tasks wait for a CONNACK one at a time.                                 *)
ConnackAwaitedOnce == ~(event \in {"first", "again"} /\ http = "mqtt_wait")
=============================================================================

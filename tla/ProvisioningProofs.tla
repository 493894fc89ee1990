------------------------ MODULE ProvisioningProofs --------------------------
(***************************************************************************)
(* What is stored and what is published under, and the types of the        *)
(* device, for every set of networks and accounts, any number of power     *)
(* losses and any length of the event queue.                               *)
(***************************************************************************)
EXTENDS Provisioning, TLAPS

(* The types the argument needs: the page /mqtt-setup works on an account. *)
AccountTypes ==
    /\ http \in {"mqtt_connect", "mqtt_wait", "save_user", "save_pass", "save_id"} =>
         form \in Accounts
    /\ mqtt \in [{"user", "pass", "id"} -> Parts]
    /\ buffer \in Triples
    /\ client \in [account : Triples, local : BOOLEAN, isconnected : BOOLEAN]
    /\ sent \in [{"event", "http"} -> Triples]
    /\ worked \subseteq GoodAccounts

(* A task has a CONNECT under way only while it waits for the answer. *)
SentWhileWaiting ==
    /\ event \notin {"first", "again"} => sent["event"] = Account(Empty)
    /\ http # "mqtt_wait" => sent["http"] = Account(Empty)

(* Unless the tasks have met in the client: they do not connect it at the  *)
(* same time, it is the page's account that the page connects and then     *)
(* saves, the account of its CONNECT that the handler waits for, and an    *)
(* accepted one that it publishes under.                                   *)
ClientIsOwn ==
    ~shared =>
      /\ ~(EventConnecting /\ HttpConnecting)
      /\ HttpConnecting => client.account = Account(form)
      /\ http = "mqtt_wait" => sent["http"] = Account(form)
      /\ http \in {"save_user", "save_pass", "save_id"} => form \in worked
      /\ event \in {"first", "again"} => sent["event"] = client.account
      /\ event \in {"bluetooth", "publishing"} /\ client.isconnected =>
           \E a \in worked : client.account = Account(a)

AccountInv == AccountTypes /\ SentWhileWaiting /\ ClientIsOwn /\ SavedAccountWorked

-----------------------------------------------------------------------------
LEMMA AccountIsOne ==
    ASSUME NEW x, NEW y, Account(x) = Account(y)
    PROVE  x = y
<1>1. Account(x).user = x /\ Account(y).user = y
  BY DEF Account
<1>2. QED
  BY <1>1

LEMMA AccountTyped ==
    ASSUME NEW x \in Parts
    PROVE  Account(x) \in Triples
BY DEF Account, Triples

LEMMA AccountInit == Init => AccountInv
<1>. SUFFICES ASSUME Init PROVE AccountInv
  OBVIOUS
<1>1. Account(Empty) \in Triples
  BY AccountTyped DEF Parts
<1>2. AccountTypes
  BY <1>1 DEF Init, AccountTypes, NoClient, Account, Parts, Triples
<1>3. SentWhileWaiting
  BY DEF Init, SentWhileWaiting
<1>4. ClientIsOwn
  BY DEF Init, ClientIsOwn, EventConnecting, HttpConnecting
<1>5. SavedAccountWorked
  BY DEF Init, SavedAccountWorked, Account
<1>6. QED
  BY <1>2, <1>3, <1>4, <1>5 DEF AccountInv

(* A restart leaves what is stored. *)
LEMMA RebootInv ==
    ASSUME AccountInv, Reboots, UNCHANGED storedVars
    PROVE  AccountInv'
<1>1. Account(Empty) \in Triples
  BY AccountTyped DEF Parts
<1>2. AccountTypes'
  BY <1>1 DEF AccountInv, AccountTypes, Reboots, NoClient, storedVars
<1>3. SentWhileWaiting'
  BY DEF Reboots, SentWhileWaiting
<1>4. ClientIsOwn'
  BY DEF Reboots, ClientIsOwn, EventConnecting, HttpConnecting
<1>5. SavedAccountWorked'
  BY DEF AccountInv, Reboots, SavedAccountWorked, storedVars
<1>6. QED
  BY <1>2, <1>3, <1>4, <1>5 DEF AccountInv

-----------------------------------------------------------------------------
QuietPlaces == {"idle", "save_password", "read_pass", "read_id", "init"}

WifiPlaces == {"idle", "wifi_password", "wifi_mode", "wifi_config", "wifi_connect"}

(* Steps that have nothing to do with the client or the stored account. *)
LEMMA QuietInv ==
    ASSUME AccountInv, UNCHANGED <<clientVars, mqtt>>, buffer' \in Triples,
           event' = event \/ {event, event'} \subseteq QuietPlaces,
           (http' = http /\ form' = form) \/ {http, http'} \subseteq WifiPlaces
    PROVE  AccountInv'
<1>1. /\ client' = client /\ sent' = sent /\ worked' = worked /\ shared' = shared
      /\ mqtt' = mqtt
  BY DEF clientVars
<1>2. AccountTypes'
  BY <1>1 DEF AccountInv, AccountTypes, WifiPlaces
<1>3. SentWhileWaiting'
  BY <1>1 DEF AccountInv, SentWhileWaiting, QuietPlaces, WifiPlaces
<1>4. ClientIsOwn'
  BY <1>1 DEF AccountInv, ClientIsOwn, EventConnecting, HttpConnecting, QuietPlaces, WifiPlaces
<1>5. SavedAccountWorked'
  BY <1>1 DEF AccountInv, SavedAccountWorked
<1>6. QED
  BY <1>2, <1>3, <1>4, <1>5 DEF AccountInv

(* What the handler reads is a part of an account or garbage. *)
LEMMA ReadsTyped ==
    ASSUME AccountInv, NEW part \in {"user", "pass", "id"}, NEW b \in Reads(part)
    PROVE  b \in Triples
<1>1. PICK v \in Found(part) : b = [buffer EXCEPT ![part] = v]
  BY DEF Reads
<1>2. v \in Parts
  BY <1>1 DEF Found, Parts, AccountInv, AccountTypes
<1>3. QED
  BY <1>1, <1>2 DEF AccountInv, AccountTypes, Triples

(* An accepted CONNECT is one that is under way. *)
LEMMA AcceptedFacts ==
    ASSUME AccountInv, NEW t \in {"event", "http"}, Accepted(t)
    PROVE  \E a \in GoodAccounts, u \in {"event", "http"} :
             /\ sent[u] = Account(a) /\ a # Empty
             /\ u = "event" => event \in {"first", "again"}
             /\ u = "http" => http = "mqtt_wait"
             /\ worked' = worked \cup {a}
             /\ sent' = [sent EXCEPT ![t] = Account(Empty)]
<1>1. PICK a \in GoodAccounts, u \in {"event", "http"} :
         /\ sent[u] = Account(a)
         /\ worked' = worked \cup {a}
         /\ sent' = [sent EXCEPT ![t] = Account(Empty)]
  BY DEF Accepted
<1>2. a # Empty
  BY ConstantsAssumption
<1>3. sent[u] # Account(Empty)
  BY <1>1, <1>2, AccountIsOne
<1>4. /\ u = "event" => event \in {"first", "again"}
      /\ u = "http" => http = "mqtt_wait"
  BY <1>3 DEF AccountInv, SentWhileWaiting
<1>5. QED
  BY <1>1, <1>2, <1>4

-----------------------------------------------------------------------------
(* The event task *)
LEMMA EventQuietInv ==
    ASSUME AccountInv,
           \/ StaStart \/ StaConnected \/ SavePassword \/ StaDisconnected
           \/ GotIp \/ ReadPass \/ ReadId
    PROVE  AccountInv'
<1>. USE DEF eventVars, httpVars, storedVars
<1>0. buffer \in Triples /\ Account(Empty) \in Triples
  BY AccountTyped DEF AccountInv, AccountTypes, Parts
<1>1. CASE StaStart
  <2>1. CASE Reboots
    BY <1>1, <2>1, RebootInv DEF StaStart
  <2>2. CASE ~Reboots
    BY <1>0, <1>1, <2>2, QuietInv DEF StaStart
  <2>3. QED
    BY <2>1, <2>2
<1>2. CASE StaConnected
  BY <1>0, <1>2, QuietInv DEF StaConnected, Handles, QuietPlaces
<1>3. CASE SavePassword
  BY <1>0, <1>3, QuietInv DEF SavePassword, QuietPlaces
<1>4. CASE StaDisconnected
  BY <1>0, <1>4, QuietInv DEF StaDisconnected
<1>5. CASE GotIp
  BY <1>5, ReadsTyped, QuietInv DEF GotIp, Handles, QuietPlaces
<1>6. CASE ReadPass
  BY <1>6, ReadsTyped, QuietInv DEF ReadPass, QuietPlaces
<1>7. CASE ReadId
  BY <1>0, <1>7, ReadsTyped, QuietInv DEF ReadId, QuietPlaces
<1>8. QED
  BY <1>1, <1>2, <1>3, <1>4, <1>5, <1>6, <1>7

LEMMA EventInitInv ==
    ASSUME AccountInv, EventInit
    PROVE  AccountInv'
<1>. USE DEF httpVars, storedVars
<1>1. AccountTypes'
  BY DEF AccountInv, AccountTypes, EventInit
<1>2. SentWhileWaiting'
  BY DEF AccountInv, SentWhileWaiting, EventInit
<1>3. ClientIsOwn'
  BY DEF AccountInv, ClientIsOwn, EventInit, EventConnecting, HttpConnecting
<1>4. SavedAccountWorked'
  BY DEF AccountInv, SavedAccountWorked, EventInit
<1>5. QED
  BY <1>1, <1>2, <1>3, <1>4 DEF AccountInv

(* The handler returns: what its client pointed to is gone, and no task    *)
(* but the page may be connecting.                                         *)
LEMMA HandlerReturnsTyped ==
    ASSUME AccountInv, HandlerReturns
    PROVE  /\ buffer' \in Triples
           /\ client' \in [account : Triples, local : BOOLEAN, isconnected : BOOLEAN]
<1>1. Account(Empty) \in Triples /\ Account(Garbage) \in Triples
  BY AccountTyped DEF Parts
<1>2. client.account \in Triples
  BY DEF AccountInv, AccountTypes
<1>3. QED
  BY <1>1, <1>2 DEF HandlerReturns

LEMMA EventFindsConnectionInv ==
    ASSUME AccountInv, EventFindsConnection
    PROVE  AccountInv'
<1>. USE DEF httpVars, storedVars
<1>1. AccountTypes'
  BY HandlerReturnsTyped DEF AccountInv, AccountTypes, EventFindsConnection
<1>2. SentWhileWaiting'
  BY DEF AccountInv, SentWhileWaiting, EventFindsConnection, HandlerReturns
<1>3. ClientIsOwn'
  BY DEF AccountInv, ClientIsOwn, EventFindsConnection, HandlerReturns, EventConnecting, HttpConnecting
<1>4. SavedAccountWorked'
  BY DEF AccountInv, SavedAccountWorked, EventFindsConnection
<1>5. QED
  BY <1>1, <1>2, <1>3, <1>4 DEF AccountInv

LEMMA EventConnectsInv ==
    ASSUME AccountInv, EventConnects
    PROVE  AccountInv'
<1>. USE DEF httpVars, storedVars
<1>0. /\ sent' \in [{"event", "http"} -> Triples]
      /\ sent'["event"] = client.account /\ sent'["http"] = sent["http"]
  BY DEF AccountInv, AccountTypes, EventConnects
<1>1. AccountTypes'
  BY <1>0 DEF AccountInv, AccountTypes, EventConnects
<1>2. SentWhileWaiting'
  BY <1>0 DEF AccountInv, SentWhileWaiting, EventConnects
<1>3. ClientIsOwn'
  BY <1>0 DEF AccountInv, ClientIsOwn, EventConnects, EventConnecting, HttpConnecting
<1>4. SavedAccountWorked'
  BY DEF AccountInv, SavedAccountWorked, EventConnects
<1>5. QED
  BY <1>1, <1>2, <1>3, <1>4 DEF AccountInv

LEMMA EventFailsInv ==
    ASSUME AccountInv, EventFindsNoNetwork \/ EventRefused
    PROVE  AccountInv'
<1>. USE DEF httpVars, storedVars, clientVars
<1>0. /\ sent' \in [{"event", "http"} -> Triples]
      /\ sent'["event"] = Account(Empty) /\ sent'["http"] = sent["http"]
  <2>1. Account(Empty) \in Triples
    BY AccountTyped DEF Parts
  <2>2. QED
    BY <2>1 DEF AccountInv, AccountTypes, SentWhileWaiting, EventFindsNoNetwork, EventRefused
<1>1. AccountTypes'
  BY <1>0 DEF AccountInv, AccountTypes, EventFindsNoNetwork, EventRefused
<1>2. SentWhileWaiting'
  BY <1>0 DEF AccountInv, SentWhileWaiting, EventFindsNoNetwork, EventRefused
<1>3. ClientIsOwn'
  BY <1>0 DEF AccountInv, ClientIsOwn, EventFindsNoNetwork, EventRefused, EventConnecting, HttpConnecting
<1>4. SavedAccountWorked'
  BY DEF AccountInv, SavedAccountWorked, EventFindsNoNetwork, EventRefused
<1>5. QED
  BY <1>1, <1>2, <1>3, <1>4 DEF AccountInv

(* The broker has accepted the handler's CONNECT or, if the tasks have met *)
(* in the client, the page's.                                              *)
LEMMA EventAcceptedInv ==
    ASSUME AccountInv, EventFirstAccepted \/ EventAccepted
    PROVE  AccountInv'
<1>. USE DEF httpVars, storedVars
<1>1. PICK a \in GoodAccounts, u \in {"event", "http"} :
         /\ sent[u] = Account(a) /\ a # Empty
         /\ u = "event" => event \in {"first", "again"}
         /\ u = "http" => http = "mqtt_wait"
         /\ worked' = worked \cup {a}
         /\ sent' = [sent EXCEPT !["event"] = Account(Empty)]
  BY AcceptedFacts DEF EventFirstAccepted, EventAccepted
<1>2. /\ sent' \in [{"event", "http"} -> Triples]
      /\ sent'["event"] = Account(Empty) /\ sent'["http"] = sent["http"]
  <2>1. Account(Empty) \in Triples
    BY AccountTyped DEF Parts
  <2>2. QED
    BY <1>1, <2>1 DEF AccountInv, AccountTypes
<1>3. /\ buffer' \in Triples
      /\ client' \in [account : Triples, local : BOOLEAN, isconnected : BOOLEAN]
  <2>1. CASE EventFirstAccepted
    BY <2>1 DEF AccountInv, AccountTypes, EventFirstAccepted
  <2>2. CASE EventAccepted
    BY <2>2, HandlerReturnsTyped DEF EventAccepted
  <2>3. QED
    BY <2>1, <2>2
<1>4. AccountTypes'
  BY <1>1, <1>2, <1>3 DEF AccountInv, AccountTypes, EventFirstAccepted, EventAccepted
<1>5. SentWhileWaiting'
  BY <1>2 DEF AccountInv, SentWhileWaiting, EventFirstAccepted, EventAccepted, HandlerReturns
<1>6. ~shared => client.account = Account(a)
  BY <1>1 DEF AccountInv, ClientIsOwn, EventFirstAccepted, EventAccepted, EventConnecting, HttpConnecting
<1>7. ClientIsOwn'
  <2>1. CASE EventFirstAccepted
    <3>1. client'.account = client.account
      BY <2>1 DEF AccountInv, AccountTypes, EventFirstAccepted
    <3>2. QED
      BY <1>1, <1>2, <1>6, <2>1, <3>1
      DEF AccountInv, ClientIsOwn, EventFirstAccepted, EventConnecting, HttpConnecting
  <2>2. CASE EventAccepted
    BY <1>1, <1>2, <2>2
    DEF AccountInv, ClientIsOwn, EventAccepted, HandlerReturns, EventConnecting, HttpConnecting
  <2>3. QED
    BY <2>1, <2>2
<1>8. SavedAccountWorked'
  BY <1>1 DEF AccountInv, SavedAccountWorked, EventFirstAccepted, EventAccepted
<1>9. QED
  BY <1>4, <1>5, <1>7, <1>8 DEF AccountInv

LEMMA EventStartsBluetoothInv ==
    ASSUME AccountInv, EventStartsBluetooth
    PROVE  AccountInv'
<1>. USE DEF httpVars, storedVars, clientVars
<1>1. CASE Reboots
  BY <1>1, RebootInv DEF EventStartsBluetooth
<1>2. CASE ~Reboots
  <2>1. AccountTypes'
    BY <1>2 DEF AccountInv, AccountTypes, EventStartsBluetooth
  <2>2. SentWhileWaiting'
    BY <1>2 DEF AccountInv, SentWhileWaiting, EventStartsBluetooth
  <2>3. ClientIsOwn'
    BY <1>2 DEF AccountInv, ClientIsOwn, EventStartsBluetooth, EventConnecting, HttpConnecting
  <2>4. SavedAccountWorked'
    BY <1>2 DEF AccountInv, SavedAccountWorked, EventStartsBluetooth
  <2>5. QED
    BY <2>1, <2>2, <2>3, <2>4 DEF AccountInv
<1>3. QED
  BY <1>1, <1>2

-----------------------------------------------------------------------------
(* The HTTP task *)
LEMMA HttpQuietInv ==
    ASSUME AccountInv,
           \/ CopyPassword \/ SetCombinedMode \/ SetStationConfig \/ ConnectStation
           \/ BleTest \/ RestartPage \/ HttpRefused
           \/ \E n \in Networks : WifiSetup(n)
    PROVE  AccountInv'
<1>. USE DEF eventVars, httpVars, storedVars
<1>0. buffer \in Triples
  BY DEF AccountInv, AccountTypes
<1>1. CASE CopyPassword
  BY <1>0, <1>1, QuietInv DEF CopyPassword, WifiPlaces
<1>2. CASE SetCombinedMode
  BY <1>0, <1>2, QuietInv DEF SetCombinedMode, WifiPlaces
<1>3. CASE SetStationConfig
  BY <1>0, <1>3, QuietInv, RebootInv DEF SetStationConfig, WifiPlaces
<1>4. CASE ConnectStation
  BY <1>0, <1>4, QuietInv, RebootInv DEF ConnectStation, WifiPlaces
<1>5. CASE BleTest
  BY <1>0, <1>5, QuietInv, RebootInv DEF BleTest
<1>6. CASE RestartPage \/ HttpRefused
  BY <1>6, RebootInv DEF RestartPage, HttpRefused
<1>7. CASE \E n \in Networks : WifiSetup(n)
  BY <1>0, <1>7, QuietInv DEF WifiSetup, Serves, WifiPlaces
<1>8. QED
  BY <1>1, <1>2, <1>3, <1>4, <1>5, <1>6, <1>7

LEMMA MqttSetupInv ==
    ASSUME AccountInv, NEW a \in Accounts, MqttSetup(a)
    PROVE  AccountInv'
<1>. USE DEF eventVars, storedVars
<1>1. AccountTypes'
  <2>1. Account(a) \in Triples
    BY AccountTyped DEF Parts
  <2>2. QED
    BY <2>1 DEF AccountInv, AccountTypes, MqttSetup
<1>2. SentWhileWaiting'
  BY DEF AccountInv, SentWhileWaiting, MqttSetup, Serves
<1>3. ClientIsOwn'
  BY DEF AccountInv, ClientIsOwn, MqttSetup, EventConnecting, HttpConnecting
<1>4. SavedAccountWorked'
  BY DEF AccountInv, SavedAccountWorked, MqttSetup
<1>5. QED
  BY <1>1, <1>2, <1>3, <1>4 DEF AccountInv

LEMMA HttpConnectsInv ==
    ASSUME AccountInv, HttpConnects
    PROVE  AccountInv'
<1>. USE DEF eventVars, storedVars
<1>1. CASE Reboots
  BY <1>1, RebootInv DEF HttpConnects
<1>2. CASE ~Reboots
  <2>0. /\ sent' \in [{"event", "http"} -> Triples]
        /\ sent'["http"] = client.account /\ sent'["event"] = sent["event"]
    BY <1>2 DEF AccountInv, AccountTypes, HttpConnects
  <2>1. AccountTypes'
    BY <1>2, <2>0 DEF AccountInv, AccountTypes, HttpConnects
  <2>2. SentWhileWaiting'
    BY <1>2, <2>0 DEF AccountInv, SentWhileWaiting, HttpConnects
  <2>3. ClientIsOwn'
    BY <1>2, <2>0 DEF AccountInv, ClientIsOwn, HttpConnects, EventConnecting, HttpConnecting
  <2>4. SavedAccountWorked'
    BY <1>2 DEF AccountInv, SavedAccountWorked, HttpConnects
  <2>5. QED
    BY <2>1, <2>2, <2>3, <2>4 DEF AccountInv
<1>3. QED
  BY <1>1, <1>2

(* Unless the tasks have met in the client, the CONNECT that the broker    *)
(* has accepted is the page's, and so is its account.                      *)
LEMMA HttpAcceptedInv ==
    ASSUME AccountInv, HttpAccepted
    PROVE  AccountInv'
<1>. USE DEF eventVars, storedVars
<1>1. PICK a \in GoodAccounts, u \in {"event", "http"} :
         /\ sent[u] = Account(a) /\ a # Empty
         /\ u = "event" => event \in {"first", "again"}
         /\ u = "http" => http = "mqtt_wait"
         /\ worked' = worked \cup {a}
         /\ sent' = [sent EXCEPT !["http"] = Account(Empty)]
  BY AcceptedFacts DEF HttpAccepted
<1>2. /\ sent' \in [{"event", "http"} -> Triples]
      /\ sent'["http"] = Account(Empty) /\ sent'["event"] = sent["event"]
  <2>1. Account(Empty) \in Triples
    BY AccountTyped DEF Parts
  <2>2. QED
    BY <1>1, <2>1 DEF AccountInv, AccountTypes
<1>3. /\ client' \in [account : Triples, local : BOOLEAN, isconnected : BOOLEAN]
      /\ client'.account = client.account
  BY DEF AccountInv, AccountTypes, HttpAccepted
<1>4. AccountTypes'
  BY <1>1, <1>2, <1>3 DEF AccountInv, AccountTypes, HttpAccepted
<1>5. SentWhileWaiting'
  BY <1>2 DEF AccountInv, SentWhileWaiting, HttpAccepted
<1>6. ~shared => form = a /\ client.account = Account(a)
  <2>1. ~shared => Account(form) = Account(a) /\ client.account = Account(form)
    BY <1>1 DEF AccountInv, ClientIsOwn, HttpAccepted, EventConnecting, HttpConnecting
  <2>2. QED
    BY <2>1, AccountIsOne
<1>7. ClientIsOwn'
  BY <1>1, <1>2, <1>3, <1>6
  DEF AccountInv, ClientIsOwn, HttpAccepted, EventConnecting, HttpConnecting
<1>8. SavedAccountWorked'
  BY <1>1 DEF AccountInv, SavedAccountWorked, HttpAccepted
<1>9. QED
  BY <1>4, <1>5, <1>7, <1>8 DEF AccountInv

LEMMA SavesInv ==
    ASSUME AccountInv, NEW place \in {"save_user", "save_pass", "save_id"},
           NEW part \in {"user", "pass", "id"}, NEW next \in {"save_pass", "save_id", "idle"},
           Saves(place, part, next)
    PROVE  AccountInv'
<1>. USE DEF eventVars, clientVars
<1>1. form \in Accounts
  BY DEF AccountInv, AccountTypes, Saves
<1>2. /\ mqtt' \in [{"user", "pass", "id"} -> Parts]
      /\ \A p \in {"user", "pass", "id"} : mqtt'[p] = IF p = part THEN form ELSE mqtt[p]
  BY <1>1 DEF AccountInv, AccountTypes, Saves, Parts
<1>3. AccountTypes'
  BY <1>1, <1>2 DEF AccountInv, AccountTypes, Saves
<1>4. SentWhileWaiting'
  BY DEF AccountInv, SentWhileWaiting, Saves
<1>5. ClientIsOwn'
  BY DEF AccountInv, ClientIsOwn, Saves, EventConnecting, HttpConnecting
<1>6. SavedAccountWorked'
  <2>1. ~shared => form \in worked
    BY DEF AccountInv, ClientIsOwn, Saves
  <2>2. DOMAIN mqtt = {"user", "pass", "id"} /\ DOMAIN mqtt' = {"user", "pass", "id"}
    BY <1>2 DEF AccountInv, AccountTypes
  <2>3. QED
    BY <1>2, <2>1, <2>2 DEF AccountInv, SavedAccountWorked, Saves
<1>7. QED
  BY <1>3, <1>4, <1>5, <1>6 DEF AccountInv

LEMMA EraseInv ==
    ASSUME AccountInv, EraseWifiData
    PROVE  AccountInv'
<1>. USE DEF eventVars, httpVars, clientVars
<1>1. AccountTypes'
  BY DEF AccountInv, AccountTypes, EraseWifiData, Account, Parts
<1>2. SentWhileWaiting'
  BY DEF AccountInv, SentWhileWaiting, EraseWifiData
<1>3. ClientIsOwn'
  BY DEF AccountInv, ClientIsOwn, EraseWifiData, EventConnecting, HttpConnecting
<1>4. SavedAccountWorked'
  BY DEF SavedAccountWorked, EraseWifiData, Account
<1>5. QED
  BY <1>1, <1>2, <1>3, <1>4 DEF AccountInv

-----------------------------------------------------------------------------
LEMMA NextInv ==
    ASSUME AccountInv, [Next]_vars
    PROVE  AccountInv'
<1>. USE DEF eventVars, httpVars, storedVars
<1>0. buffer \in Triples
  BY DEF AccountInv, AccountTypes
<1>1. CASE wifi_start
  BY <1>0, <1>1, QuietInv DEF wifi_start
<1>2. CASE PowerLoss
  BY <1>2, RebootInv DEF PowerLoss
<1>3. CASE EventTask
  BY <1>3, EventQuietInv, EventInitInv, EventFindsConnectionInv, EventConnectsInv,
     EventFailsInv, EventAcceptedInv, EventStartsBluetoothInv DEF EventTask
<1>4. CASE HttpTask
  <2>1. CASE SaveAccount
    BY <2>1, SavesInv DEF SaveAccount
  <2>2. CASE ~SaveAccount
    BY <1>4, <2>2, HttpQuietInv, HttpConnectsInv, HttpAcceptedInv DEF HttpTask
  <2>3. QED
    BY <2>1, <2>2
<1>5. CASE Request
  BY <1>5, HttpQuietInv, MqttSetupInv, EraseInv DEF Request
<1>6. CASE Driver
  BY <1>0, <1>6, QuietInv DEF Driver, Joins, GetsIp, JoinFails, ConnectionLost, Posts
<1>7. CASE UNCHANGED vars
  BY <1>0, <1>7, QuietInv DEF vars
<1>8. QED
  BY <1>1, <1>2, <1>3, <1>4, <1>5, <1>6, <1>7 DEF Next

(* The two tasks leave what they have in common as above, whatever the     *)
(* driver, the broker, the user and the power do.                          *)
THEOREM AccountInvariant == Spec => []AccountInv
<1>1. Init => AccountInv
  BY AccountInit
<1>2. AccountInv /\ [Next]_vars => AccountInv'
  BY NextInv
<1>3. QED
  BY <1>1, <1>2, PTL DEF Spec

(* What save_last_connected_mqtt leaves stored, after any crash between    *)
(* its three writes, is made of accounts that the broker accepted.         *)
THEOREM StoredAccountWorked == Spec => []SavedAccountWorked
<1>1. AccountInv => SavedAccountWorked
  BY DEF AccountInv
<1>2. QED
  BY <1>1, AccountInvariant, PTL

(* The loop of cayenne_task in the GOT_IP handler uses a connection only   *)
(* under the account with which the broker accepted it.                    *)
THEOREM PublishedUnderAccount == Spec => []PublishesUnderAccount
<1>1. AccountInv => PublishesUnderAccount
  BY DEF AccountInv, ClientIsOwn, PublishesUnderAccount
<1>2. QED
  BY <1>1, AccountInvariant, PTL

-----------------------------------------------------------------------------
(* The types of the device.  A station that is not idle needs a mode with a station; what    *)
(* /wifi-setup enters is a network.                                        *)
EventNames == {"STA_START", "STA_CONNECTED", "STA_GOT_IP", "STA_DISCONNECTED"}

DriverOK ==
    /\ mode \in {"off", "sta", "ap", "apsta"}
    /\ sta \in {"idle", "connecting", "joined", "online"}
    /\ sta # "idle" => HasStation
    /\ config \in Pairs /\ actual_wifi \in Pairs /\ wifi \in Pairs
    /\ events \in Seq(EventNames)

PlacesOK ==
    /\ event \in {"idle", "save_password", "read_pass", "read_id", "init", "test", "first",
                  "retry", "again", "bluetooth", "publishing"}
    /\ http \in {"idle", "wifi_password", "wifi_mode", "wifi_config", "wifi_connect",
                 "mqtt_connect", "mqtt_wait", "save_user", "save_pass", "save_id"}
    /\ form \in Networks \cup Accounts \cup {Empty}
    /\ http = "wifi_password" => form \in Networks

FlagsOK ==
    bluetooth \in BOOLEAN /\ publisher \in BOOLEAN /\ losses \in 0..MaxLosses /\ shared \in BOOLEAN

DeviceInv == DriverOK /\ PlacesOK /\ FlagsOK

(* A pair of one network, or none, is a pair. *)
LEMMA PairTyped ==
    ASSUME NEW x \in Networks \cup {Empty}
    PROVE  /\ Pair(x) \in Pairs
           /\ \A p \in Pairs : [p EXCEPT !.ssid = x] \in Pairs /\ [p EXCEPT !.password = x] \in Pairs
BY DEF Pair, Pairs

(* The queue after an event has been posted or taken. *)
LEMMA QueueTyped ==
    ASSUME NEW q \in Seq(EventNames)
    PROVE  /\ \A e \in EventNames : Append(q, e) \in Seq(EventNames)
           /\ q # <<>> => Tail(q) \in Seq(EventNames)
           /\ <<>> \in Seq(EventNames) /\ <<"STA_START">> \in Seq(EventNames)
BY DEF EventNames

(* A restart leaves a device that is off. *)
LEMMA RebootTypes ==
    ASSUME DeviceInv, Reboots, UNCHANGED wifi, losses' \in 0..MaxLosses
    PROVE  DeviceInv'
<1>1. DriverOK'
  <2>1. Pair(Empty) \in Pairs /\ <<>> \in Seq(EventNames)
    BY PairTyped
  <2> QED  BY <2>1 DEF DeviceInv, DriverOK, Reboots
<1>2. PlacesOK'
  BY DEF PlacesOK, Reboots
<1>3. FlagsOK'
  BY DEF DeviceInv, FlagsOK, Reboots
<1> QED  BY <1>1, <1>2, <1>3 DEF DeviceInv

(* The driver. *)
LEMMA DriverTypes ==
    ASSUME DeviceInv, Driver \/ wifi_start \/ PowerLoss
    PROVE  DeviceInv'
<1> USE DEF eventVars, httpVars, storedVars, clientVars, restVars
<1>1. CASE wifi_start
  <2>1. /\ mode' \in {"sta", "ap"} /\ sta' = sta /\ sta = "idle"
        /\ config' \in {wifi, config} /\ actual_wifi' = wifi /\ wifi' = wifi
        /\ events' \in {<<>>, <<"STA_START">>}
    BY <1>1 DEF wifi_start, DeviceInv, DriverOK, HasStation
  <2>2. DriverOK'
    BY <2>1, QueueTyped DEF DeviceInv, DriverOK
  <2>3. PlacesOK' /\ FlagsOK'
    BY <1>1 DEF wifi_start, DeviceInv, PlacesOK, FlagsOK
  <2> QED  BY <2>2, <2>3 DEF DeviceInv
<1>2. CASE PowerLoss
  <2>1. losses' \in 0..MaxLosses
    BY <1>2, ConstantsAssumption DEF PowerLoss, DeviceInv, FlagsOK
  <2> QED  BY <1>2, <2>1, RebootTypes DEF PowerLoss
<1>3. ASSUME NEW s \in {"idle", "connecting", "joined", "online"}, NEW e \in EventNames,
             Posts(s, e), s # "idle" => HasStation
      PROVE  DeviceInv'
  <2>1. DriverOK'
    BY <1>3, QueueTyped DEF Posts, DeviceInv, DriverOK, HasStation
  <2>2. PlacesOK' /\ FlagsOK'
    BY <1>3 DEF Posts, DeviceInv, PlacesOK, FlagsOK
  <2> QED  BY <2>1, <2>2 DEF DeviceInv
<1>4. CASE Driver
  <2>1. {"STA_CONNECTED", "STA_GOT_IP", "STA_DISCONNECTED"} \subseteq EventNames
    BY DEF EventNames
  <2>2. sta # "idle" => HasStation
    BY DEF DeviceInv, DriverOK
  <2> QED  BY <1>3, <1>4, <2>1, <2>2 DEF Driver, Joins, GetsIp, JoinFails, ConnectionLost
<1> QED  BY <1>1, <1>2, <1>4

(* The event task. *)
LEMMA EventTypes ==
    ASSUME DeviceInv, EventTask
    PROVE  DeviceInv'
<1> USE DEF driverVars, eventVars, httpVars, storedVars, clientVars, restVars
<1>1. ASSUME UNCHANGED losses, UNCHANGED wifi, Reboots PROVE DeviceInv'
  BY <1>1, RebootTypes DEF DeviceInv, FlagsOK
<1>2. ASSUME \/ Handles("STA_START") \/ Handles("STA_CONNECTED")
             \/ Handles("STA_GOT_IP") \/ Handles("STA_DISCONNECTED")
      PROVE  Tail(events) \in Seq(EventNames)
  BY <1>2, QueueTyped DEF Handles, DeviceInv, DriverOK
<1>3. CASE StaStart
  <2>1. CASE Reboots
    BY <1>1, <1>3, <2>1 DEF StaStart
  <2>2. CASE ~Reboots
    <3>1. DriverOK'
      BY <1>2, <1>3, <2>2 DEF StaStart, esp_wifi_connect, DeviceInv, DriverOK, HasStation
    <3>2. PlacesOK' /\ FlagsOK'
      BY <1>3, <2>2 DEF StaStart, DeviceInv, PlacesOK, FlagsOK
    <3> QED  BY <3>1, <3>2 DEF DeviceInv
  <2> QED  BY <2>1, <2>2
<1>4. CASE StaConnected \/ SavePassword
  <2>1. wifi' \in Pairs
    <3>1. /\ actual_wifi.ssid \in Networks \cup {Empty} /\ actual_wifi.password \in Networks \cup {Empty}
          /\ wifi \in Pairs
      BY DEF DeviceInv, DriverOK, Pairs
    <3> QED  BY <1>4, <3>1, PairTyped DEF StaConnected, SavePassword
  <2>2. DriverOK'
    BY <1>2, <1>4, <2>1 DEF StaConnected, SavePassword, DeviceInv, DriverOK, HasStation
  <2>3. PlacesOK' /\ FlagsOK'
    BY <1>4 DEF StaConnected, SavePassword, DeviceInv, PlacesOK, FlagsOK
  <2> QED  BY <2>2, <2>3 DEF DeviceInv
<1>5. CASE StaDisconnected
  <2>1. /\ mode' = "ap" /\ sta' = "idle" /\ UNCHANGED <<config, actual_wifi, wifi>>
        /\ events' \in {Tail(events), Append(Tail(events), "STA_DISCONNECTED")}
    BY <1>5 DEF StaDisconnected, esp_wifi_set_mode
  <2>2. DriverOK'
    BY <1>2, <1>5, <2>1, QueueTyped DEF StaDisconnected, DeviceInv, DriverOK, EventNames
  <2>3. PlacesOK' /\ FlagsOK'
    BY <1>5 DEF StaDisconnected, DeviceInv, PlacesOK, FlagsOK
  <2> QED  BY <2>2, <2>3 DEF DeviceInv
<1>6. CASE GotIp
  <2>1. DriverOK'
    BY <1>2, <1>6 DEF GotIp, DeviceInv, DriverOK, HasStation
  <2>2. PlacesOK' /\ FlagsOK'
    BY <1>6 DEF GotIp, DeviceInv, PlacesOK, FlagsOK
  <2> QED  BY <2>1, <2>2 DEF DeviceInv
<1>7. CASE EventStartsBluetooth
  <2>1. CASE Reboots
    BY <1>1, <1>7, <2>1 DEF EventStartsBluetooth
  <2>2. CASE ~Reboots
    <3>1. DriverOK' /\ PlacesOK'
      BY <1>7, <2>2 DEF EventStartsBluetooth, DeviceInv, DriverOK, HasStation, PlacesOK
    <3>2. FlagsOK'
      BY <1>7, <2>2 DEF EventStartsBluetooth, DeviceInv, FlagsOK
    <3> QED  BY <3>1, <3>2 DEF DeviceInv
  <2> QED  BY <2>1, <2>2
<1>8. CASE ReadPass \/ ReadId \/ EventInit \/ EventFindsNoNetwork \/ EventConnects \/ EventRefused
  <2>1. UNCHANGED <<driverVars, httpVars, wifi, restVars>>
    BY <1>8 DEF ReadPass, ReadId, EventInit, EventFindsNoNetwork, EventConnects, EventRefused
  <2>2. DriverOK'
    BY <2>1 DEF DeviceInv, DriverOK, HasStation
  <2>3. event' \in {"read_id", "idle", "init", "test", "retry", "first", "again"}
    BY <1>8 DEF ReadPass, ReadId, EventInit, EventFindsNoNetwork, EventConnects, EventRefused
  <2>4. PlacesOK'
    BY <2>1, <2>3 DEF DeviceInv, PlacesOK
  <2>5. shared' = shared \/ shared' = (shared \/ HttpConnecting)
    BY <1>8 DEF ReadPass, ReadId, EventInit, EventFindsNoNetwork, EventConnects, EventRefused
  <2>6. FlagsOK'
    BY <2>1, <2>5 DEF DeviceInv, FlagsOK
  <2> QED  BY <2>2, <2>4, <2>6 DEF DeviceInv
<1>9. CASE EventFindsConnection \/ EventFirstAccepted \/ EventAccepted
  <2>1. UNCHANGED <<driverVars, httpVars, wifi, bluetooth, losses, shared>>
    BY <1>9 DEF EventFindsConnection, EventFirstAccepted, EventAccepted
  <2>2. DriverOK'
    BY <2>1 DEF DeviceInv, DriverOK, HasStation
  <2>3. event' \in {"idle", "bluetooth"}
    BY <1>9 DEF EventFindsConnection, EventFirstAccepted, EventAccepted, HandlerReturns
  <2>4. PlacesOK'
    BY <2>1, <2>3 DEF DeviceInv, PlacesOK
  <2>5. publisher' = TRUE \/ publisher' = publisher
    BY <1>9 DEF EventFindsConnection, EventFirstAccepted, EventAccepted
  <2>6. FlagsOK'
    BY <2>1, <2>5 DEF DeviceInv, FlagsOK
  <2> QED  BY <2>2, <2>4, <2>6 DEF DeviceInv
<1> QED  BY <1>3, <1>4, <1>5, <1>6, <1>7, <1>8, <1>9 DEF EventTask

(* The HTTP task. *)
LEMMA HttpTypes ==
    ASSUME DeviceInv, HttpTask
    PROVE  DeviceInv'
<1> USE DEF driverVars, eventVars, httpVars, storedVars, clientVars, restVars
<1>1. ASSUME UNCHANGED losses, UNCHANGED wifi, Reboots PROVE DeviceInv'
  BY <1>1, RebootTypes DEF DeviceInv, FlagsOK
<1>2. CASE CopyPassword
  <2>1. actual_wifi' \in Pairs
    BY <1>2, PairTyped DEF CopyPassword, DeviceInv, DriverOK, PlacesOK
  <2>2. DriverOK'
    BY <1>2, <2>1 DEF CopyPassword, DeviceInv, DriverOK, HasStation
  <2>3. PlacesOK' /\ FlagsOK'
    BY <1>2 DEF CopyPassword, DeviceInv, PlacesOK, FlagsOK
  <2> QED  BY <2>2, <2>3 DEF DeviceInv
<1>3. CASE SetCombinedMode
  <2>1. mode' = "apsta" /\ sta' = sta /\ events' \in {events, Append(events, "STA_START")}
    BY <1>3 DEF SetCombinedMode, esp_wifi_set_mode
  <2>2. DriverOK'
    BY <1>3, <2>1, QueueTyped DEF SetCombinedMode, DeviceInv, DriverOK, HasStation, EventNames
  <2>3. PlacesOK' /\ FlagsOK'
    BY <1>3 DEF SetCombinedMode, DeviceInv, PlacesOK, FlagsOK
  <2> QED  BY <2>2, <2>3 DEF DeviceInv
<1>4. CASE SetStationConfig \/ ConnectStation
  <2>1. CASE Reboots
    BY <1>1, <1>4, <2>1 DEF SetStationConfig, ConnectStation
  <2>2. CASE ~Reboots
    <3>1. DriverOK'
      BY <1>4, <2>2 DEF SetStationConfig, ConnectStation, esp_wifi_connect, DeviceInv, DriverOK,
         HasStation
    <3>2. PlacesOK' /\ FlagsOK'
      BY <1>4, <2>2 DEF SetStationConfig, ConnectStation, DeviceInv, PlacesOK, FlagsOK
    <3> QED  BY <3>1, <3>2 DEF DeviceInv
  <2> QED  BY <2>1, <2>2
<1>5. CASE HttpConnects \/ HttpRefused
  <2>1. CASE Reboots
    BY <1>1, <1>5, <2>1 DEF HttpConnects, HttpRefused
  <2>2. CASE ~Reboots
    <3>1. DriverOK'
      BY <1>5, <2>2 DEF HttpConnects, HttpRefused, DeviceInv, DriverOK, HasStation
    <3>2. PlacesOK' /\ FlagsOK'
      BY <1>5, <2>2 DEF HttpConnects, HttpRefused, DeviceInv, PlacesOK, FlagsOK
    <3> QED  BY <3>1, <3>2 DEF DeviceInv
  <2> QED  BY <2>1, <2>2
<1>6. CASE HttpAccepted \/ SaveAccount
  <2>1. /\ UNCHANGED <<driverVars, eventVars, actual_wifi, wifi, restVars, shared>>
        /\ form' \in {form, Empty}
        /\ http' \in {"save_user", "save_pass", "save_id", "idle"}
    BY <1>6 DEF HttpAccepted, SaveAccount, Saves
  <2>2. DriverOK'
    BY <2>1 DEF DeviceInv, DriverOK, HasStation
  <2>3. PlacesOK' /\ FlagsOK'
    BY <2>1 DEF DeviceInv, PlacesOK, FlagsOK
  <2> QED  BY <2>2, <2>3 DEF DeviceInv
<1> QED  BY <1>2, <1>3, <1>4, <1>5, <1>6 DEF HttpTask

(* The pages. *)
LEMMA RequestTypes ==
    ASSUME DeviceInv, Request
    PROVE  DeviceInv'
<1> USE DEF driverVars, eventVars, httpVars, storedVars, clientVars, restVars
<1>1. ASSUME UNCHANGED losses, UNCHANGED wifi, Reboots PROVE DeviceInv'
  BY <1>1, RebootTypes DEF DeviceInv, FlagsOK
<1>2. ASSUME NEW n \in Networks, WifiSetup(n) PROVE DeviceInv'
  <2>1. actual_wifi' \in Pairs
    BY <1>2, PairTyped DEF WifiSetup, DeviceInv, DriverOK
  <2>2. DriverOK'
    BY <1>2, <2>1 DEF WifiSetup, DeviceInv, DriverOK, HasStation
  <2>3. PlacesOK' /\ FlagsOK'
    BY <1>2 DEF WifiSetup, DeviceInv, PlacesOK, FlagsOK
  <2> QED  BY <2>2, <2>3 DEF DeviceInv
<1>3. ASSUME NEW a \in Accounts, MqttSetup(a) PROVE DeviceInv'
  <2>1. DriverOK'
    BY <1>3 DEF MqttSetup, DeviceInv, DriverOK, HasStation
  <2>2. PlacesOK' /\ FlagsOK'
    BY <1>3 DEF MqttSetup, DeviceInv, PlacesOK, FlagsOK
  <2> QED  BY <2>1, <2>2 DEF DeviceInv
<1>4. CASE EraseWifiData
  <2>1. wifi' \in Pairs
    BY <1>4, PairTyped DEF EraseWifiData
  <2>2. DriverOK'
    BY <1>4, <2>1 DEF EraseWifiData, DeviceInv, DriverOK, HasStation
  <2>3. PlacesOK' /\ FlagsOK'
    BY <1>4 DEF EraseWifiData, DeviceInv, PlacesOK, FlagsOK
  <2> QED  BY <2>2, <2>3 DEF DeviceInv
<1>5. CASE BleTest \/ RestartPage
  <2>1. CASE Reboots
    BY <1>1, <1>5, <2>1 DEF BleTest, RestartPage
  <2>2. CASE ~Reboots
    <3>1. DriverOK'
      BY <1>5, <2>2 DEF BleTest, RestartPage, DeviceInv, DriverOK, HasStation
    <3>2. PlacesOK' /\ FlagsOK'
      BY <1>5, <2>2 DEF BleTest, RestartPage, DeviceInv, PlacesOK, FlagsOK
    <3> QED  BY <3>1, <3>2 DEF DeviceInv
  <2> QED  BY <2>1, <2>2
<1> QED  BY <1>2, <1>3, <1>4, <1>5 DEF Request

(* The driver, the two tasks and the pages keep every variable of the      *)
(* device in its type; above all, the station is never in use in a mode    *)
(* without one, although the handler of SYSTEM_EVENT_STA_DISCONNECTED      *)
(* takes the station away while the page /wifi-setup is connecting it.     *)
THEOREM TypesAreKept == Spec => []TypeOK
<1>1. Init => DeviceInv
  <2>1. Pair(Empty) \in Pairs /\ <<>> \in Seq(EventNames) /\ 0 \in 0..MaxLosses
    BY PairTyped, ConstantsAssumption
  <2> QED  BY <2>1 DEF Init, DeviceInv, DriverOK, PlacesOK, FlagsOK
<1>2. ASSUME DeviceInv, UNCHANGED vars PROVE DeviceInv'
  BY <1>2 DEF vars, driverVars, eventVars, httpVars, storedVars, clientVars, restVars,
     DeviceInv, DriverOK, PlacesOK, FlagsOK, HasStation
<1>3. DeviceInv /\ [Next]_vars => DeviceInv'
  BY <1>2, DriverTypes, EventTypes, HttpTypes, RequestTypes DEF Next
<1>4. DeviceInv /\ AccountInv => TypeOK
  <2>1. ASSUME NEW m \in [{"user", "pass", "id"} -> Parts] PROVE m \in Triples
    <3>1. m = [user |-> m.user, pass |-> m.pass, id |-> m.id]
      BY <2>1
    <3> QED  BY <2>1, <3>1 DEF Triples
  <2> QED  BY <2>1 DEF DeviceInv, DriverOK, PlacesOK, FlagsOK, AccountInv, AccountTypes, TypeOK,
              EventNames
<1>5. QED
  BY <1>1, <1>3, <1>4, AccountInvariant, PTL DEF Spec
=============================================================================

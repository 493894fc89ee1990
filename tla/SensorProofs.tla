---------------------------- MODULE SensorProofs ----------------------------
(***************************************************************************)
(* The sensor tag's two modules.                                           *)
(*                                                                         *)
(* SensorLink: one connection at a time, and a client that knows whether   *)
(* it has one, for any tags, any number of queued events and requests, and *)
(* every order in which scan results, answers and lost connections arrive. *)
(* The inductive invariant, LinkState, lists the states a connection can   *)
(* be in, with what is queued about it.                                    *)
(*                                                                         *)
(* SensorData: the readings, for every word and every reading the tag may  *)
(* notify.  The inductive invariants say what the fields hold between the  *)
(* stores of the callback; the arithmetic is in lemmas about the           *)
(* conversions, which the invariants only name.                            *)
(***************************************************************************)
EXTENDS SensorLink, SensorData, TLAPS


(* The events that open and end a connection in the eyes of the handlers. *)
IsReport(e) == e.type \in {"OPEN", "DISCONNECT"}
Failure(e) == e.type = "OPEN" /\ ~e.ok

(* The queue holds exactly these reports. *)
Reports(S) == S \subseteq 1..Len(events)
                /\ \A i \in 1..Len(events) : IsReport(events[i]) <=> i \in S

(* Exactly these requests are to open a connection. *)
Opens(S) == S \subseteq 1..Len(api)
              /\ \A i \in 1..Len(api) : api[i].call = "open" <=> i \in S

(* What the client believes, what it asked for, what the stack does, and   *)
(* what the stack has reported that is not handled yet.                    *)

Free == ~conn_device /\ Opens({}) /\ link = "none" /\ Reports({})
          /\ (Isconnecting => "refused" \in faults)

Asked == conn_device /\ link = "none" /\ Reports({}) /\ \E r \in 1..Len(api) : Opens({r})

Opening == conn_device /\ Opens({}) /\ link = "opening" /\ Reports({})

(* up, with the OPEN event still queued *)
Announced ==
    /\ conn_device /\ Opens({}) /\ link = "up"
    /\ \E i \in 1..Len(events) :
         Reports({i}) /\ events[i].type = "OPEN" /\ events[i].ok /\ events[i].arg = peer

Up == conn_device /\ Opens({}) /\ link = "up" /\ Reports({}) /\ remote_bda = peer

(* lost again before that *)
LostEarly ==
    /\ conn_device /\ Opens({}) /\ link = "none"
    /\ \E i, j \in 1..Len(events) :
         /\ i < j /\ Reports({i, j})
         /\ events[i].type = "OPEN" /\ events[i].ok
         /\ events[j].type = "DISCONNECT" /\ events[j].arg = events[i].arg

Lost ==
    /\ conn_device /\ Opens({}) /\ link = "none"
    /\ \E i \in 1..Len(events) :
         Reports({i}) /\ events[i].type = "DISCONNECT" /\ events[i].arg = remote_bda

(* The tag did not answer: the two reports are next to each other, so that *)
(* no scan result is handled between them.                                 *)
Unanswered ==
    /\ conn_device /\ Opens({}) /\ link = "none"
    /\ \E i \in 1..Len(events) :
         /\ i + 1 \in 1..Len(events) /\ Reports({i, i + 1})
         /\ events[i].type = "DISCONNECT" /\ Failure(events[i + 1])

HalfReported ==
    /\ ~Isconnecting /\ Opens({}) /\ link = "none"
    /\ 1 \in 1..Len(events) /\ Reports({1}) /\ Failure(events[1])

Refused ==
    /\ conn_device /\ Opens({}) /\ link = "none" /\ "refused" \in faults
    /\ \E i \in 1..Len(events) : Reports({i}) /\ Failure(events[i])

LinkState ==
    \/ Free \/ Asked \/ Opening \/ Announced \/ Up
    \/ LostEarly \/ Lost \/ Unanswered \/ HalfReported \/ Refused

-----------------------------------------------------------------------------
(* Types *)

(* Short sequences. *)
LEMMA ShortSeqs ==
    ASSUME NEW S
    PROVE  /\ <<>> \in Seq(S)
           /\ \A a \in S : <<a>> \in Seq(S)
           /\ \A a, b \in S : <<a, b>> \in Seq(S)
           /\ \A a, b, c \in S : <<a, b, c>> \in Seq(S)
OBVIOUS

(* A handler takes the oldest event. *)
LEMMA EventTaken ==
    ASSUME TypeOK, events # <<>>, events' = Tail(events)
    PROVE  /\ events' \in Seq(QueuedEvents)
           /\ Head(events) = events[1] /\ events[1] \in QueuedEvents /\ 1 \in 1..Len(events)
           /\ Len(events) \in Nat /\ Len(events') = Len(events) - 1
           /\ \A i \in 1..Len(events') : events'[i] = events[i + 1]
BY DEF TypeOK

(* The stack takes the oldest request. *)
LEMMA RequestTaken ==
    ASSUME TypeOK, api # <<>>, api' = Tail(api)
    PROVE  /\ api' \in Seq(QueuedRequests)
           /\ Head(api) = api[1] /\ api[1] \in QueuedRequests /\ 1 \in 1..Len(api)
           /\ Len(api) \in Nat /\ Len(api') = Len(api) - 1
           /\ \A i \in 1..Len(api') : api'[i] = api[i + 1]
BY DEF TypeOK

(* New events and requests go to the end of their queue. *)
LEMMA EventsPosted ==
    ASSUME TypeOK, NEW es \in Seq(QueuedEvents), Post(es)
    PROVE  /\ events' \in Seq(QueuedEvents)
           /\ Len(es) \in Nat /\ Len(events) \in Nat /\ Len(events') = Len(events) + Len(es)
           /\ \A i \in 1..Len(events) : events'[i] = events[i]
           /\ \A i \in 1..Len(es) : events'[Len(events) + i] = es[i]
BY DEF TypeOK, Post

(* So do new requests. *)
LEMMA RequestsAsked ==
    ASSUME TypeOK, NEW rs \in Seq(QueuedRequests), Ask(rs)
    PROVE  /\ api' \in Seq(QueuedRequests)
           /\ Len(rs) \in Nat /\ Len(api) \in Nat /\ Len(api') = Len(api) + Len(rs)
           /\ \A i \in 1..Len(api) : api'[i] = api[i]
           /\ \A i \in 1..Len(rs) : api'[Len(api) + i] = rs[i]
BY DEF TypeOK, Ask

(* The events and requests of the model are well formed. *)
LEMMA WellFormedEvents ==
    /\ \A d \in Devices, ok \in BOOLEAN, type \in {"SCAN_RESULT", "OPEN", "DISCONNECT"} :
         Event(type, d, ok) \in QueuedEvents
    /\ \A s \in Services, ok \in BOOLEAN, type \in {"SEARCH_RES", "REG_FOR_NOTIFY"} :
         Event(type, s, ok) \in QueuedEvents
    /\ \A ok \in BOOLEAN, type \in {"REG", "SCAN_PARAM_SET", "CFG_MTU", "SEARCH_CMPL"} :
         Event(type, None, ok) \in QueuedEvents
BY DEF Event, QueuedEvents, EventTypes, Args

(* So are the requests. *)
LEMMA WellFormedRequests ==
    /\ \A d \in Devices, call \in {"open", "send_mtu_req"} : Request(call, d) \in QueuedRequests
    /\ \A s \in Services, call \in {"search_service", "register_for_notify", "write_char_descr"} :
         Request(call, s) \in QueuedRequests
    /\ \A call \in {"set_scan_params", "start_scanning", "stop_scanning"} :
         Request(call, None) \in QueuedRequests
BY DEF Request, QueuedRequests, Calls, Args

(* The handlers keep the queues well formed. *)
LEMMA CallbackTyped ==
    ASSUME TypeOK, Callback
    PROVE  TypeOK'
<1>1. /\ events # <<>> /\ events' = Tail(events) /\ UNCHANGED stackVars
  BY DEF Callback, Registered, ScanParamSet, ScanResult, OpenFailed, Opened, CfgMtu, SearchRes,
         Disconnected, SearchCmpl, RegForNotify, Handles
<1>2. events' \in Seq(QueuedEvents) /\ Head(events) \in QueuedEvents
  BY <1>1, EventTaken
<1>3. /\ Head(events).type \in {"SCAN_RESULT", "OPEN", "DISCONNECT"} => Arg \in Devices
      /\ Head(events).type \in {"SEARCH_RES", "REG_FOR_NOTIFY"} => Arg \in Services
  BY <1>2 DEF QueuedEvents, Arg
<1>4. api' \in Seq(QueuedRequests)
  <2>1. ASSUME NEW r \in QueuedRequests, Ask(<<r>>)
        PROVE  api' \in Seq(QueuedRequests)
    BY <2>1, RequestsAsked, ShortSeqs, Zenon
  <2>2. CASE UNCHANGED api
    BY <2>2 DEF TypeOK
  <2>3. CASE Registered \/ ScanParamSet \/ Disconnected
    BY <2>1, <2>3, WellFormedRequests DEF Registered, ScanParamSet, Disconnected, start_scan
  <2>4. CASE ScanResult
    <3>1. CASE Ask(<<Request("stop_scanning", None), Request("open", Arg)>>)
      <4>1. Request("stop_scanning", None) \in QueuedRequests
            /\ Request("open", Arg) \in QueuedRequests
        BY <2>4, <1>3, WellFormedRequests DEF ScanResult, Handles
      <4>2. <<Request("stop_scanning", None), Request("open", Arg)>> \in Seq(QueuedRequests)
        BY <4>1
      <4>3. QED
        BY <3>1, <4>2, RequestsAsked, Zenon
    <3>2. CASE Ask(<<Request("stop_scanning", None)>>)
      BY <3>2, <2>1, WellFormedRequests
    <3>3. QED
      BY <2>2, <2>4, <3>1, <3>2 DEF ScanResult
  <2>5. CASE Opened
    BY <2>1, <2>5, <1>3, WellFormedRequests DEF Opened, Handles
  <2>6. CASE CfgMtu
    <3>1. /\ Request("search_service", "HTU21D") \in QueuedRequests
          /\ Request("search_service", "MS5637") \in QueuedRequests
          /\ Request("search_service", "Battery") \in QueuedRequests
      BY WellFormedRequests DEF Services
    <3>2. <<Request("search_service", "HTU21D"), Request("search_service", "MS5637"),
            Request("search_service", "Battery")>> \in Seq(QueuedRequests)
      BY <3>1
    <3>3. QED
      BY <2>6, <3>2, RequestsAsked, Zenon DEF CfgMtu
  <2>7. CASE SearchCmpl
    BY <2>1, <2>2, <2>7, WellFormedRequests DEF SearchCmpl, FirstService, Services
  <2>8. CASE RegForNotify
    BY <2>1, <2>2, <2>8, <1>3, WellFormedRequests DEF RegForNotify, Handles
  <2>9. CASE OpenFailed \/ SearchRes
    BY <2>2, <2>9 DEF OpenFailed, SearchRes
  <2>10. QED
    BY <2>3, <2>4, <2>5, <2>6, <2>7, <2>8, <2>9 DEF Callback
<1>5. /\ conn_device' \in BOOLEAN /\ Isconnecting' \in BOOLEAN /\ stop_scan_done' \in BOOLEAN
      /\ remote_bda' \in Devices \cup {None}
      /\ get_service' \subseteq Services /\ data_char' \subseteq Services
      /\ faults' \subseteq FaultKinds
  <2>1. CASE (Registered \/ ScanParamSet \/ CfgMtu) /\ UNCHANGED faults
    BY <2>1 DEF Registered, ScanParamSet, CfgMtu, Handles, appVars, TypeOK
  <2>2. CASE ScanResult /\ UNCHANGED faults
    BY <2>2, Zenon DEF ScanResult, Handles, TypeOK
  <2>3. CASE (OpenFailed \/ Opened) /\ UNCHANGED faults
    BY <2>3, <1>3, Zenon DEF OpenFailed, Opened, Handles, TypeOK
  <2>4. CASE (SearchRes \/ Disconnected) /\ UNCHANGED faults
    BY <2>4, <1>3, Zenon DEF SearchRes, Disconnected, start_scan, Handles, TypeOK
  <2>5. CASE SearchCmpl
    BY <2>5, Zenon DEF SearchCmpl, FirstService, Services, Fault, FaultKinds, TypeOK
  <2>6. CASE RegForNotify
    BY <2>6, Zenon DEF RegForNotify, Fault, FaultKinds, appVars, TypeOK
  <2>7. QED
    BY <2>1, <2>2, <2>3, <2>4, <2>5, <2>6 DEF Callback
<1>6. QED
  BY <1>1, <1>2, <1>4, <1>5 DEF TypeOK, stackVars

(* So does the stack. *)
LEMMA StackTyped ==
    ASSUME TypeOK, Stack
    PROVE  TypeOK'
<1>1. /\ api # <<>> /\ api' = Tail(api) /\ UNCHANGED appVars
  BY Zenon DEF Stack, SetScanParams, StartScanning, StopScanning, SendMtuReq, WriteCharDescr, Open,
         SearchService, RegisterForNotify, Attribute, Serves
<1>2. api' \in Seq(QueuedRequests) /\ Head(api) \in QueuedRequests
  BY <1>1, RequestTaken
<1>3. /\ Head(api).call = "open" => Head(api).arg \in Devices
      /\ Head(api).call \in {"search_service", "register_for_notify", "write_char_descr"}
           => Head(api).arg \in Services
  BY <1>2 DEF QueuedRequests
<1>4. events' \in Seq(QueuedEvents)
  <2>1. ASSUME NEW e \in QueuedEvents, Post(<<e>>)
        PROVE  events' \in Seq(QueuedEvents)
    BY <2>1, EventsPosted, ShortSeqs, Zenon
  <2>2. CASE UNCHANGED events
    BY <2>2 DEF TypeOK
  <2>3. CASE Post(<<>>)
    BY <2>3, EventsPosted, ShortSeqs, Zenon
  <2>4. CASE SetScanParams \/ StartScanning \/ StopScanning
    BY <2>1, <2>2, <2>4, WellFormedEvents, Zenon DEF SetScanParams, StartScanning, StopScanning
  <2>5. CASE SendMtuReq \/ WriteCharDescr
    BY <2>1, <2>3, <2>5, WellFormedEvents, Zenon DEF SendMtuReq, WriteCharDescr, Attribute
  <2>6. CASE Open
    BY <2>1, <2>2, <2>6, <1>3, WellFormedEvents, Zenon DEF Open, Serves
  <2>7. CASE SearchService
    <3>1. Event("SEARCH_RES", Head(api).arg, TRUE) \in QueuedEvents
          /\ \A ok \in BOOLEAN : Event("SEARCH_CMPL", None, ok) \in QueuedEvents
      BY <2>7, <1>3, WellFormedEvents, Zenon DEF SearchService, Attribute, Serves
    <3>2. <<Event("SEARCH_RES", Head(api).arg, TRUE), Event("SEARCH_CMPL", None, TRUE)>>
            \in Seq(QueuedEvents)
      BY <3>1, ShortSeqs, Zenon
    <3>3. QED
      BY <2>1, <2>3, <2>7, <3>1, <3>2, EventsPosted, Zenon DEF SearchService, Attribute
  <2>8. CASE RegisterForNotify
    BY <2>1, <2>8, <1>3, WellFormedEvents DEF RegisterForNotify, Serves
  <2>9. QED
    BY <2>4, <2>5, <2>6, <2>7, <2>8 DEF Stack
<1>5. /\ scanning' \in BOOLEAN /\ link' \in {"none", "opening", "up"}
      /\ peer' \in Devices \cup {None} /\ enabled' \subseteq Services
      /\ link' # "none" => peer' \in Devices
      /\ faults' \subseteq FaultKinds
  <2>1. CASE (SetScanParams \/ StartScanning \/ StopScanning \/ SendMtuReq \/ WriteCharDescr)
               /\ UNCHANGED faults
    BY <2>1, <1>3, Zenon
    DEF TypeOK, SetScanParams, StartScanning, StopScanning, SendMtuReq, WriteCharDescr,
        Attribute, Serves, stackVars
  <2>2. CASE Open
    BY <2>2, <1>3, Zenon DEF TypeOK, Open, Serves, Fault, FaultKinds
  <2>3. CASE SearchService \/ RegisterForNotify
    BY <2>3, Zenon
    DEF TypeOK, SearchService, RegisterForNotify, Attribute, stackVars, Fault, FaultKinds
  <2>4. QED
    BY <2>1, <2>2, <2>3 DEF Stack
<1>6. QED
  BY <1>1, <1>2, <1>4, <1>5 DEF TypeOK, appVars

(* So do the radio and the tags. *)
LEMMA RadioTyped ==
    ASSUME TypeOK, Radio
    PROVE  TypeOK'
<1>1. UNCHANGED <<appVars, api>>
  BY Zenon DEF Radio, Advertise, ScanExpires, TagAnswers, TagDoesNotAnswer, LinkLost
<1>2. events' \in Seq(QueuedEvents)
  <2>1. ASSUME NEW e \in QueuedEvents, Post(<<e>>)
        PROVE  events' \in Seq(QueuedEvents)
    BY <2>1, EventsPosted, ShortSeqs, Zenon
  <2>2. CASE TagDoesNotAnswer
    <3>1. Event("DISCONNECT", peer, TRUE) \in QueuedEvents
          /\ Event("OPEN", peer, FALSE) \in QueuedEvents
      BY <2>2, WellFormedEvents, Zenon DEF TagDoesNotAnswer, TypeOK
    <3>2. <<Event("DISCONNECT", peer, TRUE), Event("OPEN", peer, FALSE)>> \in Seq(QueuedEvents)
      BY <3>1, ShortSeqs, Zenon
    <3>3. QED
      BY <2>2, <3>2, EventsPosted, Zenon DEF TagDoesNotAnswer
  <2>3. CASE \E d \in Devices : Advertise(d)
    BY <2>1, <2>3, WellFormedEvents, Zenon DEF Advertise
  <2>4. CASE TagAnswers \/ LinkLost \/ ScanExpires
    BY <2>1, <2>4, WellFormedEvents, Zenon DEF TagAnswers, LinkLost, ScanExpires, TypeOK
  <2>5. QED
    BY <2>2, <2>3, <2>4 DEF Radio
<1>3. /\ scanning' \in BOOLEAN /\ link' \in {"none", "opening", "up"}
      /\ peer' \in Devices \cup {None} /\ enabled' \subseteq Services
      /\ link' # "none" => peer' \in Devices
      /\ faults' \subseteq FaultKinds
  BY Zenon DEF TypeOK, Radio, Advertise, ScanExpires, TagAnswers, TagDoesNotAnswer, LinkLost,
         stackVars, Fault, FaultKinds
<1>4. QED
  BY <1>1, <1>2, <1>3 DEF TypeOK, appVars

(* The queues are always well formed. *)
LEMMA TypesInductive ==
    /\ Init => TypeOK
    /\ TypeOK /\ [Next]_vars => TypeOK'
<1>1. Init => TypeOK
  <2>. SUFFICES ASSUME Init
                PROVE  TypeOK
    OBVIOUS
  <2>1. Event("REG", None, TRUE) \in QueuedEvents
    BY WellFormedEvents, Zenon
  <2>2. events \in Seq(QueuedEvents) /\ api \in Seq(QueuedRequests)
    BY <2>1, ShortSeqs, Zenon DEF Init
  <2>3. QED
    BY <2>2, Zenon DEF Init, TypeOK, Services, FaultKinds
<1>2. ASSUME TypeOK, [Next]_vars
      PROVE  TypeOK'
  <2>1. CASE UNCHANGED vars
    BY <1>2, <2>1 DEF TypeOK, vars, appVars, stackVars
  <2>2. QED
    BY <1>2, <2>1, CallbackTyped, StackTyped, RadioTyped DEF Next
<1>3. QED
  BY <1>1, <1>2

-----------------------------------------------------------------------------
(* Steps that leave the connection alone *)

(* The reports stay queued, and in the same order; d is the number of      *)
(* events taken, none of them a report.                                    *)
SameReports(d) ==
    /\ \A i \in 1..Len(events) : IsReport(events[i]) =>
         i - d \in 1..Len(events') /\ events'[i - d] = events[i]
    /\ \A i \in 1..Len(events') : IsReport(events'[i]) =>
         i + d \in 1..Len(events) /\ events[i + d] = events'[i]

SameOpens ==
    /\ Opens({}) => Opens({})'
    /\ (\E r \in 1..Len(api) : Opens({r})) => (\E r \in 1..Len(api) : Opens({r}))'

(* A handler of another event. *)
LEMMA TakesNoReport ==
    ASSUME TypeOK, events # <<>>, events' = Tail(events), ~IsReport(Head(events))
    PROVE  SameReports(1) /\ ~IsReport(events[1])
<1>1. /\ Head(events) = events[1] /\ Len(events) \in Nat /\ Len(events') = Len(events) - 1
      /\ \A i \in 1..Len(events') : events'[i] = events[i + 1]
  BY EventTaken
<1>2. \A i \in 1..Len(events) : IsReport(events[i]) => i - 1 \in 1..Len(events')
  BY <1>1
<1>3. QED
  BY <1>1, <1>2 DEF SameReports

(* Events of other types. *)
LEMMA PostsNoReport ==
    ASSUME TypeOK, NEW es \in Seq(QueuedEvents), Post(es),
           \A i \in 1..Len(es) : ~IsReport(es[i])
    PROVE  SameReports(0)
<1>1. /\ Len(es) \in Nat /\ Len(events) \in Nat /\ Len(events') = Len(events) + Len(es)
      /\ \A i \in 1..Len(events) : events'[i] = events[i]
      /\ \A i \in 1..Len(es) : events'[Len(events) + i] = es[i]
  BY EventsPosted
<1>2. \A i \in 1..Len(events') : IsReport(events'[i]) => i \in 1..Len(events)
  <2>. SUFFICES ASSUME NEW i \in 1..Len(events'), IsReport(events'[i]), i > Len(events)
                PROVE  FALSE
    BY <1>1
  <2>1. i - Len(events) \in 1..Len(es) /\ i = Len(events) + (i - Len(events))
    BY <1>1
  <2>2. events'[i] = es[i - Len(events)]
    BY <1>1, <2>1
  <2>3. QED
    BY <2>1, <2>2
<1>3. QED
  BY <1>1, <1>2 DEF SameReports

(* Requests of other kinds. *)
LEMMA TakesNoOpen ==
    ASSUME TypeOK, api # <<>>, api' = Tail(api), Head(api).call # "open"
    PROVE  SameOpens
<1>1. /\ Head(api) = api[1] /\ Len(api) \in Nat /\ Len(api') = Len(api) - 1
      /\ \A i \in 1..Len(api') : api'[i] = api[i + 1]
  BY RequestTaken
<1>2. Opens({}) => Opens({})'
  BY <1>1 DEF Opens
<1>3. ASSUME NEW r \in 1..Len(api), Opens({r})
      PROVE  r - 1 \in 1..Len(api') /\ Opens({r - 1})'
  <2>1. r # 1
    BY <1>1, <1>3 DEF Opens
  <2>2. r - 1 \in 1..Len(api')
    BY <1>1, <2>1
  <2>3. QED
    BY <1>1, <1>3, <2>2 DEF Opens
<1>4. QED
  BY <1>2, <1>3, Zenon DEF SameOpens

(* New requests of other kinds. *)
LEMMA AsksNoOpen ==
    ASSUME TypeOK, NEW rs \in Seq(QueuedRequests), Ask(rs),
           \A i \in 1..Len(rs) : rs[i].call # "open"
    PROVE  SameOpens
<1>1. /\ Len(rs) \in Nat /\ Len(api) \in Nat /\ Len(api') = Len(api) + Len(rs)
      /\ \A i \in 1..Len(api) : api'[i] = api[i]
      /\ \A i \in 1..Len(rs) : api'[Len(api) + i] = rs[i]
  BY RequestsAsked
<1>2. \A i \in 1..Len(api') : api'[i].call = "open" => i \in 1..Len(api)
  <2>. SUFFICES ASSUME NEW i \in 1..Len(api'), api'[i].call = "open", i > Len(api)
                PROVE  FALSE
    BY <1>1
  <2>1. i - Len(api) \in 1..Len(rs) /\ i = Len(api) + (i - Len(api))
    BY <1>1
  <2>2. api'[i] = rs[i - Len(api)]
    BY <1>1, <2>1
  <2>3. QED
    BY <2>1, <2>2
<1>3. ASSUME NEW S \in SUBSET (1..Len(api)), Opens(S)
      PROVE  Opens(S)'
  <2>1. S \subseteq 1..Len(api')
    BY <1>1
  <2>2. \A i \in 1..Len(api') : api'[i].call = "open" <=> i \in S
    BY <1>1, <1>2, <1>3 DEF Opens
  <2>3. QED
    BY <2>1, <2>2 DEF Opens
<1>4. \A r \in 1..Len(api) : r \in 1..Len(api')
  BY <1>1
<1>5. QED
  BY <1>3, <1>4, Zenon DEF SameOpens

(* Reports that stay queued. *)
LEMMA ReportsKept ==
    ASSUME TypeOK, NEW d \in {0, 1}, SameReports(d)
    PROVE  /\ Reports({}) => Reports({})'
           /\ \A i \in 1..Len(events) : Reports({i}) =>
                i - d \in 1..Len(events') /\ Reports({i - d})' /\ events'[i - d] = events[i]
           /\ \A i, j \in 1..Len(events) : Reports({i, j}) =>
                /\ i - d \in 1..Len(events') /\ j - d \in 1..Len(events')
                /\ Reports({i - d, j - d})'
                /\ events'[i - d] = events[i] /\ events'[j - d] = events[j]
<1>1. Reports({}) => Reports({})'
  BY DEF Reports, SameReports
<1>2. ASSUME NEW i \in 1..Len(events), Reports({i})
      PROVE  i - d \in 1..Len(events') /\ Reports({i - d})' /\ events'[i - d] = events[i]
  <2>1. i - d \in 1..Len(events') /\ events'[i - d] = events[i] /\ IsReport(events[i])
    BY <1>2 DEF Reports, SameReports
  <2>2. \A k \in 1..Len(events') : IsReport(events'[k]) <=> k \in {i - d}
    BY <1>2, <2>1 DEF Reports, SameReports
  <2>3. QED
    BY <2>1, <2>2 DEF Reports
<1>3. ASSUME NEW i \in 1..Len(events), NEW j \in 1..Len(events), Reports({i, j})
      PROVE  /\ i - d \in 1..Len(events') /\ j - d \in 1..Len(events')
             /\ Reports({i - d, j - d})'
             /\ events'[i - d] = events[i] /\ events'[j - d] = events[j]
  <2>1. /\ i - d \in 1..Len(events') /\ events'[i - d] = events[i] /\ IsReport(events[i])
        /\ j - d \in 1..Len(events') /\ events'[j - d] = events[j] /\ IsReport(events[j])
    BY <1>3 DEF Reports, SameReports
  <2>2. \A k \in 1..Len(events') : IsReport(events'[k]) <=> k \in {i - d, j - d}
    BY <1>3, <2>1 DEF Reports, SameReports
  <2>3. QED
    BY <2>1, <2>2 DEF Reports
<1>4. QED
  BY <1>1, <1>2, <1>3, Zenon

(* Such a step keeps the state of the connection. *)
LEMMA QuietStep ==
    ASSUME TypeOK, LinkState, NEW d \in {0, 1}, SameReports(d),
           d = 1 => ~IsReport(events[1]), SameOpens,
           UNCHANGED <<conn_device, Isconnecting, remote_bda, link, peer>>, faults \subseteq faults'
    PROVE  LinkState'
<1>0. Len(events) \in Nat
  BY DEF TypeOK
<1>1. CASE Free
  BY <1>1, ReportsKept DEF Free, LinkState, SameOpens
<1>2. CASE Asked
  BY <1>2, ReportsKept, Zenon DEF Asked, LinkState, SameOpens
<1>3. CASE Opening
  BY <1>3, ReportsKept DEF Opening, LinkState, SameOpens
<1>4. CASE Announced
  <2>1. PICK i \in 1..Len(events) :
          Reports({i}) /\ events[i].type = "OPEN" /\ events[i].ok /\ events[i].arg = peer
    BY <1>4, Zenon DEF Announced
  <2>2. i - d \in 1..Len(events') /\ Reports({i - d})' /\ events'[i - d] = events[i]
    BY <2>1, ReportsKept, Zenon
  <2>3. Announced'
    BY <1>4, <2>1, <2>2, Zenon DEF Announced, SameOpens
  <2>4. QED
    BY <2>3 DEF LinkState
<1>5. CASE Up
  BY <1>5, ReportsKept DEF Up, LinkState, SameOpens
<1>6. CASE LostEarly
  <2>1. PICK i \in 1..Len(events), j \in 1..Len(events) :
          /\ i < j /\ Reports({i, j})
          /\ events[i].type = "OPEN" /\ events[i].ok
          /\ events[j].type = "DISCONNECT" /\ events[j].arg = events[i].arg
    BY <1>6, Zenon DEF LostEarly
  <2>2. /\ i - d \in 1..Len(events') /\ j - d \in 1..Len(events')
        /\ Reports({i - d, j - d})' /\ events'[i - d] = events[i] /\ events'[j - d] = events[j]
    BY <2>1, ReportsKept, ZenonT(60)
  <2>3. i - d < j - d
    BY <2>1, <1>0
  <2>4. (conn_device /\ Opens({}) /\ link = "none")'
    BY <1>6 DEF LostEarly, SameOpens
  <2>5. events'[i - d].type = "OPEN" /\ events'[i - d].ok
    BY <2>1, <2>2, Zenon
  <2>6. events'[j - d].type = "DISCONNECT" /\ events'[j - d].arg = events'[i - d].arg
    BY <2>1, <2>2, Zenon
  <2>7. LostEarly'
    BY <2>2, <2>3, <2>4, <2>5, <2>6, ZenonT(30) DEF LostEarly
  <2>8. QED
    BY <2>7 DEF LinkState
<1>7. CASE Lost
  <2>1. PICK i \in 1..Len(events) :
          Reports({i}) /\ events[i].type = "DISCONNECT" /\ events[i].arg = remote_bda
    BY <1>7, Zenon DEF Lost
  <2>2. i - d \in 1..Len(events') /\ Reports({i - d})' /\ events'[i - d] = events[i]
    BY <2>1, ReportsKept, Zenon
  <2>3. Lost'
    BY <1>7, <2>1, <2>2, Zenon DEF Lost, SameOpens
  <2>4. QED
    BY <2>3 DEF LinkState
<1>8. CASE Unanswered
  <2>1. PICK i \in 1..Len(events) :
          /\ i + 1 \in 1..Len(events) /\ Reports({i, i + 1})
          /\ events[i].type = "DISCONNECT" /\ Failure(events[i + 1])
    BY <1>8, Zenon DEF Unanswered
  <2>2. /\ i - d \in 1..Len(events') /\ (i + 1) - d \in 1..Len(events')
        /\ Reports({i - d, (i + 1) - d})'
        /\ events'[i - d] = events[i] /\ events'[(i + 1) - d] = events[i + 1]
    BY <2>1, ReportsKept, Zenon
  <2>3. (i + 1) - d = (i - d) + 1
    BY <1>0
  <2>4. Unanswered'
    BY <1>8, <2>1, <2>2, <2>3, Zenon DEF Unanswered, SameOpens
  <2>5. QED
    BY <2>4 DEF LinkState
<1>9. CASE HalfReported
  <2>1. IsReport(events[1]) /\ Reports({1}) /\ 1 \in 1..Len(events)
    BY <1>9 DEF HalfReported, Failure, IsReport
  <2>2. d = 0
    BY <2>1
  <2>3. 1 - d \in 1..Len(events') /\ Reports({1 - d})' /\ events'[1 - d] = events[1]
    BY <2>1, ReportsKept
  <2>4. 1 \in 1..Len(events') /\ Reports({1})' /\ events'[1] = events[1]
    BY <2>2, <2>3
  <2>5. HalfReported'
    BY <1>9, <2>4 DEF HalfReported, SameOpens
  <2>6. QED
    BY <2>5 DEF LinkState
<1>10. CASE Refused
  <2>1. PICK i \in 1..Len(events) : Reports({i}) /\ Failure(events[i])
    BY <1>10, Zenon DEF Refused
  <2>2. i - d \in 1..Len(events') /\ Reports({i - d})' /\ events'[i - d] = events[i]
    BY <2>1, ReportsKept, Zenon
  <2>3. Refused'
    BY <1>10, <2>1, <2>2, Zenon DEF Refused, SameOpens
  <2>4. QED
    BY <2>3 DEF LinkState
<1>11. QED
  BY <1>1, <1>2, <1>3, <1>4, <1>5, <1>6, <1>7, <1>8, <1>9, <1>10 DEF LinkState

(* One request that is not to open a connection. *)
LEMMA AskOne ==
    ASSUME TypeOK, NEW r \in QueuedRequests, r.call # "open", Ask(<<r>>)
    PROVE  SameOpens
<1>1. <<r>> \in Seq(QueuedRequests) /\ \A i \in 1..Len(<<r>>) : <<r>>[i].call # "open"
  OBVIOUS
<1>2. QED
  BY <1>1, AsksNoOpen, Zenon

(* One event that is not a report. *)
LEMMA PostOne ==
    ASSUME TypeOK, NEW e \in QueuedEvents, ~IsReport(e), Post(<<e>>)
    PROVE  SameReports(0)
<1>1. <<e>> \in Seq(QueuedEvents) /\ \A i \in 1..Len(<<e>>) : <<e>>[i] = e
  OBVIOUS
<1>2. QED
  BY <1>1, PostsNoReport, Zenon

(* Queues that do not change. *)
LEMMA SameQueues ==
    /\ UNCHANGED api => SameOpens
    /\ TypeOK /\ UNCHANGED events => SameReports(0)
<1>1. UNCHANGED api => SameOpens
  BY DEF SameOpens, Opens
<1>2. TypeOK /\ UNCHANGED events => SameReports(0)
  BY DEF SameReports, TypeOK
<1>3. QED
  BY <1>1, <1>2

(* The handlers of the other events. *)
LEMMA QuietCallback ==
    ASSUME TypeOK, LinkState,
           \/ Registered \/ ScanParamSet \/ CfgMtu \/ SearchRes
           \/ ScanResult /\ (Isconnecting \/ conn_device)
           \/ SearchCmpl \/ RegForNotify,
           faults \subseteq faults'
    PROVE  LinkState'
<1>1. /\ events # <<>> /\ events' = Tail(events) /\ ~IsReport(Head(events))
      /\ UNCHANGED <<conn_device, Isconnecting, remote_bda, link, peer>>
  BY DEF Registered, ScanParamSet, CfgMtu, SearchRes, ScanResult, SearchCmpl, RegForNotify,
         Handles, IsReport, appVars, stackVars
<1>2. SameReports(1) /\ ~IsReport(events[1])
  BY <1>1, TakesNoReport
<1>3. Head(events) \in QueuedEvents
  BY <1>1, EventTaken
<1>4. SameOpens
  <2>1. CASE UNCHANGED api
    BY <2>1, SameQueues
  <2>2. ASSUME NEW call \in {"set_scan_params", "start_scanning", "stop_scanning"},
               Ask(<<Request(call, None)>>)
        PROVE  SameOpens
    <3>1. Request(call, None) \in QueuedRequests /\ Request(call, None).call # "open"
      BY WellFormedRequests DEF Request
    <3>2. QED
      BY <2>2, <3>1, AskOne
  <2>3. ASSUME NEW call \in {"register_for_notify", "write_char_descr"}, NEW v \in Services,
               Ask(<<Request(call, v)>>)
        PROVE  SameOpens
    <3>1. Request(call, v) \in QueuedRequests /\ Request(call, v).call # "open"
      BY WellFormedRequests, Zenon DEF Request
    <3>2. QED
      BY <2>3, <3>1, AskOne
  <2>4. CASE CfgMtu
    <3>. DEFINE rs == <<Request("search_service", "HTU21D"), Request("search_service", "MS5637"),
                        Request("search_service", "Battery")>>
    <3>1. /\ Request("search_service", "HTU21D") \in QueuedRequests
          /\ Request("search_service", "MS5637") \in QueuedRequests
          /\ Request("search_service", "Battery") \in QueuedRequests
      BY WellFormedRequests DEF Services
    <3>2. rs \in Seq(QueuedRequests)
      BY <3>1, ShortSeqs
    <3>3. \A i \in 1..Len(rs) : rs[i].call # "open"
      BY DEF Request
    <3>4. Ask(rs)
      BY <2>4 DEF CfgMtu
    <3>5. QED
      BY <3>2, <3>3, <3>4, AsksNoOpen, Zenon
  <2>5. CASE Registered \/ ScanParamSet \/ SearchRes
    BY <2>1, <2>2, <2>5 DEF Registered, ScanParamSet, SearchRes
  <2>6. CASE ScanResult /\ (Isconnecting \/ conn_device)
    BY <2>1, <2>2, <2>6 DEF ScanResult
  <2>7. CASE SearchCmpl
    BY <2>1, <2>3, <2>7 DEF SearchCmpl, FirstService, Services
  <2>8. CASE RegForNotify
    <3>1. Arg \in Services
      BY <2>8, <1>3 DEF RegForNotify, Handles, QueuedEvents, Arg
    <3>2. QED
      BY <2>1, <2>3, <2>8, <3>1 DEF RegForNotify
  <2>9. QED
    BY <2>4, <2>5, <2>6, <2>7, <2>8
<1>5. QED
  BY <1>1, <1>2, <1>4, QuietStep

(* What the stack does for the other requests. *)
LEMMA QuietStack ==
    ASSUME TypeOK, LinkState,
           \/ SetScanParams \/ StartScanning \/ StopScanning \/ SendMtuReq \/ WriteCharDescr
           \/ SearchService \/ RegisterForNotify,
           faults \subseteq faults'
    PROVE  LinkState'
<1>1. /\ api # <<>> /\ api' = Tail(api) /\ Head(api).call # "open"
      /\ UNCHANGED <<conn_device, Isconnecting, remote_bda, link, peer>>
  BY Zenon DEF SetScanParams, StartScanning, StopScanning, SendMtuReq, WriteCharDescr, SearchService,
         RegisterForNotify, Attribute, Serves, appVars, stackVars
<1>2. SameOpens
  BY <1>1, TakesNoOpen
<1>3. Head(api) \in QueuedRequests
  BY <1>1, RequestTaken
<1>4. SameReports(0)
  <2>1. CASE UNCHANGED events
    BY <2>1, SameQueues
  <2>2. CASE Post(<<>>)
    <3>1. UNCHANGED events
      BY <2>2 DEF Post, TypeOK
    <3>2. QED
      BY <3>1, SameQueues
  <2>3. ASSUME NEW type \in {"SCAN_PARAM_SET", "CFG_MTU", "SEARCH_CMPL"}, NEW ok \in BOOLEAN,
               Post(<<Event(type, None, ok)>>)
        PROVE  SameReports(0)
    <3>1. Event(type, None, ok) \in QueuedEvents /\ ~IsReport(Event(type, None, ok))
      BY WellFormedEvents, Zenon DEF IsReport, Event
    <3>2. QED
      BY <2>3, <3>1, PostOne
  <2>4. CASE SetScanParams \/ StartScanning \/ StopScanning
    BY <2>1, <2>3, <2>4, Zenon DEF SetScanParams, StartScanning, StopScanning
  <2>5. CASE SendMtuReq \/ WriteCharDescr
    BY <2>2, <2>3, <2>5, Zenon DEF SendMtuReq, WriteCharDescr, Attribute
  <2>6. CASE SearchService
    <3>. DEFINE e == Event("SEARCH_RES", Head(api).arg, TRUE)
                f == Event("SEARCH_CMPL", None, TRUE)
    <3>1. Head(api).arg \in Services
      BY <2>6, <1>3, Zenon DEF SearchService, Attribute, Serves, QueuedRequests
    <3>2. e \in QueuedEvents /\ f \in QueuedEvents /\ ~IsReport(e) /\ ~IsReport(f)
      BY <3>1, WellFormedEvents, Zenon DEF IsReport, Event
    <3>3. Post(<<e, f>>) \/ Post(<<>>) \/ \E ok \in BOOLEAN : Post(<<Event("SEARCH_CMPL", None, ok)>>)
      BY <2>6 DEF SearchService, Attribute
    <3>4. CASE Post(<<e, f>>)
      <4>. HIDE DEF e, f
      <4>1. <<e, f>> \in Seq(QueuedEvents) /\ \A i \in 1..Len(<<e, f>>) : ~IsReport(<<e, f>>[i])
        BY <3>2
      <4>2. QED
        BY <3>4, <4>1, PostsNoReport, Zenon
    <3>5. QED
      BY <2>2, <2>3, <3>3, <3>4, Zenon
  <2>7. CASE RegisterForNotify
    <3>1. PICK ok \in BOOLEAN : Post(<<Event("REG_FOR_NOTIFY", Head(api).arg, ok)>>)
      BY <2>7 DEF RegisterForNotify
    <3>2. Head(api).arg \in Services
      BY <2>7, <1>3 DEF RegisterForNotify, Serves, QueuedRequests
    <3>. DEFINE e == Event("REG_FOR_NOTIFY", Head(api).arg, ok)
    <3>3. e \in QueuedEvents /\ ~IsReport(e)
      BY <3>2, WellFormedEvents, Zenon DEF IsReport, Event
    <3>4. QED
      BY <3>1, <3>3, PostOne
  <2>8. QED
    BY <2>4, <2>5, <2>6, <2>7
<1>5. QED
  BY <1>1, <1>2, <1>4, QuietStep

(* An advertisement, and the end of a scan. *)
LEMMA QuietRadio ==
    ASSUME TypeOK, LinkState, ScanExpires \/ \E d \in Devices : Advertise(d)
    PROVE  LinkState'
<1>1. UNCHANGED <<conn_device, Isconnecting, remote_bda, link, peer, api>> /\ faults \subseteq faults'
  BY Zenon DEF ScanExpires, Advertise, appVars, stackVars, Fault
<1>2. SameReports(0)
  <2>1. CASE ScanExpires
    BY <2>1, SameQueues DEF ScanExpires
  <2>2. ASSUME NEW d \in Devices, Advertise(d)
        PROVE  SameReports(0)
    <3>1. Event("SCAN_RESULT", d, TRUE) \in QueuedEvents /\ ~IsReport(Event("SCAN_RESULT", d, TRUE))
      BY WellFormedEvents, Zenon DEF IsReport, Event
    <3>2. QED
      BY <2>2, <3>1, PostOne, Zenon DEF Advertise
  <2>3. QED
    BY <2>1, <2>2
<1>3. QED
  BY <1>1, <1>2, SameQueues, QuietStep

-----------------------------------------------------------------------------
(* Steps that change it *)

(* The oldest report is handled. *)
LEMMA ReportTaken ==
    ASSUME TypeOK, events # <<>>, events' = Tail(events), IsReport(Head(events))
    PROVE  /\ ~Reports({})
           /\ \A i \in 1..Len(events) : Reports({i}) => i = 1 /\ Reports({})'
           /\ \A i, j \in 1..Len(events) : i < j /\ Reports({i, j}) =>
                i = 1 /\ j - 1 \in 1..Len(events') /\ Reports({j - 1})' /\ events'[j - 1] = events[j]
<1>1. /\ Head(events) = events[1] /\ 1 \in 1..Len(events)
      /\ Len(events) \in Nat /\ Len(events') = Len(events) - 1
      /\ \A i \in 1..Len(events') : events'[i] = events[i + 1]
  BY EventTaken
<1>2. ~Reports({})
  BY <1>1 DEF Reports
<1>3. \A i \in 1..Len(events) : Reports({i}) => i = 1
  BY <1>1 DEF Reports
<1>4. \A i \in 1..Len(events) : Reports({i}) => Reports({})'
  BY <1>1, <1>3 DEF Reports
<1>5. ASSUME NEW i \in 1..Len(events), NEW j \in 1..Len(events), i < j, Reports({i, j})
      PROVE  i = 1 /\ j - 1 \in 1..Len(events') /\ Reports({j - 1})' /\ events'[j - 1] = events[j]
  <2>1. i = 1
    BY <1>1, <1>5 DEF Reports
  <2>2. j - 1 \in 1..Len(events') /\ events'[j - 1] = events[j]
    BY <1>1, <1>5
  <2>3. \A k \in 1..Len(events') : IsReport(events'[k]) <=> k \in {j - 1}
    BY <1>1, <1>5, <2>1, <2>2 DEF Reports
  <2>4. QED
    BY <2>1, <2>2, <2>3 DEF Reports
<1>6. QED
  BY <1>2, <1>3, <1>4, <1>5

(* A report is queued behind the others. *)
LEMMA ReportPosted ==
    ASSUME TypeOK, NEW e \in QueuedEvents, IsReport(e), Post(<<e>>)
    PROVE  \E k \in 1..Len(events') :
             /\ events'[k] = e
             /\ Reports({}) => Reports({k})'
             /\ \A i \in 1..Len(events) : Reports({i}) =>
                  i \in 1..Len(events') /\ i < k /\ Reports({i, k})' /\ events'[i] = events[i]
<1>1. <<e>> \in Seq(QueuedEvents) /\ Len(<<e>>) = 1 /\ <<e>>[1] = e
  OBVIOUS
<1>2. /\ Len(events) \in Nat /\ Len(events') = Len(events) + 1
      /\ \A i \in 1..Len(events) : events'[i] = events[i]
      /\ events'[Len(events) + 1] = e
  <2>1. /\ Len(events) \in Nat /\ Len(events') = Len(events) + 1
        /\ \A i \in 1..Len(events) : events'[i] = events[i]
        /\ \A i \in 1..1 : events'[Len(events) + i] = <<e>>[i]
    BY <1>1, EventsPosted, Zenon
  <2>2. QED
    BY <1>1, <2>1
<1>3. PICK k \in Nat : k = Len(events) + 1
  BY <1>2
<1>4. k \in 1..Len(events') /\ events'[k] = e
  BY <1>2, <1>3
<1>5. Reports({}) => Reports({k})'
  BY <1>2, <1>3, <1>4 DEF Reports
<1>6. ASSUME NEW i \in 1..Len(events), Reports({i})
      PROVE  i \in 1..Len(events') /\ i < k /\ Reports({i, k})' /\ events'[i] = events[i]
  <2>1. i \in 1..Len(events') /\ i < k /\ events'[i] = events[i]
    BY <1>2, <1>3
  <2>2. \A j \in 1..Len(events') : IsReport(events'[j]) <=> j \in {i, k}
    BY <1>2, <1>3, <1>4, <1>6 DEF Reports
  <2>3. QED
    BY <1>4, <2>1, <2>2 DEF Reports
<1>7. QED
  BY <1>4, <1>5, <1>6, Zenon

(* Two reports are queued next to each other. *)
LEMMA ReportsPosted ==
    ASSUME TypeOK, NEW e \in QueuedEvents, NEW f \in QueuedEvents, IsReport(e), IsReport(f),
           Post(<<e, f>>), Reports({})
    PROVE  \E k \in 1..Len(events') :
             /\ k + 1 \in 1..Len(events') /\ Reports({k, k + 1})'
             /\ events'[k] = e /\ events'[k + 1] = f
<1>1. <<e, f>> \in Seq(QueuedEvents) /\ Len(<<e, f>>) = 2 /\ <<e, f>>[1] = e /\ <<e, f>>[2] = f
  OBVIOUS
<1>2. /\ Len(events) \in Nat /\ Len(events') = Len(events) + 2
      /\ \A i \in 1..Len(events) : events'[i] = events[i]
      /\ \A i \in 1..2 : events'[Len(events) + i] = <<e, f>>[i]
  BY <1>1, EventsPosted, Zenon
<1>3. PICK k \in Nat : k = Len(events) + 1
  BY <1>2
<1>4. /\ k \in 1..Len(events') /\ k + 1 \in 1..Len(events')
      /\ events'[k] = e /\ events'[k + 1] = f
  <2>1. events'[Len(events) + 1] = <<e, f>>[1] /\ events'[Len(events) + 2] = <<e, f>>[2]
    BY <1>2
  <2>2. k + 1 = Len(events) + 2
    BY <1>2, <1>3
  <2>3. QED
    BY <1>1, <1>2, <1>3, <2>1, <2>2
<1>5. \A j \in 1..Len(events') : IsReport(events'[j]) <=> j \in {k, k + 1}
  BY <1>2, <1>3, <1>4 DEF Reports
<1>6. QED
  BY <1>4, <1>5 DEF Reports

(* The scan result that is acted on. *)
LEMMA ScanOpens ==
    ASSUME TypeOK, LinkState, ScanResult, ~Isconnecting, ~conn_device
    PROVE  LinkState'
<1>1. /\ events # <<>> /\ events' = Tail(events) /\ Head(events).type = "SCAN_RESULT"
      /\ conn_device' /\ link' = link
      /\ Ask(<<Request("stop_scanning", None), Request("open", Arg)>>)
  BY DEF ScanResult, Handles, stackVars
<1>2. ~IsReport(Head(events)) /\ Head(events) = events[1] /\ Head(events) \in QueuedEvents
      /\ 1 \in 1..Len(events)
  BY <1>1, EventTaken DEF IsReport
<1>3. ~HalfReported
  BY <1>1, <1>2 DEF HalfReported, Failure
<1>4. Free
  BY <1>3 DEF LinkState, Free, Asked, Opening, Announced, Up, LostEarly, Lost, Unanswered, Refused
<1>5. Reports({})'
  BY <1>1, <1>2, <1>4, TakesNoReport, ReportsKept DEF Free
<1>. DEFINE rs == <<Request("stop_scanning", None), Request("open", Arg)>>
<1>6. rs \in Seq(QueuedRequests) /\ Len(rs) = 2 /\ rs[1].call # "open" /\ rs[2].call = "open"
  <2>1. Arg \in Devices
    BY <1>1, <1>2 DEF QueuedEvents, Arg
  <2>2. Request("stop_scanning", None) \in QueuedRequests /\ Request("open", Arg) \in QueuedRequests
    BY <2>1, WellFormedRequests
  <2>3. QED
    BY <2>2, ShortSeqs DEF Request
<1>. HIDE DEF rs
<1>7. /\ Len(api) \in Nat /\ Len(api') = Len(api) + 2
      /\ \A i \in 1..Len(api) : api'[i] = api[i]
      /\ \A i \in 1..2 : api'[Len(api) + i] = rs[i]
  BY <1>1, <1>6, RequestsAsked, Zenon DEF rs
<1>8. PICK r \in Nat : r = Len(api) + 2
  BY <1>7
<1>9. api'[Len(api) + 1].call # "open" /\ api'[r].call = "open" /\ r \in 1..Len(api')
  BY <1>6, <1>7, <1>8
<1>10. \A i \in 1..Len(api') : i \in 1..Len(api) \/ i = Len(api) + 1 \/ i = r
  BY <1>7, <1>8
<1>11. \A i \in 1..Len(api') : api'[i].call = "open" <=> i \in {r}
  BY <1>4, <1>7, <1>8, <1>9, <1>10 DEF Free, Opens
<1>12. Opens({r})'
  BY <1>9, <1>11 DEF Opens
<1>13. Asked'
  BY <1>1, <1>4, <1>5, <1>9, <1>12, Zenon DEF Asked, Free
<1>14. QED
  BY <1>13 DEF LinkState

(* ESP_GATTC_OPEN_EVT with an error ends the attempt: nothing else is      *)
(* queued or under way.                                                    *)
LEMMA OpenFailedKeeps ==
    ASSUME TypeOK, LinkState, OpenFailed, UNCHANGED faults
    PROVE  LinkState'
<1>1. /\ events # <<>> /\ events' = Tail(events) /\ Failure(Head(events))
      /\ ~conn_device' /\ UNCHANGED <<api, Isconnecting, link>>
  BY DEF OpenFailed, Handles, Failure, stackVars
<1>2. IsReport(Head(events)) /\ Head(events) = events[1]
  BY <1>1, EventTaken DEF IsReport, Failure
<1>3. /\ ~Reports({})
      /\ \A i \in 1..Len(events) : Reports({i}) => i = 1 /\ Reports({})'
      /\ \A i, j \in 1..Len(events) : i < j /\ Reports({i, j}) => i = 1
  BY <1>1, <1>2, ReportTaken, Zenon
<1>4. HalfReported \/ Refused
  <2>1. ~Free /\ ~Asked /\ ~Opening /\ ~Up
    BY <1>3 DEF Free, Asked, Opening, Up
  <2>2. ~Announced /\ ~Lost
    BY <1>1, <1>2, <1>3, Zenon DEF Announced, Lost, Failure
  <2>3. ~LostEarly
    BY <1>1, <1>2, <1>3, Zenon DEF LostEarly, Failure
  <2>4. ~Unanswered
    <3>. SUFFICES ASSUME NEW i \in 1..Len(events), i + 1 \in 1..Len(events), Reports({i, i + 1}),
                         events[i].type = "DISCONNECT"
                  PROVE  FALSE
      BY Zenon DEF Unanswered
    <3>0. i < i + 1
      OBVIOUS
    <3>1. i = 1
      BY <1>3, <3>0
    <3>2. QED
      BY <3>1, <1>1, <1>2 DEF Failure
  <2>5. QED
    BY <2>1, <2>2, <2>3, <2>4 DEF LinkState
<1>5. Opens({})' /\ link' = "none" /\ Reports({})' /\ (Isconnecting' => "refused" \in faults')
  BY <1>1, <1>3, <1>4, Zenon DEF HalfReported, Refused, Opens
<1>6. QED
  BY <1>1, <1>5 DEF LinkState, Free

(* ESP_GATTC_OPEN_EVT records the tag that the connection is, or was, with. *)
LEMMA OpenedKeeps ==
    ASSUME TypeOK, LinkState, Opened
    PROVE  LinkState'
<1>1. /\ events # <<>> /\ events' = Tail(events) /\ Head(events).type = "OPEN" /\ Head(events).ok
      /\ remote_bda' = Arg /\ Ask(<<Request("send_mtu_req", Arg)>>)
      /\ UNCHANGED <<conn_device, Isconnecting, link, peer>>
  BY DEF Opened, Handles, stackVars
<1>2. IsReport(Head(events)) /\ Head(events) = events[1] /\ Head(events) \in QueuedEvents
  BY <1>1, EventTaken DEF IsReport
<1>3. /\ ~Reports({})
      /\ \A i \in 1..Len(events) : Reports({i}) => i = 1 /\ Reports({})'
      /\ \A i, j \in 1..Len(events) : i < j /\ Reports({i, j}) =>
           i = 1 /\ j - 1 \in 1..Len(events') /\ Reports({j - 1})' /\ events'[j - 1] = events[j]
  BY <1>1, <1>2, ReportTaken, Zenon
<1>4. SameOpens
  <2>1. Arg \in Devices
    BY <1>1, <1>2 DEF QueuedEvents, Arg
  <2>2. Request("send_mtu_req", Arg) \in QueuedRequests /\ Request("send_mtu_req", Arg).call # "open"
    BY <2>1, WellFormedRequests, Zenon DEF Request
  <2>3. QED
    BY <1>1, <2>2, AskOne
<1>5. Announced \/ LostEarly
  <2>1. ~Free /\ ~Asked /\ ~Opening /\ ~Up
    BY <1>3 DEF Free, Asked, Opening, Up
  <2>2. ~Lost /\ ~HalfReported /\ ~Refused
    BY <1>1, <1>2, <1>3, Zenon DEF Lost, HalfReported, Refused, Failure
  <2>3. ~Unanswered
    <3>. SUFFICES ASSUME NEW i \in 1..Len(events), i + 1 \in 1..Len(events), Reports({i, i + 1}),
                         events[i].type = "DISCONNECT"
                  PROVE  FALSE
      BY Zenon DEF Unanswered
    <3>0. i < i + 1
      OBVIOUS
    <3>1. i = 1
      BY <1>3, <3>0, Zenon
    <3>2. QED
      BY <3>1, <1>1, <1>2
  <2>4. QED
    BY <2>1, <2>2, <2>3 DEF LinkState
<1>6. CASE Announced
  <2>1. PICK i \in 1..Len(events) : Reports({i}) /\ events[i].arg = peer
    BY <1>6, Zenon DEF Announced
  <2>2. i = 1 /\ Reports({})'
    BY <1>3, <2>1
  <2>3. Up'
    BY <1>1, <1>2, <1>4, <1>6, <2>1, <2>2 DEF Announced, Up, SameOpens, Arg
  <2>4. QED
    BY <2>3 DEF LinkState
<1>7. CASE LostEarly
  <2>1. PICK i \in 1..Len(events), j \in 1..Len(events) :
          /\ i < j /\ Reports({i, j})
          /\ events[j].type = "DISCONNECT" /\ events[j].arg = events[i].arg
    BY <1>7, Zenon DEF LostEarly
  <2>2. i = 1 /\ j - 1 \in 1..Len(events') /\ Reports({j - 1})' /\ events'[j - 1] = events[j]
    BY <1>3, <2>1, Zenon
  <2>3. Lost'
    BY <1>1, <1>2, <1>4, <1>7, <2>1, <2>2, Zenon DEF LostEarly, Lost, SameOpens, Arg
  <2>4. QED
    BY <2>3 DEF LinkState
<1>8. QED
  BY <1>5, <1>6, <1>7

(* ESP_GATTC_DISCONNECT_EVT is either about the recorded tag, or followed  *)
(* at once by the failure to open a connection.                            *)
LEMMA DisconnectedKeeps ==
    ASSUME TypeOK, LinkState, Disconnected
    PROVE  LinkState'
<1>1. /\ events # <<>> /\ events' = Tail(events) /\ Head(events).type = "DISCONNECT"
      /\ Ask(<<Request("start_scanning", None)>>) /\ ~Isconnecting'
      /\ conn_device' = IF Arg = remote_bda THEN FALSE ELSE conn_device
      /\ UNCHANGED <<remote_bda, link, peer>>
  BY Zenon DEF Disconnected, start_scan, Handles, stackVars, TypeOK
<1>2. IsReport(Head(events)) /\ Head(events) = events[1]
  BY <1>1, EventTaken DEF IsReport
<1>3. /\ ~Reports({})
      /\ \A i \in 1..Len(events) : Reports({i}) => i = 1 /\ Reports({})'
      /\ \A i, j \in 1..Len(events) : i < j /\ Reports({i, j}) =>
           i = 1 /\ j - 1 \in 1..Len(events') /\ Reports({j - 1})' /\ events'[j - 1] = events[j]
  BY <1>1, <1>2, ReportTaken
<1>4. SameOpens
  <2>1. /\ Request("start_scanning", None) \in QueuedRequests
        /\ Request("start_scanning", None).call # "open"
    BY WellFormedRequests DEF Request
  <2>2. QED
    BY <1>1, <2>1, AskOne
<1>5. Lost \/ Unanswered
  <2>1. ~Free /\ ~Asked /\ ~Opening /\ ~Up
    BY <1>3 DEF Free, Asked, Opening, Up
  <2>2. ~Announced /\ ~HalfReported /\ ~Refused
    BY <1>1, <1>2, <1>3, Zenon DEF Announced, HalfReported, Refused, Failure
  <2>3. ~LostEarly
    BY <1>1, <1>2, <1>3, Zenon DEF LostEarly
  <2>4. QED
    BY <2>1, <2>2, <2>3 DEF LinkState
<1>6. CASE Lost
  <2>1. PICK i \in 1..Len(events) : Reports({i}) /\ events[i].arg = remote_bda
    BY <1>6, Zenon DEF Lost
  <2>2. i = 1 /\ Reports({})'
    BY <1>3, <2>1
  <2>3. Free'
    BY <1>1, <1>2, <1>4, <1>6, <2>1, <2>2 DEF Lost, Free, SameOpens, Arg
  <2>4. QED
    BY <2>3 DEF LinkState
<1>7. CASE Unanswered
  <2>1. PICK i \in 1..Len(events) :
          i + 1 \in 1..Len(events) /\ Reports({i, i + 1}) /\ Failure(events[i + 1])
    BY <1>7, Zenon DEF Unanswered
  <2>2. i < i + 1
    BY DEF TypeOK
  <2>3. i = 1 /\ (i + 1) - 1 \in 1..Len(events') /\ Reports({(i + 1) - 1})'
        /\ events'[(i + 1) - 1] = events[i + 1]
    BY <1>3, <2>1, <2>2, Zenon
  <2>4. 1 \in 1..Len(events') /\ Reports({1})' /\ Failure(events'[1])
    <3>1. (i + 1) - 1 = 1
      BY <2>3
    <3>2. QED
      BY <2>1, <2>3, <3>1
  <2>5. HalfReported'
    BY <1>1, <1>4, <1>7, <2>4 DEF Unanswered, HalfReported, SameOpens
  <2>6. QED
    BY <2>5 DEF LinkState
<1>8. QED
  BY <1>5, <1>6, <1>7

(* esp_ble_gattc_open is served when there is no connection and no other   *)
(* request for one.                                                        *)
LEMMA OpenKeeps ==
    ASSUME TypeOK, LinkState, Open
    PROVE  LinkState'
<1>1. /\ api # <<>> /\ api' = Tail(api) /\ Head(api).call = "open" /\ link = "none"
      /\ UNCHANGED <<conn_device, Isconnecting, remote_bda>>
  BY DEF Open, Serves, appVars
<1>2. /\ Head(api) = api[1] /\ 1 \in 1..Len(api) /\ Head(api) \in QueuedRequests
      /\ Len(api) \in Nat /\ Len(api') = Len(api) - 1
      /\ \A i \in 1..Len(api') : api'[i] = api[i + 1]
  BY <1>1, RequestTaken
<1>3. ~Opens({})
  BY <1>1, <1>2 DEF Opens
<1>4. Asked
  BY <1>3 DEF LinkState, Free, Opening, Announced, Up, LostEarly, Lost, Unanswered, HalfReported,
              Refused
<1>5. Opens({})'
  <2>1. PICK r \in 1..Len(api) : Opens({r})
    BY <1>4, Zenon DEF Asked
  <2>2. r = 1
    BY <1>1, <1>2, <2>1 DEF Opens
  <2>3. QED
    BY <1>2, <2>1, <2>2 DEF Opens
<1>6. CASE link' = "opening" /\ UNCHANGED events
  <2>1. Opening'
    BY <1>1, <1>4, <1>5, <1>6 DEF Asked, Opening, Reports
  <2>2. QED
    BY <2>1 DEF LinkState
<1>7. CASE Post(<<Event("OPEN", Head(api).arg, FALSE)>>) /\ Fault("refused") /\ UNCHANGED link
  <2>1. PICK e \in QueuedEvents : IsReport(e) /\ Failure(e) /\ Post(<<e>>)
    <3>1. Head(api).arg \in Devices
      BY <1>1, <1>2 DEF QueuedRequests
    <3>. DEFINE e == Event("OPEN", Head(api).arg, FALSE)
    <3>2. e \in QueuedEvents /\ IsReport(e) /\ Failure(e)
      BY <3>1, WellFormedEvents, Zenon DEF IsReport, Failure, Event
    <3>3. QED
      BY <1>7, <3>2, Zenon
  <2>2. PICK k \in 1..Len(events') : events'[k] = e /\ Reports({k})'
    BY <1>4, <2>1, ReportPosted, Zenon DEF Asked
  <2>3. Refused'
    BY <1>1, <1>4, <1>5, <1>7, <2>1, <2>2, Zenon DEF Asked, Refused, Fault
  <2>4. QED
    BY <2>3 DEF LinkState
<1>8. QED
  BY <1>6, <1>7 DEF Open

(* A tag that answers is reported once. *)
LEMMA TagAnswersKeeps ==
    ASSUME TypeOK, LinkState, TagAnswers
    PROVE  LinkState'
<1>1. Opening
  BY DEF TagAnswers, LinkState, Free, Asked, Announced, Up, LostEarly, Lost, Unanswered,
         HalfReported, Refused
<1>2. PICK e \in QueuedEvents : IsReport(e) /\ e.type = "OPEN" /\ e.ok /\ e.arg = peer /\ Post(<<e>>)
  <2>. DEFINE e == Event("OPEN", peer, TRUE)
  <2>1. peer \in Devices
    BY DEF TagAnswers, TypeOK
  <2>2. e \in QueuedEvents /\ IsReport(e) /\ e.type = "OPEN" /\ e.ok /\ e.arg = peer
    BY <2>1, WellFormedEvents, Zenon DEF IsReport, Event
  <2>3. QED
    BY <2>2, Zenon DEF TagAnswers
<1>3. PICK k \in 1..Len(events') : events'[k] = e /\ Reports({k})'
  BY <1>1, <1>2, ReportPosted, Zenon DEF Opening
<1>4. Opens({})' /\ link' = "up" /\ conn_device' /\ peer' = peer
  BY <1>1 DEF TagAnswers, Opening, appVars, Opens
<1>5. Announced'
  BY <1>2, <1>3, <1>4, Zenon DEF Announced
<1>6. QED
  BY <1>5 DEF LinkState

(* A tag that does not answer is reported twice. *)
LEMMA TagDoesNotAnswerKeeps ==
    ASSUME TypeOK, LinkState, TagDoesNotAnswer
    PROVE  LinkState'
<1>1. Opening
  BY DEF TagDoesNotAnswer, LinkState, Free, Asked, Announced, Up, LostEarly, Lost, Unanswered,
         HalfReported, Refused
<1>2. PICK e \in QueuedEvents, f \in QueuedEvents :
        IsReport(e) /\ IsReport(f) /\ e.type = "DISCONNECT" /\ Failure(f) /\ Post(<<e, f>>)
  <2>. DEFINE e == Event("DISCONNECT", peer, TRUE)
              f == Event("OPEN", peer, FALSE)
  <2>1. peer \in Devices
    BY DEF TagDoesNotAnswer, TypeOK
  <2>2. e \in QueuedEvents /\ f \in QueuedEvents
    BY <2>1, WellFormedEvents, Zenon
  <2>3. IsReport(e) /\ IsReport(f) /\ e.type = "DISCONNECT" /\ Failure(f)
    BY DEF IsReport, Event, Failure
  <2>4. QED
    BY <2>2, <2>3, Zenon DEF TagDoesNotAnswer
<1>3. Reports({})
  BY <1>1 DEF Opening
<1>4. PICK k \in 1..Len(events') : /\ k + 1 \in 1..Len(events') /\ Reports({k, k + 1})'
                                   /\ events'[k] = e /\ events'[k + 1] = f
  BY <1>2, <1>3, ReportsPosted, Zenon
<1>5. Opens({})' /\ link' = "none" /\ conn_device'
  BY <1>1, Zenon DEF TagDoesNotAnswer, Opening, appVars, Opens
<1>6. Unanswered'
  BY <1>2, <1>4, <1>5, Zenon DEF Unanswered
<1>7. QED
  BY <1>6 DEF LinkState

(* A lost connection is reported behind its own OPEN event, if that is     *)
(* still queued.                                                           *)
LEMMA LinkLostKeeps ==
    ASSUME TypeOK, LinkState, LinkLost
    PROVE  LinkState'
<1>1. Announced \/ Up
  BY Zenon DEF LinkLost, LinkState, Free, Asked, Opening, LostEarly, Lost, Unanswered, HalfReported,
         Refused
<1>2. PICK e \in QueuedEvents : IsReport(e) /\ e.type = "DISCONNECT" /\ e.arg = peer /\ Post(<<e>>)
  <2>. DEFINE e == Event("DISCONNECT", peer, TRUE)
  <2>1. peer \in Devices
    BY DEF LinkLost, TypeOK
  <2>2. e \in QueuedEvents /\ IsReport(e) /\ e.type = "DISCONNECT" /\ e.arg = peer
    BY <2>1, WellFormedEvents, Zenon DEF IsReport, Event
  <2>3. QED
    BY <2>2, Zenon DEF LinkLost
<1>3. PICK k \in 1..Len(events') :
        /\ events'[k] = e
        /\ Reports({}) => Reports({k})'
        /\ \A i \in 1..Len(events) : Reports({i}) =>
             i \in 1..Len(events') /\ i < k /\ Reports({i, k})' /\ events'[i] = events[i]
  BY <1>2, ReportPosted, Zenon
<1>4. Opens({})' /\ link' = "none" /\ conn_device' /\ remote_bda' = remote_bda
  BY <1>1 DEF LinkLost, Announced, Up, appVars, Opens
<1>5. CASE Announced
  <2>1. PICK i \in 1..Len(events) :
          Reports({i}) /\ events[i].type = "OPEN" /\ events[i].ok /\ events[i].arg = peer
    BY <1>5, Zenon DEF Announced
  <2>2. i \in 1..Len(events') /\ i < k /\ Reports({i, k})' /\ events'[i] = events[i]
    BY <1>3, <2>1, Zenon
  <2>3. LostEarly'
    BY <1>2, <1>3, <1>4, <2>1, <2>2, Zenon DEF LostEarly
  <2>4. QED
    BY <2>3 DEF LinkState
<1>6. CASE Up
  <2>1. Lost'
    BY <1>2, <1>3, <1>4, <1>6, Zenon DEF Up, Lost
  <2>2. QED
    BY <2>1 DEF LinkState
<1>7. QED
  BY <1>1, <1>5, <1>6

-----------------------------------------------------------------------------
(* The inductive invariant: the queues are well formed, and the client,    *)
(* the stack and what is queued between them are in one of ten states.     *)
THEOREM LinkInvariant == Spec => [](TypeOK /\ LinkState)
<1>1. Init => LinkState
  <2>. SUFFICES ASSUME Init
                PROVE  Free
    BY DEF LinkState
  <2>1. ~IsReport(events[1]) /\ Len(events) = 1
    BY DEF Init, IsReport, Event
  <2>2. Reports({})
    BY <2>1 DEF Reports
  <2>3. Opens({})
    BY DEF Init, Opens
  <2>4. QED
    BY <2>2, <2>3 DEF Init, Free
<1>2. TypeOK /\ LinkState /\ [Next]_vars => LinkState'
  <2>. SUFFICES ASSUME TypeOK, LinkState, [Next]_vars
                PROVE  LinkState'
    OBVIOUS
  <2>1. CASE (Registered \/ ScanParamSet \/ CfgMtu \/ SearchRes) /\ UNCHANGED faults
    BY <2>1, QuietCallback
  <2>2. CASE SearchCmpl \/ RegForNotify
    <3>1. faults \subseteq faults'
      BY <2>2 DEF SearchCmpl, RegForNotify, Fault
    <3>2. QED
      BY <2>2, <3>1, QuietCallback
  <2>3. CASE ScanResult /\ UNCHANGED faults
    BY <2>3, QuietCallback, ScanOpens
  <2>4. CASE (OpenFailed \/ Opened \/ Disconnected) /\ UNCHANGED faults
    BY <2>4, OpenFailedKeeps, OpenedKeeps, DisconnectedKeeps
  <2>5. CASE (SetScanParams \/ StartScanning \/ StopScanning \/ SendMtuReq \/ WriteCharDescr)
               /\ UNCHANGED faults
    BY <2>5, QuietStack
  <2>6. CASE SearchService \/ RegisterForNotify
    <3>1. faults \subseteq faults'
      BY <2>6, Zenon DEF SearchService, RegisterForNotify, Fault
    <3>2. QED
      BY <2>6, <3>1, QuietStack
  <2>7. CASE Open
    BY <2>7, OpenKeeps
  <2>8. CASE Radio
    BY <2>8, QuietRadio, TagAnswersKeeps, TagDoesNotAnswerKeeps, LinkLostKeeps DEF Radio
  <2>9. CASE UNCHANGED vars
    <3>1. SameReports(0) /\ SameOpens
      BY <2>9, SameQueues DEF vars
    <3>2. QED
      BY <2>9, <3>1, QuietStep DEF vars, appVars, stackVars
  <2>10. QED
    BY <2>1, <2>2, <2>3, <2>4, <2>5, <2>6, <2>7, <2>8, <2>9 DEF Next, Callback, Stack
<1>3. QED
  BY <1>1, <1>2, TypesInductive, PTL DEF Spec

(* Requests name what they are about, and the stack is connected to a tag. *)
THEOREM LinkTypes == Spec => []TypeOK
<1>1. TypeOK => TypeOK
  BY DEF TypeOK
<1>2. QED
  BY <1>1, LinkInvariant, PTL

(* conn_device of esp_gap_cb and the gattc handler is set as long as a     *)
(* connection is asked for, being opened or up, and outlives it only until *)
(* the event that reports its end is handled.                              *)
THEOREM ConnDeviceFollowsLink == Spec => []ConnDeviceIsTrue
<1>1. TypeOK /\ LinkState => ConnDeviceIsTrue
  <2>. SUFFICES ASSUME TypeOK, LinkState
                PROVE  ConnDeviceIsTrue
    OBVIOUS
  <2>1. Opens({}) => OpenRequests = {}
    BY DEF Opens, OpenRequests
  <2>2. \A r \in 1..Len(api) : Opens({r}) => r \in OpenRequests
    BY DEF Opens, OpenRequests
  <2>3. CASE Free \/ Opening \/ Announced \/ Up
    BY <2>1, <2>3 DEF Free, Opening, Announced, Up, ConnDeviceIsTrue
  <2>4. CASE Asked
    BY <2>2, <2>4 DEF Asked, ConnDeviceIsTrue
  <2>5. CASE LostEarly \/ Lost \/ Unanswered \/ HalfReported \/ Refused
    <3>1. EndReported
      BY <2>5, Zenon DEF LostEarly, Lost, Unanswered, HalfReported, Refused, Failure, EndReported
    <3>2. OpenRequests = {} /\ link = "none"
      BY <2>1, <2>5 DEF LostEarly, Lost, Unanswered, HalfReported, Refused
    <3>3. QED
      BY <3>1, <3>2 DEF ConnDeviceIsTrue
  <2>6. QED
    BY <2>3, <2>4, <2>5 DEF LinkState
<1>2. QED
  BY <1>1, LinkInvariant, PTL

(* One connection is opened at a time (esp_gap_cb), however many scan      *)
(* results are queued when the first is acted on.                          *)
THEOREM OneConnectionAtATime == Spec => []OneConnection
<1>1. TypeOK /\ LinkState => OneConnection
  <2>. SUFFICES ASSUME TypeOK, LinkState
                PROVE  OneConnection
    OBVIOUS
  <2>1. CASE Asked
    <3>1. PICK r \in 1..Len(api) : Opens({r})
      BY <2>1, Zenon DEF Asked
    <3>2. OpenRequests = {r}
      BY <3>1 DEF Opens, OpenRequests
    <3>3. QED
      BY <2>1, <3>2 DEF Asked, OneConnection
  <2>2. CASE Opens({})
    <3>1. OpenRequests = {}
      BY <2>2 DEF Opens, OpenRequests
    <3>2. QED
      BY <3>1 DEF OneConnection
  <2>3. QED
    BY <2>1, <2>2 DEF LinkState, Free, Opening, Announced, Up, LostEarly, Lost, Unanswered,
                      HalfReported, Refused
<1>2. QED
  BY <1>1, LinkInvariant, PTL

(* esp_gap_cb ignores advertisements only while it has a device, unless    *)
(* the stack has once refused to open a connection.                        *)
THEOREM ListensWhenItHasNoDevice == Spec => []ListensWhenFree
<1>1. TypeOK /\ LinkState => ListensWhenFree
  BY DEF LinkState, Free, Asked, Opening, Announced, Up, LostEarly, Lost, Unanswered,
         HalfReported, Refused, ListensWhenFree
<1>2. QED
  BY <1>1, LinkInvariant, PTL

-----------------------------------------------------------------------------

(* The truncated temperature is within a degree of the formula, for every  *)
(* word the int16_t field does not turn negative.                          *)
LEMMA CelsiusIsClose ==
    ASSUME NEW w \in Nat, w < 32768
    PROVE  IsCelsius(Celsius(Int16(w)), w)
<1>1. Int16(w) = w
  BY DEF Int16
<1> DEFINE n == 17572 * w - 4685 * 65536
<1>2. n \in Int /\ n >= -307036160 /\ n <= 268745564
  OBVIOUS
<1>3. Celsius(w) = Trunc(n, 6553600)
  BY DEF Celsius
<1> HIDE DEF n
<1>4. CASE n >= 0
  <2> DEFINE q == n \div 6553600
  <2>1. q \in Int /\ 6553600 * q <= n /\ n < 6553600 * q + 6553600
    BY <1>2
  <2>2. Trunc(n, 6553600) = q
    BY <1>4 DEF Trunc
  <2> HIDE DEF q
  <2>3. q \in -46..128 /\ n - 6553600 < q * 6553600 /\ q * 6553600 < n + 6553600
    BY <2>1, <1>2, <1>4
  <2> QED
    BY <2>2, <2>3, <1>1, <1>3 DEF IsCelsius, n
<1>5. CASE n < 0
  <2> DEFINE q == (-n) \div 6553600
  <2>1. q \in Int /\ 6553600 * q <= -n /\ -n < 6553600 * q + 6553600
    BY <1>2
  <2>2. Trunc(n, 6553600) = -q
    BY <1>5, <1>2 DEF Trunc
  <2> HIDE DEF q
  <2>3. -q \in -46..128 /\ n - 6553600 < (-q) * 6553600 /\ (-q) * 6553600 < n + 6553600
    BY <2>1, <1>2, <1>5
  <2> QED
    BY <2>2, <2>3, <1>1, <1>3 DEF IsCelsius, n
<1> QED
  BY <1>2, <1>4, <1>5

(* The same of the humidity, whose division is one of integers. *)
LEMMA HumidityIsClose ==
    ASSUME NEW w \in Nat, w < 32768
    PROVE  IsHumidity(RelativeHumidity(Int16(w)), w)
<1>1. Int16(w) = w
  BY DEF Int16
<1> DEFINE q == (125 * w) \div 65536
<1>2. q \in Int /\ 65536 * q <= 125 * w /\ 125 * w < 65536 * q + 65536
  OBVIOUS
<1>3. RelativeHumidity(w) = -6 + q
  BY DEF RelativeHumidity, Trunc
<1> HIDE DEF q
<1>4. 0 <= q /\ q <= 63
  BY <1>2, SMTT(30)
<1>5. -6 + q \in -6..118 /\ (-6 + q) + 6 = q
  BY <1>2, <1>4
<1>6. 125 * w - 65536 < q * 65536 /\ q * 65536 < 125 * w + 65536
  BY <1>2
<1> QED
  BY <1>1, <1>3, <1>5, <1>6 DEF IsHumidity
-----------------------------------------------------------------------------
(* A field that holds, or a channel that shows, nothing or the conversion  *)
(* of a humidity word.                                                     *)
MeasuredHumidity(v) == v = 0 \/ \E h \in HumWords : v = RelativeHumidity(Int16(h))

DataFields ==
    {"HTU21D_temperature", "HTU21D_humidity", "HTU21D_status", "MS5637_D1", "MS5637_D2",
     "MS5637_temperature", "MS5637_pressure", "MS5637_status", "Battery_level",
     "Battery_status"}

(* The inductive invariant: between the stores of the callback the         *)
(* temperature field holds the raw word, then its conversion, and the      *)
(* humidity field is only ever written converted.                          *)
DataInv ==
    /\ DOMAIN BA5C_data = DataFields
    /\ words \in {<<>>} \cup (TempWords \X HumWords)
    /\ step \in {"idle", "temperature", "humidity"}
    /\ step = "temperature" =>
          words # <<>> /\ BA5C_data.HTU21D_temperature = Int16(words[1])
    /\ step = "humidity" =>
          words # <<>> /\ BA5C_data.HTU21D_temperature = Celsius(Int16(words[1]))
    /\ step = "idle" /\ words # <<>> =>
          /\ BA5C_data.HTU21D_temperature = Celsius(Int16(words[1]))
          /\ BA5C_data.HTU21D_humidity = RelativeHumidity(Int16(words[2]))
    /\ MeasuredHumidity(BA5C_data.HTU21D_humidity)
    /\ channel \in 0..7
    /\ MeasuredHumidity(published[1])

(* The callback changes the HTU21D fields nowhere else. *)
KeepsHTU21D ==
    /\ DOMAIN BA5C_data' = DOMAIN BA5C_data
    /\ BA5C_data'.HTU21D_temperature = BA5C_data.HTU21D_temperature
    /\ BA5C_data'.HTU21D_humidity = BA5C_data.HTU21D_humidity
    /\ UNCHANGED <<words, step, channel, published>>

(* A step that leaves those fields alone keeps the invariant. *)
LEMMA OtherFieldsKeepInv ==
    DataInv /\ KeepsHTU21D => DataInv'
  BY DEF DataInv, KeepsHTU21D

(* Every handler but those of the HTU21D notification is such a step.      *)
LEMMA OtherHandlersKeepFields ==
    ASSUME DataInv,
           \/ \E d1 \in Pressures, d2 \in D2Readings : NotifyMS5637(d1, d2)
           \/ \E s \in Statuses : NotifyBattery(s) \/ ReadHTU21DStatus(s)
                                    \/ ReadMS5637Status(s) \/ ReadBattery(s)
           \/ ReadCalibration \/ ReadFailed \/ BatteryChanges \/ ReadsLost
    PROVE  KeepsHTU21D
<1>1. CASE \E d1 \in Pressures, d2 \in D2Readings : NotifyMS5637(d1, d2)
  BY <1>1, Zenon DEF NotifyMS5637, KeepsHTU21D, DataInv, DataFields
<1>2. CASE \E s \in Statuses : NotifyBattery(s)
  BY <1>2, Zenon DEF NotifyBattery, KeepsHTU21D, DataInv, DataFields
<1>3. CASE \E s \in Statuses : ReadHTU21DStatus(s)
  BY <1>3 DEF ReadHTU21DStatus, Answered, KeepsHTU21D, DataInv, DataFields
<1>4. CASE \E s \in Statuses : ReadMS5637Status(s)
  BY <1>4 DEF ReadMS5637Status, Answered, KeepsHTU21D, DataInv, DataFields
<1>5. CASE \E s \in Statuses : ReadBattery(s)
  BY <1>5, Zenon DEF ReadBattery, Answered, KeepsHTU21D, DataInv, DataFields
<1>6. CASE ReadCalibration
  BY <1>6 DEF ReadCalibration, Answered, KeepsHTU21D, DataInv, DataFields
<1>7. CASE ReadFailed \/ BatteryChanges \/ ReadsLost
  BY <1>7 DEF ReadFailed, Answered, BatteryChanges, ReadsLost, KeepsHTU21D
<1> QED
  BY <1>1, <1>2, <1>3, <1>4, <1>5, <1>6, <1>7

(* Every step keeps the invariant. *)
LEMMA NextKeepsInv ==
    DataInv /\ [DataNext]_dataVars => DataInv'
<1> SUFFICES ASSUME DataInv, [DataNext]_dataVars
             PROVE  DataInv'
  OBVIOUS
<1>1. CASE \E t \in TempWords, h \in HumWords : NotifyHTU21D(t, h)
  <2> PICK t \in TempWords, h \in HumWords : NotifyHTU21D(t, h)
    BY <1>1
  <2>1. /\ words' = <<t, h>> /\ step' = "temperature"
        /\ UNCHANGED <<channel, published>>
        /\ BA5C_data' = [BA5C_data EXCEPT !.HTU21D_temperature = Int16(t)]
    BY DEF NotifyHTU21D
  <2>2. /\ DOMAIN BA5C_data' = DataFields
        /\ BA5C_data'.HTU21D_temperature = Int16(t)
        /\ BA5C_data'.HTU21D_humidity = BA5C_data.HTU21D_humidity
    BY <2>1 DEF DataInv, DataFields
  <2> QED
    BY <2>1, <2>2 DEF DataInv
<1>2. CASE ConvertTemperature
  <2>1. /\ words' = words /\ step = "temperature" /\ step' = "humidity"
        /\ UNCHANGED <<channel, published>>
    BY <1>2 DEF ConvertTemperature
  <2>2. /\ DOMAIN BA5C_data' = DataFields
        /\ BA5C_data'.HTU21D_temperature = Celsius(BA5C_data.HTU21D_temperature)
        /\ BA5C_data'.HTU21D_humidity = BA5C_data.HTU21D_humidity
    BY <1>2 DEF ConvertTemperature, DataInv, DataFields
  <2> QED
    BY <2>1, <2>2 DEF DataInv
<1>3. CASE ConvertHumidity
  <2>1. /\ words' = words /\ step = "humidity" /\ step' = "idle"
        /\ UNCHANGED <<channel, published>>
    BY <1>3 DEF ConvertHumidity
  <2>2. /\ DOMAIN BA5C_data' = DataFields
        /\ BA5C_data'.HTU21D_temperature = BA5C_data.HTU21D_temperature
        /\ BA5C_data'.HTU21D_humidity = RelativeHumidity(Int16(words[2]))
    BY <1>3 DEF ConvertHumidity, DataInv, DataFields
  <2>3. words # <<>> /\ words[2] \in HumWords
    BY <2>1 DEF DataInv
  <2>4. MeasuredHumidity(BA5C_data'.HTU21D_humidity)
    BY <2>2, <2>3 DEF MeasuredHumidity
  <2> QED
    BY <2>1, <2>2, <2>3, <2>4 DEF DataInv
<1>4. CASE cayenne_task
  <2>1. /\ UNCHANGED <<BA5C_data, words, step>>
        /\ channel' = (channel + 1) % 8
        /\ published'[1] = IF 1 = channel THEN BA5C_data[ChannelField[2]] ELSE published[1]
    BY <1>4 DEF cayenne_task, Watched
  <2>2. channel' \in 0..7
    BY <2>1 DEF DataInv
  <2>3. MeasuredHumidity(published'[1])
    BY <2>1 DEF DataInv, ChannelField
  <2> QED
    BY <2>1, <2>2, <2>3 DEF DataInv, MeasuredHumidity
<1>5. CASE UNCHANGED dataVars
  BY <1>5 DEF dataVars, DataInv, MeasuredHumidity
<1> QED
  BY <1>1, <1>2, <1>3, <1>4, <1>5, OtherHandlersKeepFields, OtherFieldsKeepInv
     DEF DataNext, DataCallback

(* The initial state satisfies the invariant: nothing is received. *)
LEMMA InitInv ==
    DataInit => DataInv
  BY SMTT(60) DEF DataInit, DataInv, DataFields, MeasuredHumidity, ChannelField, Watched

(* DataInv holds of every reachable state. *)
THEOREM DataInvariant == DataSpec => []DataInv
  BY InitInv, NextKeepsInv, PTL DEF DataSpec

(* The words the tag notifies are unsigned. *)
LEMMA WordsAreNatural ==
    TempWords \subseteq Nat /\ HumWords \subseteq Nat
  BY DataConstants, SMTT(30) DEF Word

(* For every set of words the tag may notify: once the callback has        *)
(* handled a notification the two HTU21D fields are within one unit of the *)
(* formulas, for words below 2^15.                                         *)
THEOREM ReadingsAreConverted == DataSpec => []ReadingsFollowFormula
<1>1. DataInv => ReadingsFollowFormula
  <2> SUFFICES ASSUME DataInv, step = "idle", words # <<>>
               PROVE  /\ words[1] < 32768 => IsCelsius(BA5C_data.HTU21D_temperature, words[1])
                      /\ words[2] < 32768 => IsHumidity(BA5C_data.HTU21D_humidity, words[2])
    BY SMTT(30) DEF ReadingsFollowFormula
  <2>1. words[1] \in TempWords /\ words[2] \in HumWords
    BY SMTT(30) DEF DataInv
  <2>2. /\ BA5C_data.HTU21D_temperature = Celsius(Int16(words[1]))
        /\ BA5C_data.HTU21D_humidity = RelativeHumidity(Int16(words[2]))
    BY DEF DataInv
  <2>3. words[1] \in Nat
    BY <2>1, WordsAreNatural, Zenon
  <2>4. words[2] \in Nat
    BY <2>1, WordsAreNatural, Zenon
  <2> QED
    BY <2>2, <2>3, <2>4, CelsiusIsClose, HumidityIsClose, SMTT(30)
<1> QED
  BY <1>1, DataInvariant, PTL

(* If the tag's humidity words are below 2^15, whatever is published on    *)
(* channel 1, between any two stores of the callback, is the humidity of a *)
(* notified word: the race that spoils the temperature cannot show here.   *)
THEOREM HumidityIsPublished ==
    ASSUME \A h \in HumWords : h < 32768
    PROVE  DataSpec => []PublishedHumidityIsMeasured
<1>1. DataInv => PublishedHumidityIsMeasured
  <2> SUFFICES ASSUME DataInv, published[1] # 0
               PROVE  \E h \in HumWords : IsHumidity(published[1], h)
    BY DEF PublishedHumidityIsMeasured
  <2> PICK h \in HumWords : published[1] = RelativeHumidity(Int16(h))
    BY DEF DataInv, MeasuredHumidity
  <2>1. h \in Nat /\ h < 32768
    BY DataConstants, SMTT(30) DEF Word
  <2>2. IsHumidity(published[1], h)
    BY <2>1, HumidityIsClose, SMTT(30)
  <2> QED
    BY <2>2
<1> QED
  BY <1>1, DataInvariant, PTL
-----------------------------------------------------------------------------
(* What the conversions store fits their fields.                           *)
LEMMA ConversionsFit ==
    ASSUME NEW v \in Signed
    PROVE  Celsius(v) \in Signed /\ RelativeHumidity(v) \in Signed
<1> v \in Int /\ -32768 <= v /\ v <= 32767
  BY DEF Signed
<1> DEFINE n == 17572 * v - 4685 * 65536
<1>1. n \in Int /\ n >= -882835456 /\ n <= 268745564
  OBVIOUS
<1>2. Celsius(v) = Trunc(n, 6553600)
  BY DEF Celsius
<1> HIDE DEF n
<1>3. Trunc(n, 6553600) \in Signed
  BY <1>1 DEF Trunc, Signed
<1> DEFINE m == 125 * v
<1>4. m \in Int /\ m >= -4096000 /\ m <= 4095875
  OBVIOUS
<1>5. RelativeHumidity(v) = -6 + Trunc(m, 65536)
  BY DEF RelativeHumidity
<1> HIDE DEF m
<1>6. -6 + Trunc(m, 65536) \in Signed
  BY <1>4 DEF Trunc, Signed
<1> QED
  BY <1>2, <1>3, <1>5, <1>6

(* A word stored in an int16_t field. *)
LEMMA WordFits ==
    ASSUME NEW w \in Word
    PROVE  Int16(w) \in Signed
  BY DEF Int16, Signed, Word

(* The temperature of the MS5637 is a number whatever the reading. *)
LEMMA TemperatureIsNumber ==
    ASSUME NEW d \in Nat
    PROVE  MS5637_TEMP(d) \in Int
<1>1. C5 \in Int /\ C6 \in Int
  BY DataConstants DEF Word
<1>2. dT(d) \in Int
  BY <1>1 DEF dT
<1>3. (dT(d) \div 4096) \in Int /\ (dT(d) % 4096) \in Int
  BY <1>2
<1>4. (dT(d) \div 4096) * C6 \in Int /\ (dT(d) % 4096) * C6 \in Int
  BY <1>1, <1>3
<1>5. Quotient(dT(d)) \in Int
  BY <1>4 DEF Quotient
<1>6. Quotient32(dT(d)) \in Int
  BY <1>5 DEF Quotient32
<1> QED
  BY <1>6 DEF MS5637_TEMP, Trunc

(* The stack's queue takes reads up to its size and refuses the rest. *)
LEMMA AcceptFits ==
    ASSUME NEW rs \in Seq(Characteristics), NEW cs \in Seq(Characteristics)
    PROVE  /\ Accept(rs, cs) \in Seq(Characteristics)
           /\ Len(Accept(rs, cs)) <= QueueSize + 1
<1> DEFINE both == rs \o cs
<1>1. both \in Seq(Characteristics) /\ Len(both) \in Nat
  OBVIOUS
<1>2. QueueSize \in Nat
  BY DataConstants
<1> HIDE DEF both
<1>3. CASE Len(both) > QueueSize + 1
  <2>1. Accept(rs, cs) = SubSeq(both, 1, QueueSize + 1)
    BY <1>3, Zenon DEF Accept, both
  <2> QED
    BY <1>1, <1>2, <1>3, <2>1
<1>4. CASE ~(Len(both) > QueueSize + 1)
  <2>1. Accept(rs, cs) = SubSeq(both, 1, Len(both))
    BY <1>4 DEF Accept, both
  <2> QED
    BY <1>1, <1>2, <1>4, <2>1
<1> QED
  BY <1>3, <1>4

(* A notification is counted below read_interval, and what it asks for     *)
(* fits the queue.                                                         *)
LEMMA CountTyped ==
    ASSUME DataTypeOK, NEW chip \in Chips, NEW cs \in Seq(Characteristics),
           CountNotification(chip, cs)
    PROVE  /\ counter' \in [Chips -> 0..(read_interval - 1)]
           /\ reads' \in Seq(Characteristics) /\ Len(reads') <= QueueSize + 1
<1>1. read_interval \in Nat /\ read_interval >= 1
  BY DataConstants
<1>2. counter \in [Chips -> 0..(read_interval - 1)]
  BY DEF DataTypeOK
<1>3. reads \in Seq(Characteristics) /\ Len(reads) <= QueueSize + 1
  BY DEF DataTypeOK
<1>4. CASE counter[chip] + 1 >= read_interval
  <2>1. counter' = [counter EXCEPT ![chip] = 0] /\ reads' = Accept(reads, cs)
    BY <1>4 DEF CountNotification
  <2>2. Accept(reads, cs) \in Seq(Characteristics) /\ Len(Accept(reads, cs)) <= QueueSize + 1
    BY <1>3, AcceptFits
  <2> QED
    BY <1>1, <1>2, <2>1, <2>2
<1>5. CASE ~(counter[chip] + 1 >= read_interval)
  <2>1. counter' = [counter EXCEPT ![chip] = counter[chip] + 1] /\ reads' = reads
    BY <1>5 DEF CountNotification
  <2>2. counter[chip] + 1 \in 0..(read_interval - 1)
    BY <1>1, <1>2, <1>5
  <2> QED
    BY <1>2, <1>3, <2>1, <2>2
<1> QED
  BY <1>4, <1>5

(* An answered read leaves a shorter queue. *)
LEMMA AnsweredTyped ==
    ASSUME DataTypeOK, NEW char, Answered(char)
    PROVE  /\ reads' \in Seq(Characteristics) /\ Len(reads') <= QueueSize + 1
           /\ UNCHANGED <<counter, words, step, battery, channel>>
<1>1. /\ reads \in Seq(Characteristics) /\ Len(reads) <= QueueSize + 1
      /\ reads # <<>> /\ reads' = Tail(reads)
  BY DEF Answered, DataTypeOK
<1>2. QueueSize \in Nat
  BY DataConstants
<1>3. Tail(reads) \in Seq(Characteristics) /\ Len(Tail(reads)) = Len(reads) - 1
  BY <1>1
<1>4. reads' \in Seq(Characteristics) /\ Len(reads') <= QueueSize + 1
  BY <1>1, <1>2, <1>3
<1> QED
  BY <1>4 DEF Answered

(* The record keeps its type when the readings of the tag are stored. *)
BA5C_data_t ==
    [HTU21D_temperature : Signed, HTU21D_humidity : Signed, HTU21D_status : Byte,
     MS5637_D1 : Nat, MS5637_D2 : Nat, MS5637_temperature : Int,
     MS5637_pressure : Nat \X Nat, MS5637_status : Byte,
     Battery_level : Byte, Battery_status : Byte]

LEMMA FieldsTyped ==
    ASSUME DataTypeOK, DataInv,
           DataCallback \/ BatteryChanges \/ ReadsLost \/ cayenne_task
    PROVE  BA5C_data' \in BA5C_data_t
<1>1. BA5C_data \in BA5C_data_t
  BY DEF DataTypeOK, BA5C_data_t
<1>2. Statuses \subseteq Byte /\ Levels \subseteq Byte /\ battery \in Byte
  BY DataConstants DEF DataTypeOK
<1>3. CASE \E t \in TempWords, h \in HumWords : NotifyHTU21D(t, h)
  <2> PICK t \in TempWords, h \in HumWords : NotifyHTU21D(t, h)
    BY <1>3
  <2>1. Int16(t) \in Signed
    BY DataConstants, WordFits
  <2>2. BA5C_data' = [BA5C_data EXCEPT !.HTU21D_temperature = Int16(t)]
    BY DEF NotifyHTU21D
  <2> QED
    BY <1>1, <2>1, <2>2 DEF BA5C_data_t
<1>4. CASE ConvertTemperature
  <2>1. BA5C_data.HTU21D_temperature \in Signed
    BY <1>1 DEF BA5C_data_t
  <2>2. Celsius(BA5C_data.HTU21D_temperature) \in Signed
    BY <2>1, ConversionsFit
  <2>3. BA5C_data' = [BA5C_data EXCEPT !.HTU21D_temperature = Celsius(BA5C_data.HTU21D_temperature)]
    BY <1>4 DEF ConvertTemperature
  <2> QED
    BY <1>1, <2>2, <2>3 DEF BA5C_data_t
<1>5. CASE ConvertHumidity
  <2>1. words[2] \in HumWords
    BY <1>5 DEF ConvertHumidity, DataInv
  <2>2. Int16(words[2]) \in Signed
    BY <2>1, DataConstants, WordFits
  <2>3. RelativeHumidity(Int16(words[2])) \in Signed
    BY <2>2, ConversionsFit
  <2>4. BA5C_data' = [BA5C_data EXCEPT !.HTU21D_humidity = RelativeHumidity(Int16(words[2]))]
    BY <1>5 DEF ConvertHumidity
  <2> QED
    BY <1>1, <2>3, <2>4 DEF BA5C_data_t
<1>6. CASE \E d1 \in Pressures, d2 \in D2Readings : NotifyMS5637(d1, d2)
  <2> PICK d1 \in Pressures, d2 \in D2Readings : NotifyMS5637(d1, d2)
    BY <1>6
  <2>1. d1 \in Nat /\ d2 \in Nat
    BY DataConstants DEF Reading
  <2>2. BA5C_data' = [BA5C_data EXCEPT !.MS5637_D1 = d1, !.MS5637_D2 = d2]
    BY DEF NotifyMS5637
  <2> QED
    BY <1>1, <2>1, <2>2, Zenon DEF BA5C_data_t
<1>7. CASE \E s \in Statuses : NotifyBattery(s) \/ ReadBattery(s)
  <2> PICK s \in Statuses : NotifyBattery(s) \/ ReadBattery(s)
    BY <1>7
  <2>1. BA5C_data' = [BA5C_data EXCEPT !.Battery_level = battery, !.Battery_status = s]
    BY DEF NotifyBattery, ReadBattery
  <2> QED
    BY <1>1, <1>2, <2>1, Zenon DEF BA5C_data_t
<1>8. CASE \E s \in Statuses : ReadHTU21DStatus(s) \/ ReadMS5637Status(s)
  <2> PICK s \in Statuses : ReadHTU21DStatus(s) \/ ReadMS5637Status(s)
    BY <1>8
  <2>1. \/ BA5C_data' = [BA5C_data EXCEPT !.HTU21D_status = s]
        \/ BA5C_data' = [BA5C_data EXCEPT !.MS5637_status = s]
    BY DEF ReadHTU21DStatus, ReadMS5637Status
  <2> QED
    BY <1>1, <1>2, <2>1 DEF BA5C_data_t
<1>9. CASE ReadCalibration
  <2>1. BA5C_data.MS5637_D1 \in Nat /\ BA5C_data.MS5637_D2 \in Nat
    BY <1>1 DEF BA5C_data_t
  <2>2. MS5637_TEMP(BA5C_data.MS5637_D2) \in Int
    BY <2>1, TemperatureIsNumber
  <2>3. BA5C_data' = [BA5C_data EXCEPT
                       !.MS5637_temperature = MS5637_TEMP(BA5C_data.MS5637_D2),
                       !.MS5637_pressure = <<BA5C_data.MS5637_D1, BA5C_data.MS5637_D2>>]
    BY <1>9 DEF ReadCalibration
  <2> QED
    BY <1>1, <2>1, <2>2, <2>3, Zenon DEF BA5C_data_t
<1>10. CASE ReadFailed \/ BatteryChanges \/ ReadsLost \/ cayenne_task
  BY <1>1, <1>10 DEF ReadFailed, BatteryChanges, ReadsLost, cayenne_task
<1> QED
  BY <1>3, <1>4, <1>5, <1>6, <1>7, <1>8, <1>9, <1>10 DEF DataCallback

(* So do the counts, the words, the position and the queue. *)
LEMMA OthersTyped ==
    ASSUME DataTypeOK, DataCallback \/ BatteryChanges \/ ReadsLost \/ cayenne_task
    PROVE  /\ counter' \in [Chips -> 0..(read_interval - 1)]
           /\ words' \in {<<>>} \cup (Word \X Word)
           /\ step' \in {"idle", "temperature", "humidity"}
           /\ reads' \in Seq(Characteristics) /\ Len(reads') <= QueueSize + 1
           /\ battery' \in Levels /\ channel' \in 0..7
<1>1. CASE \E t \in TempWords, h \in HumWords : NotifyHTU21D(t, h)
  BY <1>1, DataConstants DEF NotifyHTU21D, DataTypeOK
<1>2. CASE ConvertTemperature
  BY <1>2 DEF ConvertTemperature, DataTypeOK
<1>3. CASE ConvertHumidity
  <2>1. <<"HTU21D_status", "Battery_data">> \in Seq(Characteristics) /\ "HTU21D" \in Chips
    BY DEF Characteristics, Chips
  <2>2. CountNotification("HTU21D", <<"HTU21D_status", "Battery_data">>)
    BY <1>3 DEF ConvertHumidity
  <2>3. /\ counter' \in [Chips -> 0..(read_interval - 1)]
        /\ reads' \in Seq(Characteristics) /\ Len(reads') <= QueueSize + 1
    BY <2>1, <2>2, CountTyped, Zenon
  <2> QED
    BY <1>3, <2>3 DEF ConvertHumidity, DataTypeOK
<1>4. CASE \E d1 \in Pressures, d2 \in D2Readings : NotifyMS5637(d1, d2)
  <2>1. <<"MS5637_calibration", "MS5637_status">> \in Seq(Characteristics) /\ "MS5637" \in Chips
    BY DEF Characteristics, Chips
  <2>2. CountNotification("MS5637", <<"MS5637_calibration", "MS5637_status">>)
    BY <1>4 DEF NotifyMS5637
  <2>3. /\ counter' \in [Chips -> 0..(read_interval - 1)]
        /\ reads' \in Seq(Characteristics) /\ Len(reads') <= QueueSize + 1
    BY <2>1, <2>2, CountTyped, Zenon
  <2> QED
    BY <1>4, <2>3 DEF NotifyMS5637, DataTypeOK
<1>5. CASE \E s \in Statuses : NotifyBattery(s)
  BY <1>5 DEF NotifyBattery, DataTypeOK
<1>6. CASE \E char : Answered(char)
  <2> PICK char : Answered(char)
    BY <1>6
  <2>1. /\ reads' \in Seq(Characteristics) /\ Len(reads') <= QueueSize + 1
        /\ UNCHANGED <<counter, words, step, battery, channel>>
    BY AnsweredTyped
  <2> QED
    BY <2>1 DEF DataTypeOK
<1>7. CASE BatteryChanges
  BY <1>7 DEF BatteryChanges, DataTypeOK
<1>8. CASE ReadsLost
  BY <1>8, DataConstants DEF ReadsLost, DataTypeOK
<1>9. CASE cayenne_task
  BY <1>9, SMTT(60) DEF cayenne_task, DataTypeOK
<1> QED
  BY <1>1, <1>2, <1>3, <1>4, <1>5, <1>6, <1>7, <1>8, <1>9, Zenon
     DEF DataCallback, ReadHTU21DStatus, ReadMS5637Status, ReadBattery, ReadCalibration, ReadFailed

(* Every variable keeps its type: no conversion leaves its int16_t field,  *)
(* no count reaches read_interval and the queue of reads its bound.        *)
THEOREM DataTypes == DataSpec => []DataTypeOK
<1>1. DataInit => DataTypeOK
  <2> SUFFICES ASSUME DataInit PROVE DataTypeOK
    OBVIOUS
  <2>1. counter \in [Chips -> 0..(read_interval - 1)]
    <3>1. read_interval \in Nat /\ read_interval >= 1
      BY DataConstants
    <3>2. 0 \in 0..(read_interval - 1)
      BY <3>1
    <3>3. counter = [c \in Chips |-> 0]
      BY DEF DataInit
    <3> QED
      BY <3>2, <3>3
  <2>2. 0 \in Signed /\ 0 \in Byte
    BY DEF Signed, Byte
  <2>3. /\ words = <<>> /\ step = "idle" /\ reads = <<>> /\ battery \in Levels /\ channel = 0
    BY DEF DataInit
  <2>4. reads \in Seq(Characteristics) /\ Len(reads) <= QueueSize + 1
    BY <2>3, DataConstants
  <2>5. BA5C_data \in BA5C_data_t
    BY <2>2, SMTT(60) DEF DataInit, BA5C_data_t
  <2> QED
    BY <2>1, <2>3, <2>4, <2>5 DEF DataTypeOK, BA5C_data_t
<1>2. DataTypeOK /\ DataInv /\ [DataNext]_dataVars => DataTypeOK'
  <2> SUFFICES ASSUME DataTypeOK, DataInv, [DataNext]_dataVars
               PROVE  DataTypeOK'
    OBVIOUS
  <2>1. CASE DataNext
    <3>1. DataCallback \/ BatteryChanges \/ ReadsLost \/ cayenne_task
      BY <2>1 DEF DataNext
    <3>2. BA5C_data' \in BA5C_data_t
      BY <3>1, FieldsTyped
    <3>3. /\ counter' \in [Chips -> 0..(read_interval - 1)]
          /\ words' \in {<<>>} \cup (Word \X Word)
          /\ step' \in {"idle", "temperature", "humidity"}
          /\ reads' \in Seq(Characteristics) /\ Len(reads') <= QueueSize + 1
          /\ battery' \in Levels /\ channel' \in 0..7
      BY <3>1, OthersTyped
    <3> QED
      BY <3>2, <3>3 DEF DataTypeOK, BA5C_data_t
  <2>2. CASE UNCHANGED dataVars
    BY <2>2 DEF dataVars, DataTypeOK
  <2> QED
    BY <2>1, <2>2
<1> QED
  BY <1>1, <1>2, DataInvariant, PTL DEF DataSpec
-----------------------------------------------------------------------------
(* dT * C6 fits the int32_t it is computed in. *)
ProductFits(D2) == -2147483648 <= dT(D2) * C6 /\ dT(D2) * C6 <= 2147483647

(* The product in two parts of at most 40 bits. *)
LEMMA ProductParts ==
    ASSUME NEW d \in Int, NEW c \in Int
    PROVE  d * c = 4096 * ((d \div 4096) * c) + (d % 4096) * c
<1> DEFINE a == d \div 4096
<1> DEFINE b == d % 4096
<1>1. a \in Int /\ b \in Int /\ d = 4096 * a + b
  OBVIOUS
<1> HIDE DEF a, b
<1>2. (4096 * a + b) * c = 4096 * (a * c) + b * c
  BY <1>1
<1>3. d * c = 4096 * (a * c) + b * c
  BY <1>1, <1>2
<1> QED
  BY <1>3 DEF a, b

(* Then the quotient is the same whether or not it is computed in 32 bits. *)
LEMMA NarrowProduct ==
    ASSUME NEW D2 \in Nat, ProductFits(D2)
    PROVE  Quotient32(dT(D2)) = Quotient(dT(D2)) /\ Quotient(dT(D2)) \in Int
<1>1. C5 \in Int /\ C6 \in Int
  BY DataConstants DEF Word
<1> DEFINE d == dT(D2)
<1>2. d \in Int
  BY <1>1 DEF dT
<1> HIDE DEF d
<1> DEFINE x == (d \div 4096) * C6
<1> DEFINE y == (d % 4096) * C6
<1>3. d \div 4096 \in Int /\ d % 4096 \in Int
  BY <1>2
<1>4. x \in Int /\ y \in Int
  BY <1>1, <1>3
<1>5. d * C6 = 4096 * x + y
  BY <1>1, <1>2, ProductParts
<1>6. Quotient(d) = (x + y \div 4096) \div 2048
  BY DEF Quotient
<1>7. -2147483648 <= 4096 * x + y /\ 4096 * x + y <= 2147483647
  BY <1>5 DEF ProductFits, d
<1> HIDE DEF x, y
<1>8. /\ (x + y \div 4096) \div 2048 \in Int
      /\ -256 <= (x + y \div 4096) \div 2048
      /\ (x + y \div 4096) \div 2048 <= 255
  BY <1>4, <1>7
<1> DEFINE q == Quotient(d)
<1>9. q \in Int /\ -256 <= q /\ q <= 255
  BY <1>6, <1>8
<1> HIDE DEF q
<1>10. ((q + 256) % 512) - 256 = q
  BY <1>9
<1>11. Quotient32(d) = q
  BY <1>10 DEF Quotient32, q
<1> QED
  BY <1>9, <1>11 DEF d, q

(* And the truncated temperature is within a degree. *)
LEMMA TemperatureIsClose ==
    ASSUME NEW D2 \in Nat, ProductFits(D2)
    PROVE  /\ (2000 + Quotient(dT(D2))) - 100 < 100 * MS5637_TEMP(D2)
           /\ 100 * MS5637_TEMP(D2) < 2000 + Quotient(dT(D2)) + 100
<1> DEFINE q == Quotient(dT(D2))
<1>1. q \in Int /\ MS5637_TEMP(D2) = Trunc(2000 + q, 100)
  BY NarrowProduct DEF MS5637_TEMP
<1> HIDE DEF q
<1>2. (2000 + q) - 100 < 100 * Trunc(2000 + q, 100) /\ 100 * Trunc(2000 + q, 100) < 2000 + q + 100
  BY <1>1 DEF Trunc
<1> QED
  BY <1>1, <1>2 DEF q

(* A queue without the read of the calibration. *)
NoCalibration(rs) == \A i \in 1..Len(rs) : rs[i] # "MS5637_calibration"

(* The inductive invariant of the MS5637: a read of the calibration is     *)
(* only ever queued once there is a reading, and every computed            *)
(* temperature is that of a reading.                                       *)
CalibrationInv ==
    /\ BA5C_data.MS5637_D2 \in D2Readings \/ NoCalibration(reads)
    /\ \/ BA5C_data.MS5637_temperature = 0
       \/ \E d2 \in D2Readings : BA5C_data.MS5637_temperature = MS5637_TEMP(d2)

(* The stack's queue holds what it held and what was asked for. *)
LEMMA AcceptAddsNoCalibration ==
    ASSUME NEW rs \in Seq(Characteristics), NEW cs \in Seq(Characteristics),
           NoCalibration(rs), NoCalibration(cs)
    PROVE  NoCalibration(Accept(rs, cs))
<1> DEFINE both == rs \o cs
<1>1. both \in Seq(Characteristics) /\ Len(both) = Len(rs) + Len(cs)
  OBVIOUS
<1>2. \A i \in 1..Len(both) : both[i] # "MS5637_calibration"
  <2> SUFFICES ASSUME NEW i \in 1..Len(both)
               PROVE  both[i] # "MS5637_calibration"
    OBVIOUS
  <2>1. CASE i <= Len(rs)
    BY <2>1 DEF NoCalibration
  <2>2. CASE i > Len(rs)
    <3>1. both[i] = cs[i - Len(rs)] /\ i - Len(rs) \in 1..Len(cs)
      BY <1>1, <2>2
    <3> QED
      BY <3>1 DEF NoCalibration
  <2> QED
    BY <1>1, <2>1, <2>2
<1>3. QueueSize \in Nat
  BY DataConstants
<1> HIDE DEF both
<1>4. PICK n \in 0..Len(both) : Accept(rs, cs) = SubSeq(both, 1, n)
  BY <1>1, <1>3 DEF Accept, both
<1> QED
  BY <1>1, <1>2, <1>4 DEF NoCalibration

(* A step that computes no temperature and queues no read of the           *)
(* calibration.                                                            *)
LEMMA OtherStepsKeepCalibration ==
    ASSUME CalibrationInv,
           BA5C_data'.MS5637_D2 = BA5C_data.MS5637_D2,
           BA5C_data'.MS5637_temperature = BA5C_data.MS5637_temperature,
           NoCalibration(reads) => NoCalibration(reads')
    PROVE  CalibrationInv'
  BY DEF CalibrationInv, NoCalibration

(* An answered read leaves the rest of the queue. *)
LEMMA AnsweredCalibration ==
    ASSUME DataTypeOK, NEW char, Answered(char)
    PROVE  /\ NoCalibration(reads) => NoCalibration(reads')
           /\ char = "MS5637_calibration" => ~NoCalibration(reads)
<1>1. reads \in Seq(Characteristics) /\ reads # <<>> /\ Head(reads) = char /\ reads' = Tail(reads)
  BY DEF Answered, DataTypeOK
<1>2. /\ Len(Tail(reads)) = Len(reads) - 1
      /\ \A i \in 1..Len(Tail(reads)) : Tail(reads)[i] = reads[i + 1] /\ i + 1 \in 1..Len(reads)
  BY <1>1
<1>3. 1 \in 1..Len(reads) /\ reads[1] = char
  BY <1>1
<1> QED
  BY <1>1, <1>2, <1>3 DEF NoCalibration

(* Every step keeps CalibrationInv. *)
LEMMA NextKeepsCalibration ==
    ASSUME DataTypeOK, DataInv, CalibrationInv, [DataNext]_dataVars
    PROVE  CalibrationInv'
<1>1. DOMAIN BA5C_data = DataFields /\ reads \in Seq(Characteristics)
  BY DEF DataInv, DataTypeOK
<1>2. CASE (\E t \in TempWords, h \in HumWords : NotifyHTU21D(t, h)) \/ ConvertTemperature
  BY <1>1, <1>2, OtherStepsKeepCalibration DEF NotifyHTU21D, ConvertTemperature, DataFields
<1>3. CASE ConvertHumidity
  <2>1. /\ BA5C_data'.MS5637_D2 = BA5C_data.MS5637_D2
        /\ BA5C_data'.MS5637_temperature = BA5C_data.MS5637_temperature
    BY <1>1, <1>3 DEF ConvertHumidity, DataFields
  <2> DEFINE cs == <<"HTU21D_status", "Battery_data">>
  <2>2. cs \in Seq(Characteristics) /\ NoCalibration(cs)
    BY DEF NoCalibration, Characteristics
  <2>3. reads' = reads \/ reads' = Accept(reads, cs)
    BY <1>3 DEF ConvertHumidity, CountNotification
  <2> HIDE DEF cs
  <2>4. NoCalibration(reads) => NoCalibration(Accept(reads, cs))
    BY <1>1, <2>2, AcceptAddsNoCalibration
  <2> QED
    BY <2>1, <2>3, <2>4, OtherStepsKeepCalibration
<1>4. CASE \E d1 \in Pressures, d2 \in D2Readings : NotifyMS5637(d1, d2)
  <2> PICK d1 \in Pressures, d2 \in D2Readings : NotifyMS5637(d1, d2)
    BY <1>4
  <2>1. /\ BA5C_data'.MS5637_D2 = d2
        /\ BA5C_data'.MS5637_temperature = BA5C_data.MS5637_temperature
    BY <1>1 DEF NotifyMS5637, DataFields
  <2> QED
    BY <2>1 DEF CalibrationInv
<1>5. CASE \E s \in Statuses : NotifyBattery(s)
  BY <1>1, <1>5, OtherStepsKeepCalibration DEF NotifyBattery, DataFields
<1>6. CASE \E s \in Statuses : ReadHTU21DStatus(s) \/ ReadMS5637Status(s) \/ ReadBattery(s)
  <2>1. PICK char : Answered(char)
    BY <1>6 DEF ReadHTU21DStatus, ReadMS5637Status, ReadBattery
  <2>2. NoCalibration(reads) => NoCalibration(reads')
    BY <2>1, AnsweredCalibration
  <2>3. /\ BA5C_data'.MS5637_D2 = BA5C_data.MS5637_D2
        /\ BA5C_data'.MS5637_temperature = BA5C_data.MS5637_temperature
    BY <1>1, <1>6, Zenon DEF ReadHTU21DStatus, ReadMS5637Status, ReadBattery, DataFields
  <2> QED
    BY <2>2, <2>3, OtherStepsKeepCalibration
<1>7. CASE ReadCalibration
  <2>1. Answered("MS5637_calibration")
    BY <1>7 DEF ReadCalibration
  <2>2. ~NoCalibration(reads)
    BY <2>1, AnsweredCalibration
  <2>3. BA5C_data.MS5637_D2 \in D2Readings
    BY <2>2 DEF CalibrationInv
  <2>4. /\ BA5C_data'.MS5637_D2 = BA5C_data.MS5637_D2
        /\ BA5C_data'.MS5637_temperature = MS5637_TEMP(BA5C_data.MS5637_D2)
    BY <1>1, <1>7 DEF ReadCalibration, DataFields
  <2> QED
    BY <2>3, <2>4 DEF CalibrationInv
<1>8. CASE ReadFailed
  <2>1. PICK char : Answered(char)
    BY <1>8 DEF ReadFailed
  <2>2. NoCalibration(reads) => NoCalibration(reads')
    BY <2>1, AnsweredCalibration
  <2> QED
    BY <1>8, <2>2, OtherStepsKeepCalibration DEF ReadFailed
<1>9. CASE ReadsLost
  <2>1. NoCalibration(<<>>)
    BY DEF NoCalibration
  <2> QED
    BY <1>9, <2>1, OtherStepsKeepCalibration DEF ReadsLost
<1>10. CASE BatteryChanges \/ cayenne_task \/ UNCHANGED dataVars
  BY <1>10 DEF BatteryChanges, cayenne_task, dataVars, CalibrationInv, NoCalibration
<1> QED
  BY <1>2, <1>3, <1>4, <1>5, <1>6, <1>7, <1>8, <1>9, <1>10 DEF DataNext, DataCallback

(* For any calibration and readings whose product fits 32 bits: the        *)
(* temperature of the MS5637 is within a degree of the formula, of a       *)
(* reading that was notified, in whatever order notifications, answers,    *)
(* failed reads and lost connections come.  (Without the bound it is       *)
(* false: the code multiplies int32_t values.)                             *)
THEOREM CalibratedTemperature ==
    ASSUME \A d2 \in D2Readings : ProductFits(d2)
    PROVE  DataSpec => []MS5637FollowsFormula
<1>1. DataInit => CalibrationInv
  BY SMTT(60) DEF DataInit, CalibrationInv, NoCalibration
<1>2. DataTypeOK /\ DataInv /\ CalibrationInv /\ [DataNext]_dataVars => CalibrationInv'
  BY NextKeepsCalibration
<1>3. CalibrationInv => MS5637FollowsFormula
  <2> SUFFICES ASSUME CalibrationInv, BA5C_data.MS5637_temperature # 0
               PROVE  MS5637FollowsFormula
    BY DEF MS5637FollowsFormula
  <2> PICK d2 \in D2Readings : BA5C_data.MS5637_temperature = MS5637_TEMP(d2)
    BY DEF CalibrationInv
  <2>1. d2 \in Nat
    BY DataConstants DEF Reading
  <2>2. /\ (2000 + Quotient(dT(d2))) - 100 < 100 * MS5637_TEMP(d2)
        /\ 100 * MS5637_TEMP(d2) < 2000 + Quotient(dT(d2)) + 100
    BY <2>1, TemperatureIsClose
  <2>3. /\ (2000 + Quotient(dT(d2))) - 100 < 100 * BA5C_data.MS5637_temperature
        /\ 100 * BA5C_data.MS5637_temperature < 2000 + Quotient(dT(d2)) + 100
    BY <2>2
  <2> QED
    BY <2>3 DEF MS5637FollowsFormula
<1> QED
  BY <1>1, <1>2, <1>3, DataTypes, DataInvariant, PTL DEF DataSpec
=============================================================================

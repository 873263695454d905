----------------------- MODULE PlugInInterface_Proofs -----------------------
(***************************************************************************)
(* What the driver's devices promise, whatever the HAL, the app and the    *)
(* devices themselves ask for: the HAL is left with the current values     *)
(* once everything is announced, and no change stays pending without a     *)
(* request for it.  The whole driver implements Device, so it keeps all    *)
(* that; besides, its clock is steady, what clients read is what was       *)
(* written and injected, and its objects answer every question about the   *)
(* properties they say they have.  All of it holds for any number of       *)
(* rates, requests, threads, clients, sessions and host ticks, and Device's*)
(* theorems for any number of devices.                                     *)
(***************************************************************************)
EXTENDS PlugInInterface, SequenceTheorems, FiniteSetTheorems, TLAPS

-----------------------------------------------------------------------------
(* Type correctness *)

LEMMA InitType == Init => TypeOK
<1> SUFFICES ASSUME Init PROVE TypeOK
  OBVIOUS
<1> USE DeviceAssumption DEF Init
<1>1. active \in [Devices -> SUBSET Controls]
  BY DEF Controls
<1>2. dispatchQueue \in Seq(Requests \cup Notifications) /\ hostRequests \in Seq(Requests)
  OBVIOUS
<1>3. appClients \in [Devices -> 0 .. 2]
  OBVIOUS
<1>4. requestsLeft \in 0 .. MaxRequests /\ abortsLeft \in 0 .. MaxAborts
  OBVIOUS
<1>5. seen \in [Announceable -> BOOLEAN] /\ mMuted \in BOOLEAN /\ nullDeviceActive \in BOOLEAN
  OBVIOUS
<1>6. mSampleRate \in [Devices -> Rates] /\ mPendingSampleRate \in [Devices -> Rates]
  OBVIOUS
<1>7. mPendingOutputControlsEnabled \in [Devices -> SUBSET Controls]
  OBVIOUS
<1>8. setter \in [Setters -> {"idle", "activate", "deactivate", "announce"}]
  OBVIOUS
<1> QED BY <1>1, <1>2, <1>3, <1>4, <1>5, <1>6, <1>7, <1>8 DEF TypeOK

\* What may be dispatched keeps the queue a queue of such items.
LEMMA DispatchType ==
    ASSUME TypeOK, NEW item \in Requests \cup Notifications, Dispatch(item)
    PROVE  dispatchQueue' \in Seq(Requests \cup Notifications)
BY DEF TypeOK, Dispatch

LEMMA RequestEnabledControlsType ==
    ASSUME TypeOK, NEW d \in Devices, NEW enabled \in SUBSET Controls,
           RequestEnabledControls(d, enabled)
    PROVE  /\ mPendingOutputControlsEnabled' \in [Devices -> SUBSET Controls]
           /\ dispatchQueue' \in Seq(Requests \cup Notifications)
<1>1. <<d, "SetEnabledControls">> \in Requests
  BY DEF Requests, ChangeActions
<1>2. mPendingOutputControlsEnabled' \in [Devices -> SUBSET Controls]
  BY DEF TypeOK, RequestEnabledControls
<1>3. dispatchQueue' \in Seq(Requests \cup Notifications)
  BY <1>1, DispatchType DEF TypeOK, RequestEnabledControls
<1> QED BY <1>2, <1>3

LEMMA NextType ==
    ASSUME TypeOK, [Next]_vars
    PROVE  TypeOK'
<1> USE DeviceAssumption DEF config, setting, app, host
<1>1. ASSUME NEW d \in Devices, RequestSampleRate(d)
      PROVE  TypeOK'
  <2>1. <<d, "SetSampleRate">> \in Requests
    BY DEF Requests, ChangeActions
  <2>2. dispatchQueue' \in Seq(Requests \cup Notifications)
    BY <1>1, <2>1, DispatchType DEF RequestSampleRate
  <2>3. mPendingSampleRate' \in [Devices -> Rates]
    BY <1>1 DEF TypeOK, RequestSampleRate
  <2>4. requestsLeft' \in 0 .. MaxRequests
    BY <1>1 DEF TypeOK, RequestSampleRate, Budget
  <2> QED BY <1>1, <2>2, <2>3, <2>4 DEF TypeOK, RequestSampleRate
<1>2. ASSUME NEW d \in Devices, AddClient(d)
      PROVE  TypeOK'
  <2>1. requestsLeft' \in 0 .. MaxRequests
    BY <1>2 DEF TypeOK, AddClient, Budget
  <2>2. appClients' \in [Devices -> 0 .. 2]
    BY <1>2 DEF TypeOK, AddClient
  <2> QED BY <1>2, <2>1, <2>2 DEF TypeOK, AddClient
<1>3. ASSUME NEW d \in Devices, RemoveClient(d)
      PROVE  TypeOK'
  <2>1. /\ mPendingOutputControlsEnabled' \in [Devices -> SUBSET Controls]
        /\ dispatchQueue' \in Seq(Requests \cup Notifications)
    BY <1>3, RequestEnabledControlsType DEF TypeOK, RemoveClient
  <2>2. appClients' \in [Devices -> 0 .. 2]
    BY <1>3 DEF TypeOK, RemoveClient
  <2>3. matching' \in {NotMatching} \cup SUBSET Controls
    BY <1>3 DEF TypeOK, RemoveClient
  <2> QED BY <1>3, <2>1, <2>2, <2>3 DEF TypeOK, RemoveClient
<1>4. CASE ReadEnabledControls
  <2>1. requestsLeft' \in 0 .. MaxRequests
    BY <1>4 DEF TypeOK, ReadEnabledControls, Budget
  <2>2. matching' \in {NotMatching} \cup SUBSET Controls
    BY <1>4 DEF TypeOK, ReadEnabledControls
  <2> QED BY <1>4, <2>1, <2>2 DEF TypeOK, ReadEnabledControls
<1>5. ASSUME NEW hasControls \in SUBSET Controls, MatchControlsListOf(hasControls)
      PROVE  TypeOK'
  <2>1. /\ mPendingOutputControlsEnabled' \in [Devices -> SUBSET Controls]
        /\ dispatchQueue' \in Seq(Requests \cup Notifications)
    BY <1>5, RequestEnabledControlsType DEF TypeOK, MatchControlsListOf
  <2> QED BY <1>5, <2>1 DEF TypeOK, MatchControlsListOf
<1>6. CASE PerformConfigChange
  <2>1. hostRequests' \in Seq(Requests)
    BY <1>6 DEF TypeOK, PerformConfigChange
  <2>2. mSampleRate' \in [Devices -> Rates]
    BY <1>6 DEF TypeOK, PerformConfigChange
  <2>3. active' \in [Devices -> SUBSET Controls]
    BY <1>6 DEF TypeOK, PerformConfigChange
  <2> QED BY <1>6, <2>1, <2>2, <2>3 DEF TypeOK, PerformConfigChange
<1>7. CASE AbortConfigChange
  <2>1. hostRequests' \in Seq(Requests)
    BY <1>7 DEF TypeOK, AbortConfigChange
  <2>2. abortsLeft' \in 0 .. MaxAborts
    BY <1>7 DEF TypeOK, AbortConfigChange
  <2> QED BY <1>7, <2>1, <2>2 DEF TypeOK, AbortConfigChange
<1>8. CASE SetMuted
  <2>1. <<Main, "muted">> \in Notifications
    BY DEF Notifications, Announceable
  <2>2. dispatchQueue' \in Seq(Requests \cup Notifications)
    BY <1>8, <2>1, DispatchType DEF SetMuted
  <2>3. requestsLeft' \in 0 .. MaxRequests
    BY <1>8 DEF TypeOK, SetMuted, Budget
  <2> QED BY <1>8, <2>2, <2>3 DEF TypeOK, SetMuted
<1>9. ASSUME NEW s \in Setters, SetNullDeviceActive(s)
      PROVE  TypeOK'
  <2>1. requestsLeft' \in 0 .. MaxRequests
    BY <1>9 DEF TypeOK, SetNullDeviceActive, Budget
  <2>2. setter' \in [Setters -> {"idle", "activate", "deactivate", "announce"}]
    BY <1>9 DEF TypeOK, SetNullDeviceActive
  <2> QED BY <1>9, <2>1, <2>2 DEF TypeOK, SetNullDeviceActive
<1>10. ASSUME NEW s \in Setters, ToggleNullDevice(s)
       PROVE  TypeOK'
  <2>1. <<Main, "deviceIsAlive">> \in Notifications
    BY DEF Notifications, Announceable
  <2>2. dispatchQueue' \in Seq(Requests \cup Notifications)
    BY <1>10, <2>1, DispatchType DEF TypeOK, ToggleNullDevice
  <2>3. setter' \in [Setters -> {"idle", "activate", "deactivate", "announce"}]
    BY <1>10 DEF TypeOK, ToggleNullDevice
  <2>4. nullDeviceActive' \in BOOLEAN
    BY <1>10 DEF ToggleNullDevice
  <2> QED BY <1>10, <2>2, <2>3, <2>4 DEF TypeOK, ToggleNullDevice
<1>11. ASSUME NEW s \in Setters, AnnounceNullDevice(s)
       PROVE  TypeOK'
  <2>1. <<Main, "deviceList">> \in Notifications
    BY DEF Notifications, Announceable
  <2>2. dispatchQueue' \in Seq(Requests \cup Notifications)
    BY <1>11, <2>1, DispatchType DEF AnnounceNullDevice
  <2>3. setter' \in [Setters -> {"idle", "activate", "deactivate", "announce"}]
    BY <1>11 DEF TypeOK, AnnounceNullDevice
  <2> QED BY <1>11, <2>2, <2>3 DEF TypeOK, AnnounceNullDevice
<1>12. CASE RunDispatched
  <2>1. dispatchQueue' \in Seq(Requests \cup Notifications)
    BY <1>12 DEF TypeOK, RunDispatched
  <2>2. Head(dispatchQueue) \in Requests \cup Notifications
    BY <1>12 DEF TypeOK, RunDispatched
  <2>3. hostRequests' \in Seq(Requests)
    <3>1. hostRequests' = hostRequests \/ (/\ Head(dispatchQueue) \notin Notifications
                                          /\ hostRequests' = Append(hostRequests, Head(dispatchQueue)))
      BY <1>12 DEF RunDispatched
    <3>2. hostRequests \in Seq(Requests)
      BY DEF TypeOK
    <3> QED BY <2>2, <3>1, <3>2
  <2>4. seen' \in [Announceable -> BOOLEAN]
    BY <1>12 DEF TypeOK, RunDispatched
  <2> QED BY <1>12, <2>1, <2>3, <2>4 DEF TypeOK, RunDispatched
<1>13. CASE UNCHANGED vars
  BY <1>13 DEF TypeOK, vars
<1> QED BY <1>1, <1>2, <1>3, <1>4, <1>5, <1>6, <1>7, <1>8, <1>9, <1>10, <1>11, <1>12, <1>13
        DEF Next, MatchNext, SetterNext

\* Every variable of the device and its host keeps its type.
THEOREM TypeCorrect == Spec => []TypeOK
<1>1. Init => TypeOK
  BY InitType
<1>2. TypeOK /\ [Next]_vars => TypeOK'
  BY NextType
<1> QED BY <1>1, <1>2, PTL DEF Spec

-----------------------------------------------------------------------------
(* Announcements *)

\* The notification is in the queue.
Queued(p) == \E i \in 1 .. Len(dispatchQueue) : dispatchQueue[i] = <<Main, p>>

\* A value that the HAL does not know is about to be announced.
KnownOrComing ==
    /\ seen["muted"] = mMuted \/ Queued("muted")
    /\ seen["deviceIsAlive"] = nullDeviceActive \/ Queued("deviceIsAlive")
    /\ \/ seen["deviceList"] = nullDeviceActive
       \/ Queued("deviceList")
       \/ \E s \in Setters : setter[s] = "announce"

LEMMA DispatchQueues ==
    ASSUME TypeOK, NEW item, Dispatch(item)
    PROVE  /\ \A p : Queued(p) => Queued(p)'
           /\ \A p : item = <<Main, p>> => Queued(p)'
<1>1. dispatchQueue \in Seq(Requests \cup Notifications)
  BY DEF TypeOK
<1>2. Len(dispatchQueue') = Len(dispatchQueue) + 1
  BY <1>1 DEF Dispatch
<1>3. \A i \in 1 .. Len(dispatchQueue) : dispatchQueue'[i] = dispatchQueue[i]
  BY <1>1 DEF Dispatch
<1>4. dispatchQueue'[Len(dispatchQueue) + 1] = item
  BY <1>1 DEF Dispatch
<1>5. Len(dispatchQueue) \in Nat
  BY <1>1
<1> QED BY <1>2, <1>3, <1>4, <1>5 DEF Queued

LEMMA RequestQueues ==
    ASSUME TypeOK, NEW d, NEW enabled, RequestEnabledControls(d, enabled)
    PROVE  \A p : Queued(p) => Queued(p)'
BY DispatchQueues DEF RequestEnabledControls, Queued

LEMMA NextKnownOrComing ==
    ASSUME TypeOK, KnownOrComing, [Next]_vars
    PROVE  KnownOrComing'
<1> USE DEF config, setting, app, host
<1>1. ASSUME NEW d \in Devices, RequestSampleRate(d)
      PROVE  KnownOrComing'
  BY <1>1, DispatchQueues DEF RequestSampleRate, KnownOrComing
<1>2. ASSUME NEW d \in Devices, AddClient(d)
      PROVE  KnownOrComing'
  BY <1>2 DEF AddClient, KnownOrComing, Queued
<1>3. ASSUME NEW d \in Devices, RemoveClient(d)
      PROVE  KnownOrComing'
  <2>1. \A p : Queued(p) => Queued(p)'
    BY <1>3, RequestQueues DEF RemoveClient, Queued
  <2> QED BY <1>3, <2>1 DEF RemoveClient, KnownOrComing
<1>4. CASE ReadEnabledControls
  BY <1>4 DEF ReadEnabledControls, KnownOrComing, Queued
<1>5. ASSUME NEW hasControls \in SUBSET Controls, MatchControlsListOf(hasControls)
      PROVE  KnownOrComing'
  <2>1. \A p : Queued(p) => Queued(p)'
    BY <1>5, RequestQueues DEF MatchControlsListOf, Queued
  <2> QED BY <1>5, <2>1 DEF MatchControlsListOf, KnownOrComing
<1>6. CASE PerformConfigChange
  BY <1>6 DEF PerformConfigChange, KnownOrComing, Queued
<1>7. CASE AbortConfigChange
  BY <1>7 DEF AbortConfigChange, KnownOrComing, Queued
<1>8. CASE SetMuted
  BY <1>8, DispatchQueues DEF SetMuted, KnownOrComing
<1>9. ASSUME NEW s \in Setters, SetNullDeviceActive(s)
      PROVE  KnownOrComing'
  <2>1. \A p : Queued(p) => Queued(p)'
    BY <1>9 DEF SetNullDeviceActive, Queued
  <2>2. \A t \in Setters : setter[t] = "announce" => setter'[t] = "announce"
    BY <1>9 DEF SetNullDeviceActive, TypeOK
  <2> QED BY <1>9, <2>1, <2>2 DEF SetNullDeviceActive, KnownOrComing
<1>10. ASSUME NEW s \in Setters, ToggleNullDevice(s)
       PROVE  KnownOrComing'
  <2>1. setter'[s] = "announce"
    BY <1>10 DEF ToggleNullDevice, TypeOK
  <2>2. \A p : Queued(p) => Queued(p)'
    BY <1>10, DispatchQueues DEF ToggleNullDevice, Queued
  <2>3. nullDeviceActive' = nullDeviceActive \/ Queued("deviceIsAlive")'
    BY <1>10, DispatchQueues DEF ToggleNullDevice
  <2> QED BY <1>10, <2>1, <2>2, <2>3 DEF ToggleNullDevice, KnownOrComing
<1>11. ASSUME NEW s \in Setters, AnnounceNullDevice(s)
       PROVE  KnownOrComing'
  BY <1>11, DispatchQueues DEF AnnounceNullDevice, KnownOrComing
<1>12. CASE RunDispatched
  <2> DEFINE item == Head(dispatchQueue)
  <2>1. dispatchQueue \in Seq(Requests \cup Notifications) /\ dispatchQueue # << >>
    BY <1>12 DEF TypeOK, RunDispatched
  <2>2. \A p : Queued(p) => item = <<Main, p>> \/ Queued(p)'
    <3> SUFFICES ASSUME NEW p, NEW i \in 1 .. Len(dispatchQueue), dispatchQueue[i] = <<Main, p>>
                 PROVE  item = <<Main, p>> \/ Queued(p)'
      BY DEF Queued
    <3>1. CASE i = 1
      BY <2>1, <3>1
    <3>2. CASE i # 1
      <4>1. i - 1 \in 1 .. Len(dispatchQueue')
        BY <1>12, <2>1, <3>2 DEF RunDispatched
      <4>2. dispatchQueue'[i - 1] = dispatchQueue[i]
        BY <1>12, <2>1, <3>2 DEF RunDispatched
      <4> QED BY <4>1, <4>2 DEF Queued
    <3> QED BY <3>1, <3>2
  <2>3. \A p \in Announceable :
            /\ item = <<Main, p>> => seen'[p] = IF p = "muted" THEN mMuted ELSE nullDeviceActive
            /\ item # <<Main, p>> => seen'[p] = seen[p]
    BY <1>12 DEF RunDispatched, Notifications, TypeOK
  <2>4. UNCHANGED <<mMuted, nullDeviceActive, setter>>
    BY <1>12 DEF RunDispatched
  <2>5. {"muted", "deviceIsAlive", "deviceList"} = Announceable
    BY DEF Announceable
  <2> HIDE DEF item
  <2> QED BY <2>2, <2>3, <2>4, <2>5 DEF KnownOrComing
<1>13. CASE UNCHANGED vars
  BY <1>13 DEF KnownOrComing, Queued, vars
<1> QED BY <1>1, <1>2, <1>3, <1>4, <1>5, <1>6, <1>7, <1>8, <1>9, <1>10, <1>11, <1>12, <1>13
        DEF Next, MatchNext, SetterNext

\* When nothing is left to announce the HAL knows the current values, however
\* many threads set the null device's state at once.
THEOREM AnnouncementsReach == Spec => []Announced
<1>1. Init => TypeOK /\ KnownOrComing
  BY InitType DEF Init, KnownOrComing, Announceable
<1>2. TypeOK /\ KnownOrComing /\ [Next]_vars => (TypeOK /\ KnownOrComing)'
  BY NextType, NextKnownOrComing
<1>3. TypeOK /\ KnownOrComing => Announced
  <2> SUFFICES ASSUME TypeOK, KnownOrComing,
                      \A i \in 1 .. Len(dispatchQueue) : dispatchQueue[i] \notin Notifications,
                      \A s \in Setters : setter[s] # "announce"
               PROVE  seen = [p \in Announceable |-> IF p = "muted" THEN mMuted ELSE nullDeviceActive]
    BY DEF Announced
  <2>1. ASSUME NEW p \in Announceable PROVE ~Queued(p)
    <3>1. <<Main, p>> \in Notifications
      BY DEF Notifications
    <3> QED BY <3>1 DEF Queued
  <2>2. \A p \in Announceable : seen[p] = IF p = "muted" THEN mMuted ELSE nullDeviceActive
    BY <2>1 DEF KnownOrComing, Announceable
  <2>3. seen \in [Announceable -> BOOLEAN]
    BY DEF TypeOK
  <2> QED BY <2>2, <2>3
<1> QED BY <1>1, <1>2, <1>3, PTL DEF Spec

-----------------------------------------------------------------------------
(* Pending changes *)

\* The host was asked for the change.
AskedHost(p) == \E i \in 1 .. Len(hostRequests) : hostRequests[i] = <<Main, p>>
Coming(p) == Queued(p) \/ AskedHost(p)

\* Unless the host refused one, every change that is pending is coming.
PendingComing ==
    \/ abortsLeft < MaxAborts
    \/ /\ mPendingOutputControlsEnabled[Main] # active[Main] => Coming("SetEnabledControls")
       /\ mPendingSampleRate[Main] # mSampleRate[Main] => Coming("SetSampleRate")

\* The two queues put together hold what either of them holds.
LEMMA ComingInBoth ==
    ASSUME TypeOK, NEW p
    PROVE  Coming(p) <=> \E i \in 1 .. Len(dispatchQueue) + Len(hostRequests) :
                             (dispatchQueue \o hostRequests)[i] = <<Main, p>>
<1> DEFINE both == dispatchQueue \o hostRequests
           n == Len(dispatchQueue)
           k == Len(hostRequests)
<1>1. dispatchQueue \in Seq(Requests \cup Notifications) /\ hostRequests \in Seq(Requests \cup Notifications)
  BY DEF TypeOK
<1>2. n \in Nat /\ k \in Nat
  BY <1>1
<1>3. \A i \in 1 .. n : both[i] = dispatchQueue[i]
  BY <1>1
<1>4. \A i \in 1 .. k : both[n + i] = hostRequests[i]
  BY <1>1
<1> HIDE DEF both
<1>5. Coming(p) => \E i \in 1 .. n + k : both[i] = <<Main, p>>
  <2>1. ASSUME NEW i \in 1 .. n, dispatchQueue[i] = <<Main, p>>
        PROVE  \E j \in 1 .. n + k : both[j] = <<Main, p>>
    <3>1. i \in 1 .. n + k
      BY <1>2
    <3> QED BY <1>3, <2>1, <3>1
  <2>2. ASSUME NEW i \in 1 .. k, hostRequests[i] = <<Main, p>>
        PROVE  \E j \in 1 .. n + k : both[j] = <<Main, p>>
    <3>1. n + i \in 1 .. n + k
      BY <1>2
    <3> QED BY <1>4, <2>2, <3>1
  <2> QED BY <2>1, <2>2 DEF Coming, Queued, AskedHost
<1>6. ASSUME NEW i \in 1 .. n + k, both[i] = <<Main, p>>
      PROVE  Coming(p)
  <2>1. CASE i \in 1 .. n
    BY <1>3, <1>6, <2>1 DEF Coming, Queued
  <2>2. CASE i \notin 1 .. n
    <3>1. i - n \in 1 .. k /\ n + (i - n) = i
      BY <1>2, <2>2
    <3>2. hostRequests[i - n] = <<Main, p>>
      BY <1>4, <1>6, <3>1
    <3> QED BY <3>1, <3>2 DEF Coming, AskedHost
  <2> QED BY <2>1, <2>2
<1> QED BY <1>5, <1>6 DEF both

\* A request that is made is coming, and so is every other one.
LEMMA RequestComes ==
    ASSUME TypeOK, PendingComing, NEW d \in Devices, NEW enabled \in SUBSET Controls,
           RequestEnabledControls(d, enabled),
           UNCHANGED <<active, mSampleRate, mPendingSampleRate, hostRequests, abortsLeft>>
    PROVE  PendingComing'
<1>1. \A p : Coming(p) => Coming(p)'
  BY RequestQueues DEF Coming, AskedHost
<1>2. \/ mPendingOutputControlsEnabled'[Main] = mPendingOutputControlsEnabled[Main]
      \/ Coming("SetEnabledControls")'
  <2> DEFINE changed == {c \in Controls : (c \in active[d]) # (c \in enabled)}
  <2>1. CASE d = Main /\ changed # {}
    <3>1. Dispatch(<<Main, "SetEnabledControls">>)
      BY <2>1 DEF RequestEnabledControls
    <3> QED BY <3>1, DispatchQueues DEF Coming
  <2>2. CASE d = Main /\ changed = {}
    <3>1. mPendingOutputControlsEnabled'[Main]
              = (mPendingOutputControlsEnabled[Main] \ changed) \cup (enabled \cap changed)
      BY <2>2, DeviceAssumption DEF RequestEnabledControls, TypeOK
    <3> QED BY <2>2, <3>1
  <2>3. CASE d # Main
    BY <2>3, DeviceAssumption DEF RequestEnabledControls, TypeOK
  <2> QED BY <2>1, <2>2, <2>3
<1> QED BY <1>1, <1>2 DEF PendingComing

LEMMA NextPendingComing ==
    ASSUME TypeOK, PendingComing, [Next]_vars
    PROVE  PendingComing'
<1> USE DeviceAssumption DEF config, setting, app, host
<1>1. ASSUME NEW d \in Devices, RequestSampleRate(d)
      PROVE  PendingComing'
  <2>1. Dispatch(<<d, "SetSampleRate">>)
    BY <1>1 DEF RequestSampleRate
  <2>2. \A p : Coming(p) => Coming(p)'
    BY <1>1, <2>1, DispatchQueues DEF RequestSampleRate, Coming, AskedHost
  <2>3. mPendingSampleRate'[Main] = mPendingSampleRate[Main] \/ Coming("SetSampleRate")'
    <3>1. CASE d = Main
      BY <2>1, <3>1, DispatchQueues DEF Coming
    <3>2. CASE d # Main
      BY <1>1, <3>2 DEF RequestSampleRate, TypeOK
    <3> QED BY <3>1, <3>2
  <2> QED BY <1>1, <2>2, <2>3 DEF RequestSampleRate, PendingComing
<1>2. ASSUME NEW d \in Devices, AddClient(d)
      PROVE  PendingComing'
  BY <1>2 DEF AddClient, PendingComing, Coming, Queued, AskedHost
<1>3. ASSUME NEW d \in Devices, RemoveClient(d)
      PROVE  PendingComing'
  <2>1. CASE RequestEnabledControls(d, Controls)
    BY <1>3, <2>1, RequestComes DEF RemoveClient
  <2>2. CASE UNCHANGED <<mPendingOutputControlsEnabled, dispatchQueue>>
    BY <1>3, <2>2 DEF RemoveClient, PendingComing, Coming, Queued, AskedHost
  <2> QED BY <1>3, <2>1, <2>2 DEF RemoveClient
<1>4. CASE ReadEnabledControls
  BY <1>4 DEF ReadEnabledControls, PendingComing, Coming, Queued, AskedHost
<1>5. ASSUME NEW hasControls \in SUBSET Controls, MatchControlsListOf(hasControls)
      PROVE  PendingComing'
  <2>1. CASE RequestEnabledControls(Main, hasControls)
    BY <1>5, <2>1, RequestComes DEF MatchControlsListOf
  <2>2. CASE UNCHANGED <<mPendingOutputControlsEnabled, dispatchQueue>>
    BY <1>5, <2>2 DEF MatchControlsListOf, PendingComing, Coming, Queued, AskedHost
  <2> QED BY <1>5, <2>1, <2>2 DEF MatchControlsListOf
<1>6. CASE PerformConfigChange
  <2> DEFINE item == Head(hostRequests)
  <2>1. hostRequests \in Seq(Requests) /\ hostRequests # << >>
    BY <1>6 DEF PerformConfigChange, TypeOK
  <2>2. \A p : AskedHost(p) => item = <<Main, p>> \/ AskedHost(p)'
    <3> SUFFICES ASSUME NEW p, NEW i \in 1 .. Len(hostRequests), hostRequests[i] = <<Main, p>>
                 PROVE  item = <<Main, p>> \/ AskedHost(p)'
      BY DEF AskedHost
    <3>1. CASE i = 1
      BY <2>1, <3>1
    <3>2. CASE i # 1
      <4>1. i - 1 \in 1 .. Len(hostRequests')
        BY <1>6, <2>1, <3>2 DEF PerformConfigChange
      <4>2. hostRequests'[i - 1] = hostRequests[i]
        BY <1>6, <2>1, <3>2 DEF PerformConfigChange
      <4> QED BY <4>1, <4>2 DEF AskedHost
    <3> QED BY <3>1, <3>2
  <2>3. \A p : Queued(p) => Queued(p)'
    BY <1>6 DEF PerformConfigChange, Queued
  <2>4. item = <<Main, "SetEnabledControls">> => active'[Main] = mPendingOutputControlsEnabled[Main]
    BY <1>6 DEF PerformConfigChange, TypeOK
  <2>5. item = <<Main, "SetSampleRate">> => mSampleRate'[Main] = mPendingSampleRate[Main]
    BY <1>6 DEF PerformConfigChange, TypeOK
  <2>6. \/ active'[Main] = active[Main]
        \/ active'[Main] = mPendingOutputControlsEnabled[Main]
    BY <1>6 DEF PerformConfigChange, TypeOK
  <2>7. \/ mSampleRate'[Main] = mSampleRate[Main]
        \/ mSampleRate'[Main] = mPendingSampleRate[Main]
    BY <1>6 DEF PerformConfigChange, TypeOK
  <2>8. UNCHANGED <<mPendingOutputControlsEnabled, mPendingSampleRate, abortsLeft>>
    BY <1>6 DEF PerformConfigChange
  <2> HIDE DEF item
  <2> QED BY <2>2, <2>3, <2>4, <2>5, <2>6, <2>7, <2>8 DEF PendingComing, Coming
<1>7. CASE AbortConfigChange
  <2>1. abortsLeft' < MaxAborts
    BY <1>7 DEF AbortConfigChange, TypeOK
  <2> QED BY <2>1 DEF PendingComing
<1>8. CASE SetMuted
  <2>1. \A p : Coming(p) => Coming(p)'
    BY <1>8, DispatchQueues DEF SetMuted, Coming, AskedHost
  <2> QED BY <1>8, <2>1 DEF SetMuted, PendingComing
<1>9. ASSUME NEW s \in Setters, SetNullDeviceActive(s)
      PROVE  PendingComing'
  BY <1>9 DEF SetNullDeviceActive, PendingComing, Coming, Queued, AskedHost
<1>10. ASSUME NEW s \in Setters, ToggleNullDevice(s)
       PROVE  PendingComing'
  <2>1. \A p : Coming(p) => Coming(p)'
    BY <1>10, DispatchQueues DEF ToggleNullDevice, Coming, AskedHost, Queued
  <2> QED BY <1>10, <2>1 DEF ToggleNullDevice, PendingComing
<1>11. ASSUME NEW s \in Setters, AnnounceNullDevice(s)
       PROVE  PendingComing'
  <2>1. \A p : Coming(p) => Coming(p)'
    BY <1>11, DispatchQueues DEF AnnounceNullDevice, Coming, AskedHost
  <2> QED BY <1>11, <2>1 DEF AnnounceNullDevice, PendingComing
<1>12. CASE RunDispatched
  <2> DEFINE item == Head(dispatchQueue)
  <2>1. /\ dispatchQueue \in Seq(Requests \cup Notifications) /\ dispatchQueue # << >>
        /\ hostRequests \in Seq(Requests)
    BY <1>12 DEF TypeOK, RunDispatched
  <2>2. \A p : Queued(p) => item = <<Main, p>> \/ Queued(p)'
    <3> SUFFICES ASSUME NEW p, NEW i \in 1 .. Len(dispatchQueue), dispatchQueue[i] = <<Main, p>>
                 PROVE  item = <<Main, p>> \/ Queued(p)'
      BY DEF Queued
    <3>1. CASE i = 1
      BY <2>1, <3>1
    <3>2. CASE i # 1
      <4>1. i - 1 \in 1 .. Len(dispatchQueue')
        BY <1>12, <2>1, <3>2 DEF RunDispatched
      <4>2. dispatchQueue'[i - 1] = dispatchQueue[i]
        BY <1>12, <2>1, <3>2 DEF RunDispatched
      <4> QED BY <4>1, <4>2 DEF Queued
    <3> QED BY <3>1, <3>2
  <2>3. hostRequests' = IF item \in Notifications THEN hostRequests ELSE Append(hostRequests, item)
    BY <1>12 DEF RunDispatched
  <2>4. item \in Requests \cup Notifications
    BY <2>1
  <2>5. UNCHANGED <<active, mPendingOutputControlsEnabled, mSampleRate, mPendingSampleRate, abortsLeft>>
    BY <1>12 DEF RunDispatched
  <2> HIDE DEF item
  <2>6. \A p : AskedHost(p) => AskedHost(p)'
    <3>1. CASE item \in Notifications
      BY <2>3, <3>1 DEF AskedHost
    <3>2. CASE item \notin Notifications
      <4>1. /\ Len(hostRequests') = Len(hostRequests) + 1 /\ Len(hostRequests) \in Nat
            /\ \A i \in 1 .. Len(hostRequests) : hostRequests'[i] = hostRequests[i]
        BY <2>1, <2>3, <2>4, <3>2
      <4> QED BY <4>1 DEF AskedHost
    <3> QED BY <3>1, <3>2
  <2>7. \A p \in ChangeActions : item = <<Main, p>> => AskedHost(p)'
    <3> SUFFICES ASSUME NEW p \in ChangeActions, item = <<Main, p>> PROVE AskedHost(p)'
      OBVIOUS
    <3>1. p \notin Announceable
      BY DEF ChangeActions, Announceable
    <3>2. item \notin Notifications
      BY <3>1 DEF Notifications
    <3>3. /\ Len(hostRequests') \in Nat \ {0}
          /\ hostRequests'[Len(hostRequests')] = item
      BY <2>1, <2>3, <2>4, <3>2
    <3>4. Len(hostRequests') \in 1 .. Len(hostRequests')
      BY <3>3
    <3> QED BY <3>3, <3>4 DEF AskedHost
  <2>8. "SetEnabledControls" \in ChangeActions /\ "SetSampleRate" \in ChangeActions
    BY DEF ChangeActions
  <2> QED BY <2>2, <2>5, <2>6, <2>7, <2>8 DEF PendingComing, Coming
<1>13. CASE UNCHANGED vars
  BY <1>13 DEF PendingComing, Coming, Queued, AskedHost, vars
<1> QED BY <1>1, <1>2, <1>3, <1>4, <1>5, <1>6, <1>7, <1>8, <1>9, <1>10, <1>11, <1>12, <1>13
        DEF Next, MatchNext, SetterNext

\* No change of the main device stays pending with nobody to perform it, unless
\* the host refused one, whoever asks for changes at the same time.
THEOREM PendingChangesCome == Spec => []PendingRequested
<1>1. Init => TypeOK /\ PendingComing
  BY InitType, DeviceAssumption DEF Init, PendingComing
<1>2. TypeOK /\ PendingComing /\ [Next]_vars => (TypeOK /\ PendingComing)'
  BY NextType, NextPendingComing
<1>3. TypeOK /\ PendingComing => PendingRequested
  BY ComingInBoth DEF PendingComing, PendingRequested
<1> QED BY <1>1, <1>2, <1>3, PTL DEF Spec

-----------------------------------------------------------------------------
(* The whole driver *)

\* Every step of the driver is one of Device, or none as far as Device sees.
LEMMA DriverStep ==
    ASSUME [DriverNext]_driverVars
    PROVE  [Next]_vars
BY DEF DriverNext, DeviceCalls, PropertyCalls, IOCalls, driverVars

\* The driver as the HAL calls it implements Device: neither questions nor IO
\* change what is configured, and no change skips its request.
THEOREM ImplementsDevice == DriverSpec => Spec
<1>1. DriverInit => Init
  BY DEF DriverInit
<1>2. [DriverNext]_driverVars => [Next]_vars
  BY DriverStep
<1> QED BY <1>1, <1>2, PTL DEF DriverSpec, Spec

\* So the HAL learns of every setting, in the whole driver.
THEOREM DriverAnnounces == DriverSpec => []Announced
BY ImplementsDevice, AnnouncementsReach, PTL

-----------------------------------------------------------------------------
(* The clock *)

\* The sample rate of the device that is looked at.
Rate == IF ioDevice \in Devices THEN mSampleRate[ioDevice] ELSE kSampleRateDefault

LastStamp == [number |-> numberTimeStamps,
              hostTime |-> anchorHostTime + HostTicks(clockRate, numberTimeStamps)]

\* The clock's grid begins when IO started and goes by the device's rate, and
\* while IO runs its last point, which the HAL was told last, is not in the
\* future.
ClockRight ==
    /\ ioDevice \in Devices \cup {NullDeviceIO}
    /\ hostTime \in Nat /\ anchorHostTime \in Nat /\ numberTimeStamps \in Nat
    /\ clockRate = Rate
    /\ anchorHostTime = startedAt
    /\ clientsDoingIO # {} => /\ LastStamp.hostTime <= hostTime
                              /\ stamp = NoStamp \/ stamp = LastStamp

LEMMA HostTicksType ==
    ASSUME NEW rate \in Rates, NEW n \in Nat
    PROVE  HostTicks(rate, n) \in Int
<1>1. HalfTicksPerPeriod[rate] \in Nat
  BY DeviceIOAssumption
<1>2. ASSUME NEW k \in Nat PROVE n * k \in Int
  OBVIOUS
<1>3. n * HalfTicksPerPeriod[rate] \in Int
  BY <1>1, <1>2
<1> QED BY <1>3 DEF HostTicks

\* The grid begins at the start.
LEMMA HostTicksOfNone ==
    ASSUME NEW rate \in Rates
    PROVE  HostTicks(rate, 0) = 0
<1>1. HalfTicksPerPeriod[rate] \in Nat
  BY DeviceIOAssumption
<1>2. 0 * HalfTicksPerPeriod[rate] = 0
  BY <1>1
<1> QED BY <1>2 DEF HostTicks

LEMMA RateType ==
    ASSUME TypeOK
    PROVE  Rate \in Rates
BY DeviceAssumption DEF TypeOK, Rate

LEMMA InitClock == DriverInit => ClockRight
<1> SUFFICES ASSUME DriverInit PROVE ClockRight
  OBVIOUS
<1>1. clockRate = Rate
  BY DEF DriverInit, Init, IOInit, Rate
<1> QED BY <1>1 DEF DriverInit, IOInit, ClockRight

LEMMA NextClock ==
    ASSUME TypeOK, ClockRight, [DriverNext]_driverVars
    PROVE  ClockRight'
<1> USE DEF clock, loopback, mic
<1>1. CASE DeviceCalls
  <2>1. CASE ioDevice \in Devices /\ mSampleRate'[ioDevice] # mSampleRate[ioDevice]
    <3>1. clientsDoingIO' = {}
      BY <1>1, <2>1 DEF DeviceCalls, ConfigurationChanges
    <3>2. clockRate' = Rate'
      BY <1>1, <2>1 DEF DeviceCalls, ConfigurationChanges, InitLoopback, Rate
    <3>3. UNCHANGED <<ioDevice, hostTime, anchorHostTime, numberTimeStamps, startedAt, stamp>>
      BY <1>1, <2>1 DEF DeviceCalls, ConfigurationChanges
    <3> QED BY <3>1, <3>2, <3>3 DEF ClockRight
  <2>2. CASE ~(ioDevice \in Devices /\ mSampleRate'[ioDevice] # mSampleRate[ioDevice])
    <3>1. UNCHANGED ioVars
      BY <1>1, <2>2 DEF DeviceCalls, ConfigurationChanges
    <3>2. Rate' = Rate
      BY <2>2, <3>1 DEF Rate, ioVars
    <3> QED BY <3>1, <3>2 DEF ClockRight, ioVars, LastStamp, HostTicks
  <2> QED BY <2>1, <2>2
<1>2. CASE PropertyCalls \/ UNCHANGED driverVars
  BY <1>2 DEF PropertyCalls, driverVars, vars, config, ioVars, ClockRight, Rate, LastStamp, HostTicks
<1>3. CASE IOCalls
  <2>1. UNCHANGED mSampleRate
    BY <1>3 DEF IOCalls, vars, config
  <2>2. CASE TimePasses
    <3>1. hostTime' = hostTime + 1 /\ UNCHANGED <<ioDevice, clientsDoingIO, clock>>
      BY <2>2 DEF TimePasses
    <3>2. HostTicks(clockRate, numberTimeStamps) \in Int
      BY RateType, HostTicksType DEF ClockRight
    <3>3. LastStamp' = LastStamp
      BY <3>1 DEF LastStamp, HostTicks
    <3>4. LastStamp.hostTime <= hostTime => LastStamp.hostTime <= hostTime + 1
      BY <3>2 DEF LastStamp, ClockRight
    <3> QED BY <2>1, <3>1, <3>3, <3>4 DEF ClockRight, Rate
  <2>3. CASE GetZeroTimeStamp
    <3> DEFINE next == anchorHostTime + HostTicks(clockRate, numberTimeStamps + 1)
    <3>1. numberTimeStamps' = numberTimeStamps + IF next <= hostTime THEN 1 ELSE 0
      BY <2>3 DEF GetZeroTimeStamp
    <3>2. stamp' = LastStamp'
      BY <2>3 DEF GetZeroTimeStamp, LastStamp, HostTicks
    <3>3. clientsDoingIO # {} /\ UNCHANGED <<ioDevice, clientsDoingIO, hostTime, anchorHostTime, clockRate, startedAt>>
      BY <2>3 DEF GetZeroTimeStamp
    <3>4. anchorHostTime + HostTicks(clockRate, numberTimeStamps') <= hostTime
      <4>1. CASE next <= hostTime
        BY <3>1, <4>1 DEF ClockRight
      <4>2. CASE ~(next <= hostTime)
        <5>1. numberTimeStamps' = numberTimeStamps
          BY <3>1, <4>2 DEF ClockRight
        <5> QED BY <3>3, <5>1 DEF ClockRight, LastStamp
      <4> QED BY <4>1, <4>2
    <3>5. numberTimeStamps' \in Nat
      BY <3>1 DEF ClockRight
    <3> HIDE DEF next
    <3>6. (LastStamp.hostTime <= hostTime)'
      BY <3>3, <3>4 DEF LastStamp, HostTicks
    <3> QED BY <2>1, <3>2, <3>3, <3>5, <3>6 DEF ClockRight, Rate
  <2>4. CASE WriteOutputData
    BY <2>1, <2>4 DEF WriteOutputData, ClockRight, Rate, LastStamp, HostTicks
  <2>5. CASE InjectMicAudio
    BY <2>1, <2>5 DEF InjectMicAudio, ClockRight, Rate, LastStamp, HostTicks
  <2>6. ASSUME NEW c \in IOClients, StartIO(c)
        PROVE  ClockRight'
    <3>1. CASE clientsDoingIO = {}
      <4>1. HostTicks(clockRate, 0) = 0
        BY RateType, HostTicksOfNone DEF ClockRight
      <4> QED BY <2>1, <2>6, <3>1, <4>1 DEF StartIO, ClockRight, Rate, LastStamp, HostTicks
    <3>2. CASE clientsDoingIO # {}
      BY <2>1, <2>6, <3>2 DEF StartIO, ClockRight, Rate, LastStamp, HostTicks
    <3> QED BY <3>1, <3>2
  <2>7. ASSUME NEW c \in IOClients, StopIO(c)
        PROVE  ClockRight'
    <3>1. clientsDoingIO # {}
      BY <2>7 DEF StopIO
    <3> QED BY <2>1, <2>7, <3>1 DEF StopIO, ClockRight, Rate, LastStamp, HostTicks
  <2> QED BY <1>3, <2>2, <2>3, <2>4, <2>5, <2>6, <2>7 DEF IOCalls, IONext
<1> QED BY <1>1, <1>2, <1>3 DEF DriverNext

\* A time stamp is returned only by GetZeroTimeStamp, and then it is the next point
\* of the grid.
LEMMA StampStep ==
    ASSUME TypeOK, ClockRight, ClockRight', [DriverNext]_driverVars, stamp' # stamp, stamp' # NoStamp
    PROVE  /\ stamp'.hostTime <= hostTime
           /\ stamp'.hostTime = startedAt + HostTicks(Rate, stamp'.number)
           /\ stamp'.number = stamp.number + 1 \/ stamp = NoStamp
<1> USE DEF clock, loopback, mic
<1>1. GetZeroTimeStamp
  <2>1. ~DeviceCalls /\ ~PropertyCalls /\ ~UNCHANGED driverVars
    BY DEF DeviceCalls, ConfigurationChanges, PropertyCalls, driverVars, ioVars
  <2>2. IONext
    BY <2>1 DEF DriverNext, IOCalls
  <2>3. \A c \in IOClients : ~StartIO(c) /\ ~StopIO(c)
    BY DEF StartIO, StopIO
  <2>4. ~TimePasses /\ ~WriteOutputData /\ ~InjectMicAudio
    BY DEF TimePasses, WriteOutputData, InjectMicAudio
  <2> QED BY <2>2, <2>3, <2>4 DEF IONext
<1>2. /\ stamp'.number = numberTimeStamps'
      /\ stamp'.hostTime = anchorHostTime + HostTicks(clockRate, numberTimeStamps')
  BY <1>1 DEF GetZeroTimeStamp
<1>3. /\ clientsDoingIO' # {}
      /\ UNCHANGED <<hostTime, anchorHostTime, clockRate>>
  BY <1>1 DEF GetZeroTimeStamp
<1>4. stamp'.hostTime <= hostTime
  BY <1>2, <1>3 DEF ClockRight, HostTicks
<1>5. stamp'.number = stamp.number + 1 \/ stamp = NoStamp
  <2>1. SUFFICES ASSUME stamp # NoStamp PROVE stamp'.number = stamp.number + 1
    OBVIOUS
  <2>2. stamp = LastStamp /\ stamp' = LastStamp'
    BY <1>1, <1>3, <2>1 DEF ClockRight, GetZeroTimeStamp, LastStamp, HostTicks
  <2>3. numberTimeStamps' # numberTimeStamps
    BY <1>3, <2>2 DEF LastStamp, HostTicks
  <2>4. numberTimeStamps' = numberTimeStamps + 1
    BY <1>1, <2>3 DEF GetZeroTimeStamp, ClockRight
  <2> QED BY <2>2, <2>4 DEF LastStamp
<1> QED BY <1>2, <1>4, <1>5 DEF ClockRight

\* While IO runs the zero time stamps of a device are steady, whichever clients
\* come and go and whatever else the HAL does.
THEOREM ClockSteady == DriverSpec => StampsSteady
<1>1. DriverInit => TypeOK /\ ClockRight
  BY InitType, InitClock DEF DriverInit
<1>2. TypeOK /\ ClockRight /\ [DriverNext]_driverVars => (TypeOK /\ ClockRight)'
  BY NextType, DriverStep, NextClock
<1>3. TypeOK /\ ClockRight /\ (TypeOK /\ ClockRight)' /\ [DriverNext]_driverVars
      => [stamp' # NoStamp =>
             LET rate == IF ioDevice \in Devices THEN mSampleRate[ioDevice] ELSE kSampleRateDefault
             IN  /\ stamp'.hostTime <= hostTime
                 /\ stamp'.hostTime = startedAt + HostTicks(rate, stamp'.number)
                 /\ stamp'.number = stamp.number + 1 \/ stamp = NoStamp]_stamp
  BY StampStep DEF Rate
<1> QED BY <1>1, <1>2, <1>3, PTL DEF DriverSpec, StampsSteady

-----------------------------------------------------------------------------
(* The audio *)

R == kLoopbackRingBufferFrameSize
B == IOBufferFrameSize

LEMMA BufferSizes == R \in Nat \ {0} /\ B \in Nat /\ 2 <= B /\ B <= R
BY DeviceIOAssumption DEF R, B

LEMMA MaxIs ==
    ASSUME NEW S, NEW m \in S, S \subseteq Int, \A x \in S : x <= m
    PROVE  Max(S) = m
<1>1. m >= m /\ \A y \in S : m >= y
  OBVIOUS
<1>2. Max(S) \in S /\ \A y \in S : Max(S) >= y
  BY <1>1 DEF Max
<1>3. Max(S) \in Int /\ m \in Int /\ Max(S) >= m /\ Max(S) <= m
  BY <1>2
<1> QED BY <1>3

LEMMA MinIs ==
    ASSUME NEW S, NEW m \in S, S \subseteq Int, \A x \in S : m <= x
    PROVE  Min(S) = m
<1>1. \A y \in S : m <= y
  OBVIOUS
<1>2. Min(S) \in S /\ \A y \in S : Min(S) <= y
  BY <1>1 DEF Min
<1>3. Min(S) \in Int /\ m \in Int /\ Min(S) <= m /\ Min(S) >= m
  BY <1>2
<1> QED BY <1>3

LEMMA MaxOfTwo ==
    ASSUME NEW a \in Int, NEW b \in Int
    PROVE  Max({a, b}) = IF a <= b THEN b ELSE a
<1>1. CASE a <= b
  BY <1>1, MaxIs
<1>2. CASE ~(a <= b)
  BY <1>2, MaxIs
<1> QED BY <1>1, <1>2

LEMMA MinOfTwo ==
    ASSUME NEW a \in Int, NEW b \in Int
    PROVE  Min({a, b}) = IF a <= b THEN a ELSE b
<1>1. CASE a <= b
  BY <1>1, MinIs
<1>2. CASE ~(a <= b)
  BY <1>2, MinIs
<1> QED BY <1>1, <1>2

\* Two times less than the ring apart have places of their own.
LEMMA PlacesDiffer ==
    ASSUME NEW c \in Nat \ {0}, NEW s \in Nat, NEW t \in Nat, s < t, t < s + c
    PROVE  s % c # t % c
<1> DEFINE p == s \div c
           q == t \div c
<1>1. /\ p \in Int /\ q \in Int /\ s % c \in 0 .. c - 1 /\ t % c \in 0 .. c - 1
      /\ s = c * p + (s % c) /\ t = c * q + (t % c)
  OBVIOUS
<1> HIDE DEF p, q
<1> SUFFICES ASSUME s % c = t % c PROVE FALSE
  OBVIOUS
<1> DEFINE d == q - p
<1>2. d \in Int /\ t - s = c * d
  BY <1>1
<1>3. 0 < c * d /\ c * d < c
  BY <1>2
<1> HIDE DEF d
<1>4. CASE d <= 0
  BY <1>2, <1>3, <1>4
<1>5. CASE d >= 1
  BY <1>2, <1>3, <1>5
<1> QED BY <1>2, <1>4, <1>5

\* A ring that holds less than it can, between its bounds.
RingOK(ring) ==
    /\ ring.start \in Nat /\ ring.end \in Nat
    /\ ring.start <= ring.end /\ ring.end <= ring.start + R
    /\ DOMAIN ring.frames = 0 .. R - 1

\* Storing n frames from a time on: they are there, what is within the bounds and
\* was before is kept, and what was skipped is silent.
LEMMA StoreHolds ==
    ASSUME NEW ring, RingOK(ring), NEW from \in Nat, NEW n \in Nat, n <= R,
           NEW data, Len(data) = n
    PROVE  LET new == Store(ring, from, data)
               to == from + n
           IN  /\ RingOK(new)
               /\ new.end = to
               /\ new.start = IF from < ring.end THEN from
                              ELSE IF to - ring.start <= R THEN ring.start ELSE to - R
               /\ \A t \in new.start .. to - 1 :
                    new.frames[t % R] = IF t >= from THEN data[t - from + 1]
                                        ELSE IF t < ring.end THEN ring.frames[t % R] ELSE Silence
<1> DEFINE to == from + n
           bounds == StoreBounds(ring, from, to)
           At(place, times) == {t \in times : t % R = place}
           new == Store(ring, from, data)
<1>1. R \in Nat \ {0} /\ to \in Nat /\ from <= to /\ to <= from + R
  BY BufferSizes
<1>2. /\ bounds[1] = IF from < ring.end THEN from
                     ELSE IF to - ring.start <= R THEN ring.start ELSE to - R
      /\ bounds[1] \in Nat /\ bounds[2] \in Nat
      /\ bounds[1] <= bounds[2] /\ bounds[2] <= from /\ to <= bounds[1] + R
      /\ bounds[1] < from => bounds[1] >= ring.start /\ bounds[2] >= ring.end
                               /\ (bounds[2] = ring.end \/ bounds[2] = bounds[1])
  <2>1. /\ ring.start \in Nat /\ ring.end \in Nat
        /\ ring.start <= ring.end /\ ring.end <= ring.start + R
    BY DEF RingOK
  <2>2. CASE from < ring.end
    <3>1. bounds = <<from, from>>
      BY <2>2 DEF StoreBounds
    <3> HIDE DEF bounds, to
    <3> QED BY <1>1, <2>1, <2>2, <3>1
  <2>3. CASE ~(from < ring.end) /\ to - ring.start <= R
    <3>1. bounds = <<ring.start, ring.end>>
      BY <2>3 DEF StoreBounds, R
    <3> HIDE DEF bounds, to
    <3> QED BY <1>1, <2>1, <2>3, <3>1
  <2>4. CASE ~(from < ring.end) /\ ~(to - ring.start <= R)
    <3>1. to - R \in Int /\ ring.end \in Int
      BY <1>1, <2>1
    <3>2. bounds = <<to - R, Max({to - R, ring.end})>>
      BY <2>4 DEF StoreBounds, R
    <3>3. Max({to - R, ring.end}) = IF to - R <= ring.end THEN ring.end ELSE to - R
      BY <3>1, MaxOfTwo
    <3> HIDE DEF bounds, to
    <3> QED BY SMTT(30), <1>1, <2>1, <2>4, <3>2, <3>3
  <2> QED BY <2>2, <2>3, <2>4
<1>3. new = [frames |-> [place \in DOMAIN ring.frames |->
                 IF At(place, from .. to - 1) # {}
                 THEN data[Max(At(place, from .. to - 1)) - from + 1]
                 ELSE IF At(place, bounds[2] .. from - 1) # {} THEN Silence ELSE ring.frames[place]],
             start |-> bounds[1], end |-> to]
  BY DEF Store, R
<1>4. new.start = bounds[1] /\ new.end = to /\ DOMAIN new.frames = 0 .. R - 1
  BY <1>3 DEF RingOK
<1>5. \A place \in 0 .. R - 1 :
        new.frames[place] =
                 IF At(place, from .. to - 1) # {}
                 THEN data[Max(At(place, from .. to - 1)) - from + 1]
                 ELSE IF At(place, bounds[2] .. from - 1) # {} THEN Silence ELSE ring.frames[place]
  BY <1>3 DEF RingOK
<1> HIDE DEF new, bounds, to
<1>6. ASSUME NEW t \in bounds[1] .. to - 1
      PROVE  new.frames[t % R] = IF t >= from THEN data[t - from + 1]
                                 ELSE IF t < ring.end THEN ring.frames[t % R] ELSE Silence
  <2>1. t \in Nat /\ t % R \in 0 .. R - 1
    BY <1>1, <1>2
  <2>2. ASSUME NEW u \in Nat, u % R = t % R, u < t + R, t < u + R
        PROVE  u = t
    <3>1. ~(u < t) /\ ~(t < u)
      BY <1>1, <2>1, <2>2, PlacesDiffer
    <3> QED BY <2>1, <3>1
  <2>3. \A u \in bounds[1] .. to - 1 : u \in Nat /\ u < t + R /\ t < u + R
    BY SMTT(40), <1>1, <1>2, <2>1
  <2>4. CASE t >= from
    <3>1. At(t % R, from .. to - 1) = {t}
      BY SMTT(40), <1>1, <1>2, <2>1, <2>2, <2>3, <2>4
    <3>2. Max({t}) = t
      <4>1. t \in {t} /\ {t} \subseteq Int /\ \A x \in {t} : x <= t
        BY <2>1
      <4> QED BY <4>1, MaxIs
    <3> QED BY <1>5, <2>1, <2>4, <3>1, <3>2
  <2>5. CASE ~(t >= from)
    <3>1. At(t % R, from .. to - 1) = {}
      BY <1>1, <1>2, <2>1, <2>2, <2>3, <2>5
    <3>2. CASE t < ring.end
      <4>1. bounds[2] >= ring.end /\ bounds[2] \in Nat /\ ring.end \in Nat /\ bounds[2] >= bounds[1]
        BY <1>1, <1>2, <2>1, <2>5 DEF RingOK
      <4>2. ASSUME NEW u \in bounds[2] .. from - 1
            PROVE  u # t /\ u \in bounds[1] .. to - 1
        <5>1. u \in Int /\ bounds[2] <= u /\ u < from
          BY <4>1
        <5>2. bounds[1] \in Int /\ from <= to /\ to \in Int
          BY <1>1, <1>2
        <5> QED BY <2>1, <3>2, <4>1, <5>1, <5>2
      <4>3. At(t % R, bounds[2] .. from - 1) = {}
        BY <2>2, <2>3, <4>2
      <4> QED BY <1>5, <2>1, <2>5, <3>1, <3>2, <4>3
    <3>3. CASE ~(t < ring.end)
      <4>1. bounds[2] = ring.end \/ bounds[2] = bounds[1]
        BY <1>1, <1>2, <2>1, <2>5
      <4>2. t \in bounds[2] .. from - 1
        <5>1. bounds[1] <= t /\ t < from /\ bounds[1] \in Int /\ bounds[2] \in Int
          BY <1>2, <2>1, <2>5
        <5>2. ring.end \in Int /\ ring.end <= t
          BY <2>1, <3>3 DEF RingOK
        <5> QED BY <2>1, <4>1, <5>1, <5>2
      <4>3. t \in At(t % R, bounds[2] .. from - 1)
        BY <4>2
      <4> QED BY <1>5, <2>1, <2>5, <3>1, <3>3, <4>3
    <3> QED BY <3>2, <3>3
  <2> QED BY <2>4, <2>5
<1>7. RingOK(new)
  BY <1>1, <1>2, <1>4 DEF RingOK
<1> QED BY <1>2, <1>4, <1>6, <1>7 DEF new, to

\* Of a session, what the ring still has room for is in it: the frames that were
\* written, and silence where the HAL skipped some.
LoopbackRight ==
    LET ring == mLoopbackRingBuffer
    IN  /\ RingOK(ring)
        /\ ring.end = 0 \/ ring.end >= 2
        /\ written \subseteq Nat
        /\ written # {} =>
             /\ ring.end - 1 \in written
             /\ \A t \in written : t < ring.end /\ (ring.end - R <= t => ring.start <= t)
             /\ \A t \in ring.start .. ring.end - 1 :
                  ring.frames[t % R] = IF t \in written THEN <<session, t>> ELSE Silence

MicFrames == {<<"mic", k>> : k \in Nat}

\* The frames that were injected last are in the microphone's ring, in order.
MicRight ==
    LET ring == mMicRingBuffer
    IN  /\ RingOK(ring)
        /\ mMicSampleTime \in Nat /\ numberInjected \in Nat
        /\ ring.end = mMicSampleTime
        /\ ring.start = 0 \/ ring.start = mMicSampleTime - R
        /\ injected \in Seq(MicFrames)
        /\ Len(injected) = IF mMicSampleTime < B THEN mMicSampleTime ELSE B
        /\ \A i \in 1 .. Len(injected) :
             ring.frames[((mMicSampleTime - Len(injected)) + (i - 1)) % R] = injected[i]

LEMMA AllocatedOK == RingOK(Allocated) /\ Allocated.start = 0 /\ Allocated.end = 0
BY BufferSizes DEF Allocated, RingOK, R

LEMMA LastWritten ==
    ASSUME LoopbackRight, written # {}
    PROVE  Max(written) = mLoopbackRingBuffer.end - 1
<1>1. mLoopbackRingBuffer.end \in Nat
  BY DEF LoopbackRight, RingOK
<1>2. /\ mLoopbackRingBuffer.end - 1 \in written /\ written \subseteq Int
      /\ \A t \in written : t <= mLoopbackRingBuffer.end - 1
  BY <1>1 DEF LoopbackRight
<1> QED BY <1>2, MaxIs

LEMMA WriteKeepsLoopback ==
    ASSUME LoopbackRight, WriteOutputData
    PROVE  LoopbackRight'
<1> DEFINE ring == mLoopbackRingBuffer
<1>1. PICK t \in OutputTimes :
        /\ mLoopbackRingBuffer' = Store(ring, t, [i \in 1 .. B |-> <<session, t + i - 1>>])
        /\ written' = written \cup (t .. t + B - 1)
  BY DEF WriteOutputData, B
<1>2. session' = session
  BY DEF WriteOutputData
<1>3. /\ RingOK(ring) /\ ring.start \in Nat /\ ring.end \in Nat
      /\ ring.start <= ring.end /\ ring.end <= ring.start + R
      /\ ring.end = 0 \/ ring.end >= 2
  BY DEF LoopbackRight, RingOK
<1>4. R \in Nat \ {0} /\ B \in Nat /\ 2 <= B /\ B <= R
  BY BufferSizes
<1>5. /\ t \in Nat
      /\ IF written = {} THEN t <= 1 ELSE t = ring.end \/ t = ring.end + 1
  <2>1. CASE written = {}
    BY <2>1 DEF OutputTimes
  <2>2. CASE written # {}
    <3>1. t \in {Max(written) + 1 + late : late \in 0 .. 1}
      BY <2>2 DEF OutputTimes
    <3>2. Max(written) + 1 = ring.end
      BY <1>3, <2>2, LastWritten
    <3> QED BY <1>3, <2>2, <3>1, <3>2
  <2> QED BY <2>1, <2>2
<1> DEFINE data == [i \in 1 .. B |-> <<session, t + i - 1>>]
           new == Store(ring, t, data)
           to == t + B
<1>6. Len(data) = B
  BY <1>4
<1>7. \A u \in Int : t <= u /\ u < to => data[u - t + 1] = <<session, u>>
  <2> TAKE u \in Int
  <2> HAVE t <= u /\ u < to
  <2>1. (u - t) + 1 \in 1 .. B /\ t + ((u - t) + 1) - 1 = u
    BY <1>4, <1>5
  <2>2. data[(u - t) + 1] = <<session, t + ((u - t) + 1) - 1>>
    BY <2>1
  <2>3. (u - t) + 1 = u - t + 1
    OBVIOUS
  <2> QED BY <2>1, <2>2, <2>3
<1> HIDE DEF data, ring
<1>8. /\ RingOK(new) /\ new.end = to
      /\ new.start = IF t < ring.end THEN t
                     ELSE IF to - ring.start <= R THEN ring.start ELSE to - R
      /\ \A u \in new.start .. to - 1 :
           new.frames[u % R] = IF u >= t THEN data[u - t + 1]
                               ELSE IF u < ring.end THEN ring.frames[u % R] ELSE Silence
  <2>1. B <= R /\ B \in Nat /\ t \in Nat /\ RingOK(ring) /\ Len(data) = B
    BY <1>3, <1>4, <1>5, <1>6
  <2> HIDE DEF B
  <2> QED BY <2>1, StoreHolds
<1>9. mLoopbackRingBuffer' = new /\ written' = written \cup (t .. to - 1)
  BY <1>1, <1>4, <1>5 DEF data, ring
<1> HIDE DEF new, to
<1>10. to \in Nat /\ to = t + B /\ to - 1 \in t .. to - 1 /\ to >= 2
  BY <1>4, <1>5 DEF to
<1>11. new.start \in Nat /\ new.start <= to
  BY <1>8 DEF RingOK
<1>12. written \subseteq Nat /\ \A u \in written : u < t
  BY <1>3, <1>5 DEF LoopbackRight, ring
<1>13. ASSUME NEW u \in written'
       PROVE  u < to /\ (to - R <= u => new.start <= u)
  <2>1. CASE u \in t .. to - 1
    <3>1. new.start <= t
      BY <1>3, <1>4, <1>5, <1>8, <1>10
    <3> QED BY <1>5, <1>10, <1>11, <2>1, <3>1
  <2>2. CASE u \in written
    <3>1. u \in Nat /\ u < t
      BY <1>12, <2>2
    <3>2. ring.end <= t /\ (ring.end - R <= u => ring.start <= u)
      BY <1>3, <1>5, <2>2 DEF LoopbackRight, ring
    <3> QED BY <1>3, <1>4, <1>5, <1>8, <1>10, <3>1, <3>2
  <2> QED BY <1>9, <2>1, <2>2
<1>14. ASSUME NEW u \in new.start .. to - 1
       PROVE  new.frames[u % R] = IF u \in written' THEN <<session, u>> ELSE Silence
  <2>1. u \in Int /\ new.start <= u /\ u < to
    BY <1>10, <1>11
  <2>2. CASE u >= t
    <3>1. u \in written'
      BY <1>5, <1>9, <1>10, <2>1, <2>2
    <3> QED BY <1>5, <1>7, <1>8, <1>10, <2>1, <2>2, <3>1 DEF to
  <2>3. CASE u < t
    <3>1. u \in written' <=> u \in written
      BY <1>5, <1>9, <1>10, <2>1, <2>3
    <3>2. ~(t < ring.end) /\ ring.start <= u
      BY <1>3, <1>4, <1>5, <1>8, <1>10, <2>1, <2>3
    <3>3. new.frames[u % R] = IF u < ring.end THEN ring.frames[u % R] ELSE Silence
      BY <1>5, <1>8, <2>1, <2>3
    <3>4. CASE written = {}
      <4>1. ring.end = 0
        BY <1>3, <1>5, <3>2, <3>4
      <4> QED BY <1>3, <2>1, <3>1, <3>2, <3>3, <3>4, <4>1
    <3>5. CASE written # {}
      <4>1. u < ring.end => ring.frames[u % R] = IF u \in written THEN <<session, u>> ELSE Silence
        BY <1>3, <2>1, <3>2, <3>5 DEF LoopbackRight, ring
      <4>2. u \in written => u < ring.end
        BY <3>5 DEF LoopbackRight, ring
      <4> QED BY <3>1, <3>3, <4>1, <4>2
    <3> QED BY <3>4, <3>5
  <2> QED BY <1>5, <2>1, <2>2, <2>3
<1>15. written' \subseteq Nat
  <2>1. \A u \in t .. to - 1 : u \in Nat
    BY <1>5, <1>10
  <2> QED BY <1>9, <1>12, <2>1
<1>16. to - 1 \in written'
  BY <1>9, <1>10
<1> QED BY <1>2, <1>8, <1>9, <1>10, <1>13, <1>14, <1>15, <1>16 DEF LoopbackRight

LEMMA InjectKeepsMic ==
    ASSUME MicRight, InjectMicAudio
    PROVE  MicRight'
<1> DEFINE half == R \div 2
<1>1. R \in Nat \ {0} /\ B \in Nat /\ 2 <= B /\ B <= R /\ half \in Nat /\ half <= R
  BY BufferSizes
<1> HIDE DEF half
<1>2. PICK count \in 1 .. R :
        LET n == Min({count, half})
            data == [i \in 1 .. n |-> <<"mic", numberInjected + i>>]
            all == injected \o data
        IN  /\ mMicRingBuffer' = Store(mMicRingBuffer, mMicSampleTime, data)
            /\ mMicSampleTime' = mMicSampleTime + n
            /\ numberInjected' = numberInjected + n
            /\ injected' = SubSeq(all, Max({1, Len(all) - B + 1}), Len(all))
  BY DEF InjectMicAudio, R, B, half
<1>3. PICK n \in Nat : n = Min({count, half})
  BY <1>1, MinOfTwo
<1>4. n <= R
  BY <1>1, <1>3, MinOfTwo
<1>5. PICK from \in Nat, k \in Nat, last \in Seq(MicFrames) :
        from = mMicSampleTime /\ k = numberInjected /\ last = injected
  BY DEF MicRight
<1>4a. PICK ring : ring = mMicRingBuffer
  OBVIOUS
<1> DEFINE data == [i \in 1 .. n |-> <<"mic", k + i>>]
           all == last \o data
           first == IF B <= Len(all) THEN (Len(all) - B) + 1 ELSE 1
           new == Store(ring, from, data)
           to == from + n
<1>6. /\ RingOK(ring) /\ ring.end = from /\ (ring.start = 0 \/ ring.start = from - R)
      /\ ring.start \in Nat /\ from <= ring.start + R
      /\ Len(last) = IF from < B THEN from ELSE B
      /\ Len(last) \in Nat
      /\ \A i \in 1 .. Len(last) : ring.frames[((from - Len(last)) + (i - 1)) % R] = last[i]
  <2>1. Len(last) \in Nat
    BY LenProperties
  <2> QED BY <1>5, <1>4a, <2>1 DEF MicRight, RingOK
<1>7. /\ data \in Seq(MicFrames) /\ Len(data) = n
      /\ \A i \in 1 .. n : data[i] \in MicFrames
  <2>1. \A i \in 1 .. n : <<"mic", k + i>> \in MicFrames
    BY DEF MicFrames
  <2>2. data \in [1 .. n -> MicFrames]
    BY <2>1
  <2>3. data \in Seq(MicFrames)
    BY <2>2, SeqDef
  <2>4. Len(data) = n
    BY <2>2, <2>3, LenProperties
  <2> QED BY <2>2, <2>3, <2>4
<1> HIDE DEF data
<1>8. /\ all \in Seq(MicFrames) /\ Len(all) = Len(last) + n
      /\ \A i \in 1 .. Len(last) + n :
           all[i] = IF i <= Len(last) THEN last[i] ELSE data[i - Len(last)]
  BY <1>7, ConcatProperties
<1> HIDE DEF all
<1>9. /\ new.end = to /\ RingOK(new)
      /\ new.start = IF from < ring.end THEN from
                     ELSE IF to - ring.start <= R THEN ring.start ELSE to - R
      /\ \A u \in new.start .. to - 1 :
           new.frames[u % R] = IF u >= from THEN data[u - from + 1]
                               ELSE IF u < ring.end THEN ring.frames[u % R] ELSE Silence
  BY <1>4, <1>6, <1>7, StoreHolds
<1>10. Max({1, Len(all) - B + 1}) = first
  <2>1. Len(all) \in Nat
    BY <1>6, <1>8
  <2>2. Len(all) - B + 1 = (Len(all) - B) + 1 /\ (Len(all) - B) + 1 \in Int
    BY <1>1, <2>1
  <2> QED BY <1>1, <2>1, <2>2, MaxOfTwo
<1>11. /\ mMicRingBuffer' = new /\ mMicSampleTime' = to /\ numberInjected' = k + n
       /\ injected' = SubSeq(all, first, Len(all))
  BY <1>2, <1>3, <1>5, <1>4a, <1>10 DEF data, all
<1> HIDE DEF first, new, to
<1>12. /\ first \in 1 .. Len(all) + 1 /\ Len(all) \in Nat /\ to \in Nat /\ to = from + n
       /\ (Len(all) - first) + 1 = IF Len(all) < B THEN Len(all) ELSE B
  <2>1. Len(all) \in Nat /\ to \in Nat
    BY <1>6, <1>8 DEF to
  <2>2. CASE B <= Len(all)
    <3>1. first = (Len(all) - B) + 1
      BY <2>2 DEF first
    <3> QED BY <1>1, <2>1, <2>2, <3>1 DEF to
  <2>3. CASE ~(B <= Len(all))
    <3>1. first = 1
      BY <2>3 DEF first
    <3> QED BY <1>1, <2>1, <2>3, <3>1 DEF to
  <2> QED BY <2>2, <2>3
<1>13. /\ injected' \in Seq(MicFrames)
       /\ Len(injected') = IF first <= Len(all) THEN Len(all) - first + 1 ELSE 0
       /\ \A i \in 1 .. Len(all) - first + 1 : injected'[i] = all[first + i - 1]
  BY <1>8, <1>11, <1>12, SubSeqProperties
<1>14. Len(injected') = (Len(all) - first) + 1 /\ Len(injected') \in Nat
  BY <1>12, <1>13
<1>15. Len(injected') = IF to < B THEN to ELSE B
  BY <1>1, <1>6, <1>8, <1>12, <1>14
<1>16. new.start = 0 \/ new.start = to - R
  <2>1. ~(from < ring.end)
    BY <1>6
  <2>2. CASE to - ring.start <= R
    <3>1. new.start = ring.start
      BY <1>9, <2>1, <2>2
    <3>2. CASE ring.start = from - R
      <4>1. n <= 0
        BY <1>1, <1>12, <2>2, <3>2
      <4>2. to = from
        BY <1>12, <4>1
      <4> QED BY <3>1, <3>2, <4>2
    <3> QED BY <1>6, <3>1, <3>2
  <2>3. CASE ~(to - ring.start <= R)
    BY <1>9, <2>1, <2>3
  <2> QED BY <2>2, <2>3
<1>17. ASSUME NEW i \in 1 .. Len(injected')
       PROVE  new.frames[((to - Len(injected')) + (i - 1)) % R] = injected'[i]
  <2> DEFINE u == (to - Len(injected')) + (i - 1)
             j == first + (i - 1)
  <2>1. /\ u \in Int /\ u < to /\ to - R <= u /\ 0 <= u
        /\ j \in 1 .. Len(all) /\ j - Len(last) = (u - from) + 1
        /\ u = (from - Len(last)) + (j - 1)
    BY <1>1, <1>6, <1>8, <1>12, <1>14, <1>15
  <2>2. injected'[i] = all[j]
    <3>1. i \in 1 .. Len(all) - first + 1 /\ first + i - 1 = first + (i - 1)
      BY <1>12, <1>14
    <3> QED BY <1>13, <3>1
  <2> HIDE DEF u, j
  <2>3. u \in new.start .. to - 1
    BY SMTT(30), <1>1, <1>12, <1>16, <2>1
  <2>4. CASE j <= Len(last)
    <3>1. j \in 1 .. Len(last) + n /\ j \in 1 .. Len(last) /\ Len(last) \in Int /\ j \in Int
      BY <1>6, <1>8, <2>1, <2>4
    <3>1a. all[j] = last[j]
      BY <1>8, <2>4, <3>1
    <3>1b. u < from
      BY <2>1, <2>4, <3>1
    <3>2. new.frames[u % R] = ring.frames[u % R]
      <4>1. ~(u >= from) /\ u < ring.end
        BY <1>6, <2>1, <3>1b
      <4> QED BY <1>9, <2>3, <4>1
    <3> QED BY <1>6, <2>1, <2>2, <3>1, <3>1a, <3>2 DEF u
  <2>5. CASE ~(j <= Len(last))
    <3>1. j \in 1 .. Len(last) + n /\ Len(last) \in Int /\ j \in Int
      BY <1>6, <1>8, <2>1
    <3>2. all[j] = data[j - Len(last)]
      BY <1>8, <2>5, <3>1
    <3>3. u >= from
      BY <2>1, <2>5, <3>1
    <3>4. new.frames[u % R] = data[u - from + 1]
      BY <1>9, <2>3, <3>3
    <3>5. (u - from) + 1 = u - from + 1
      OBVIOUS
    <3> QED BY <2>1, <2>2, <3>2, <3>4, <3>5 DEF u
  <2> QED BY <2>4, <2>5
<1>18. \A i \in 1 .. Len(injected') :
         mMicRingBuffer'.frames[((mMicSampleTime' - Len(injected')) + (i - 1)) % R] = injected'[i]
  BY <1>11, <1>17
<1>19. /\ RingOK(mMicRingBuffer') /\ mMicSampleTime' \in Nat /\ numberInjected' \in Nat
       /\ mMicRingBuffer'.end = mMicSampleTime'
       /\ mMicRingBuffer'.start = 0 \/ mMicRingBuffer'.start = mMicSampleTime' - R
       /\ injected' \in Seq(MicFrames)
       /\ Len(injected') = IF mMicSampleTime' < B THEN mMicSampleTime' ELSE B
  BY <1>9, <1>11, <1>12, <1>13, <1>15, <1>16
<1> QED BY <1>18, <1>19 DEF MicRight, B, R

LEMMA InitAudio == DriverInit => LoopbackRight /\ MicRight
<1> SUFFICES ASSUME IOInit PROVE LoopbackRight /\ MicRight
  BY DEF DriverInit
<1>1. << >> \in Seq(MicFrames) /\ Len(<< >>) = 0 /\ 0 < B
  BY BufferSizes, EmptySeq
<1>2. LoopbackRight
  BY AllocatedOK DEF IOInit, LoopbackRight
<1>3. MicRight
  BY <1>1, AllocatedOK DEF IOInit, MicRight
<1> QED BY <1>2, <1>3

LEMMA NextAudio ==
    ASSUME LoopbackRight, MicRight, [DriverNext]_driverVars
    PROVE  LoopbackRight' /\ MicRight'
<1> USE DEF clock, loopback, mic, ioVars
<1>1. CASE UNCHANGED <<loopback, mic>>
  <2>1. LoopbackRight'
    BY <1>1 DEF LoopbackRight
  <2>2. MicRight'
    BY <1>1 DEF MicRight
  <2> QED BY <2>1, <2>2
<1>2. CASE InitLoopback /\ numberInjected' = numberInjected
  <2>1. << >> \in Seq(MicFrames) /\ Len(<< >>) = 0 /\ 0 < B
    BY BufferSizes, EmptySeq
  <2>2. LoopbackRight'
    BY <1>2, AllocatedOK DEF InitLoopback, LoopbackRight
  <2>3. MicRight'
    BY <1>2, <2>1, AllocatedOK DEF InitLoopback, MicRight
  <2> QED BY <2>2, <2>3
<1>3. CASE WriteOutputData
  <2>1. MicRight'
    BY <1>3 DEF WriteOutputData, MicRight
  <2> QED BY <1>3, <2>1, WriteKeepsLoopback
<1>4. CASE InjectMicAudio
  <2>1. LoopbackRight'
    BY <1>4 DEF InjectMicAudio, LoopbackRight
  <2> QED BY <1>4, <2>1, InjectKeepsMic
<1>5. ASSUME NEW c \in IOClients, StartIO(c)
      PROVE  LoopbackRight' /\ MicRight'
  <2>1. MicRight'
    BY <1>5 DEF StartIO, MicRight
  <2>2. LoopbackRight'
    <3>1. UNCHANGED mLoopbackRingBuffer /\ (UNCHANGED <<session, written>> \/ written' = {})
      BY <1>5 DEF StartIO
    <3> QED BY <3>1 DEF LoopbackRight
  <2> QED BY <2>1, <2>2
<1>6. \/ UNCHANGED <<loopback, mic>>
      \/ InitLoopback /\ numberInjected' = numberInjected
      \/ WriteOutputData \/ InjectMicAudio
      \/ \E c \in IOClients : StartIO(c)
  <2>1. CASE DeviceCalls
    BY <2>1 DEF DeviceCalls, ConfigurationChanges
  <2>2. CASE PropertyCalls \/ UNCHANGED driverVars
    BY <2>2 DEF PropertyCalls, driverVars
  <2>3. CASE IOCalls
    BY <2>3 DEF IOCalls, IONext, TimePasses, GetZeroTimeStamp, StopIO
  <2> QED BY <2>1, <2>2, <2>3 DEF DriverNext
<1> QED BY <1>1, <1>2, <1>3, <1>4, <1>5, <1>6

\* What a client reads of the loopback.
LEMMA LoopbackRead ==
    ASSUME LoopbackRight, written # {}, NEW x \in Nat
    PROVE  (IF x \in mLoopbackRingBuffer.start .. mLoopbackRingBuffer.end - 1
            THEN mLoopbackRingBuffer.frames[x % R] ELSE Silence)
             = IF x \in written /\ x > Max(written) - R THEN <<session, x>> ELSE Silence
<1> DEFINE ring == mLoopbackRingBuffer
<1>1. /\ ring.start \in Nat /\ ring.end \in Nat /\ ring.end <= ring.start + R
      /\ Max(written) = ring.end - 1 /\ R \in Nat
  BY BufferSizes, LastWritten DEF LoopbackRight, RingOK
<1>2. /\ x \in ring.start .. ring.end - 1 =>
           ring.frames[x % R] = IF x \in written THEN <<session, x>> ELSE Silence
      /\ x \in written => x < ring.end /\ (ring.end - R <= x => ring.start <= x)
  BY DEF LoopbackRight
<1> HIDE DEF ring
<1>3. x > Max(written) - R <=> ring.end - R <= x
  BY <1>1
<1>4. x \in ring.start .. ring.end - 1 => ring.end - R <= x
  BY <1>1
<1>5. x \in ring.start .. ring.end - 1 <=> ring.start <= x /\ x < ring.end
  BY <1>1
<1>6. (IF x \in ring.start .. ring.end - 1 THEN ring.frames[x % R] ELSE Silence)
        = IF x \in written /\ x > Max(written) - R THEN <<session, x>> ELSE Silence
  BY <1>2, <1>3, <1>4, <1>5
<1> QED BY <1>6 DEF ring

\* What it hears of the microphone.
LEMMA MicRead ==
    ASSUME MicRight
    PROVE  /\ mMicSampleTime >= B <=> Len(injected) = B
           /\ Len(injected) = B => Fetch(mMicRingBuffer, B, mMicSampleTime - B) = injected
<1> DEFINE ring == mMicRingBuffer
<1>1. /\ R \in Nat \ {0} /\ B \in Nat /\ 2 <= B /\ B <= R
      /\ mMicSampleTime \in Nat /\ ring.start \in Nat /\ ring.end = mMicSampleTime
      /\ ring.start = 0 \/ ring.start = mMicSampleTime - R
      /\ Len(injected) = IF mMicSampleTime < B THEN mMicSampleTime ELSE B
  BY BufferSizes DEF MicRight, RingOK
<1> HIDE DEF ring
<1>2. mMicSampleTime >= B <=> Len(injected) = B
  BY <1>1
<1>3. ASSUME Len(injected) = B
      PROVE  Fetch(mMicRingBuffer, B, mMicSampleTime - B) = injected
  <2> DEFINE first == mMicSampleTime - B
  <2>1. first \in Nat
    BY <1>1, <1>2, <1>3
  <2>2. Max({0, first}) = first
    BY <2>1, MaxOfTwo
  <2> HIDE DEF first
  <2>3. Fetch(ring, B, first) =
          [i \in 1 .. B |-> IF first + i - 1 \in ring.start .. ring.end - 1
                            THEN ring.frames[(first + i - 1) % R] ELSE Silence]
    BY <2>2 DEF Fetch, R
  <2>4. ASSUME NEW i \in 1 .. B
        PROVE  /\ first + i - 1 \in ring.start .. ring.end - 1
               /\ ring.frames[(first + i - 1) % R] = injected[i]
    <3>1. first + i - 1 = first + (i - 1)
      OBVIOUS
    <3>2. first + (i - 1) \in ring.start .. ring.end - 1
      BY <1>1, <2>1 DEF first
    <3>3. ring.frames[(first + (i - 1)) % R] = injected[i]
      BY <1>3 DEF MicRight, first, ring
    <3> QED BY <3>1, <3>2, <3>3
  <2>5. injected = [i \in 1 .. B |-> injected[i]]
    BY <1>3, LenProperties DEF MicRight
  <2>6. Fetch(ring, B, first) = [i \in 1 .. B |-> injected[i]]
    BY <2>3, <2>4
  <2> QED BY <2>5, <2>6 DEF first, ring
<1> QED BY <1>2, <1>3

\* Whatever the size of the ring and of a cycle, a client hears what was written
\* last for the times it asks for, nothing of what was there before, and on top
\* of it the microphone's last frames if it records.
THEOREM ReadsAreFaithful == DriverSpec => []ReadsFaithful
<1>1. LoopbackRight /\ MicRight => ReadsFaithful
  <2> SUFFICES ASSUME LoopbackRight, MicRight, ioDevice \in Devices,
                      NEW c \in clientsDoingIO, NEW t \in 0 .. MaxSampleTime
               PROVE  LET data == ReadInputData(c, t)
                          Kept(time) == time \in written /\ time > Max(written) - R
                      IN  /\ written # {} =>
                               \A i \in 1 .. B :
                                 data.loopback[i] = IF Kept(t + i - 1) THEN <<session, t + i - 1>> ELSE Silence
                          /\ data.mic = IF /\ ioDevice = Main /\ c \notin PassthroughHosts
                                           /\ Len(injected) = B
                                        THEN injected ELSE << >>
    BY DEF ReadsFaithful, R, B
  <2>1. t \in Nat /\ Max({0, t}) = t
    BY DeviceIOAssumption, MaxOfTwo
  <2>2. ASSUME written # {}, NEW i \in 1 .. B
        PROVE  ReadInputData(c, t).loopback[i]
                 = IF t + i - 1 \in written /\ t + i - 1 > Max(written) - R
                   THEN <<session, t + i - 1>> ELSE Silence
    <3>1. t + i - 1 \in Nat
      BY <2>1
    <3>2. ReadInputData(c, t).loopback[i]
            = IF t + i - 1 \in mLoopbackRingBuffer.start .. mLoopbackRingBuffer.end - 1
              THEN mLoopbackRingBuffer.frames[(t + i - 1) % R] ELSE Silence
      BY <2>1 DEF ReadInputData, Fetch, R, B
    <3> QED BY <2>2, <3>1, <3>2, LoopbackRead
  <2>3. ReadInputData(c, t).mic =
          IF ioDevice = Main /\ c \notin PassthroughHosts /\ Len(injected) = B
          THEN injected ELSE << >>
    BY MicRead DEF ReadInputData, SupportsMicMix, B
  <2> QED BY <2>2, <2>3
<1>2. DriverInit => LoopbackRight /\ MicRight
  BY InitAudio
<1>3. LoopbackRight /\ MicRight /\ [DriverNext]_driverVars => (LoopbackRight /\ MicRight)'
  BY NextAudio
<1> QED BY <1>1, <1>2, <1>3, PTL DEF DriverSpec

-----------------------------------------------------------------------------
(* What the driver's objects answer *)

\* A function laid over another, as each class is over its base class.
LEMMA Over ==
    ASSUME NEW f, NEW g, NEW s
    PROVE  /\ s \in DOMAIN (f ++ g) <=> s \in DOMAIN f \/ s \in DOMAIN g
           /\ s \in DOMAIN f => (f ++ g)[s] = f[s]
           /\ s \notin DOMAIN f /\ s \in DOMAIN g => (f ++ g)[s] = g[s]
BY DEF ++

LEMMA AllIs ==
    ASSUME NEW S, NEW v
    PROVE  DOMAIN All(S, v) = S /\ \A s \in S : All(S, v)[s] = v
BY DEF All

\* sizes and all answer for each of the selectors, with the same size and data.
Tells(sizes, all, selectors, size, data) ==
    \A s \in selectors : /\ s \in DOMAIN sizes /\ sizes[s] = size
                         /\ s \in DOMAIN all /\ all[s] = data

\* The tables of the classes.
LEMMA ObjectTells ==
    /\ Tells(Object_GetPropertyDataSize, Object_GetPropertyData,
             {"BaseClass", "Class", "Owner"}, sizeofUInt32, Sized(sizeofUInt32))
    /\ Tells(Object_GetPropertyDataSize, Object_GetPropertyData,
             {"OwnedObjects"}, 0, IDList(<< >>, 0))
BY Over, AllIs DEF Tells, Object_GetPropertyDataSize, Object_GetPropertyData

LEMMA StreamTells ==
    /\ Tells(Stream_GetPropertyDataSize, Stream_GetPropertyData,
             {"BaseClass", "Class", "Owner", "IsActive", "Direction", "TerminalType",
              "StartingChannel", "Latency"}, sizeofUInt32, Sized(sizeofUInt32))
    /\ Tells(Stream_GetPropertyDataSize, Stream_GetPropertyData,
             {"VirtualFormat", "PhysicalFormat"}, sizeofFormat, Sized(sizeofFormat))
    /\ Tells(Stream_GetPropertyDataSize, Stream_GetPropertyData,
             {"AvailableVirtualFormats", "AvailablePhysicalFormats"}, sizeofRangedFormat,
             List(sizeofRangedFormat, Data(1), 1))
    /\ Tells(Stream_GetPropertyDataSize, Stream_GetPropertyData,
             {"OwnedObjects"}, 0, IDList(<< >>, 0))
BY Over, AllIs, ObjectTells DEF Tells, Stream_GetPropertyDataSize, Stream_GetPropertyData

LEMMA ControlTells ==
    /\ Tells(Control_GetPropertyDataSize, Control_GetPropertyData,
             {"BaseClass", "Class", "Owner", "Scope", "Element"}, sizeofUInt32, Sized(sizeofUInt32))
    /\ Tells(Control_GetPropertyDataSize, Control_GetPropertyData,
             {"OwnedObjects"}, 0, IDList(<< >>, 0))
BY Over, AllIs, ObjectTells DEF Tells, Control_GetPropertyDataSize, Control_GetPropertyData

LEMMA MuteControlTells ==
    /\ Tells(MuteControl_GetPropertyDataSize, MuteControl_GetPropertyData,
             {"BaseClass", "Class", "Owner", "Scope", "Element", "Value"},
             sizeofUInt32, Sized(sizeofUInt32))
    /\ Tells(MuteControl_GetPropertyDataSize, MuteControl_GetPropertyData,
             {"OwnedObjects"}, 0, IDList(<< >>, 0))
BY Over, AllIs, ControlTells
   DEF Tells, MuteControl_GetPropertyDataSize, MuteControl_GetPropertyData

LEMMA VolumeControlTells ==
    /\ Tells(VolumeControl_GetPropertyDataSize, VolumeControl_GetPropertyData,
             {"BaseClass", "Class", "Owner", "Scope", "Element", "ScalarValue", "DecibelValue",
              "ConvertScalarToDecibels", "ConvertDecibelsToScalar"},
             sizeofUInt32, Sized(sizeofUInt32))
    /\ Tells(VolumeControl_GetPropertyDataSize, VolumeControl_GetPropertyData,
             {"DecibelRange"}, sizeofAudioValueRange, Sized(sizeofAudioValueRange))
    /\ Tells(VolumeControl_GetPropertyDataSize, VolumeControl_GetPropertyData,
             {"OwnedObjects"}, 0, IDList(<< >>, 0))
BY Over, AllIs, ControlTells
   DEF Tells, VolumeControl_GetPropertyDataSize, VolumeControl_GetPropertyData

LEMMA PlugInTells ==
    LET sizes == PlugIn_GetPropertyDataSize
        all == PlugIn_GetPropertyData
    IN  /\ Tells(sizes, all, {"BaseClass", "Class", "Owner", "TranslateUIDToDevice"},
                 sizeofUInt32, Sized(sizeofUInt32))
        /\ Tells(sizes, all, {"Manufacturer", "NullDeviceActive"},
                 sizeofCFTypeRef, Sized(sizeofCFTypeRef))
        /\ Tells(sizes, all, {"ResourceBundle"}, sizeofCFTypeRef, String)
        /\ Tells(sizes, all, {"CustomPropertyInfoList"}, sizeofCustomInfo,
                 List(sizeofCustomInfo, Data(1), 1))
        /\ Tells(sizes, all, {"OwnedObjects", "DeviceList"},
                 IDs(IF nullDeviceActive THEN 3 ELSE 2), IDList(DeviceList, Len(DeviceList)))
BY SMTT(40), Over, AllIs, ObjectTells
   DEF Tells, PlugIn_GetPropertyDataSize, PlugIn_FixedSizes,
       PlugIn_GetPropertyData

\* The selectors of devices, by what their values are.
DeviceNumbers == {"BaseClass", "Class", "Owner", "TransportType", "ClockDomain", "DeviceIsAlive",
                  "DeviceIsRunning", "ZeroTimeStampPeriod", "CanBeDefaultDevice",
                  "CanBeDefaultSystemDevice", "Latency", "SafetyOffset", "IsHidden"}
DeviceStrings == {"Name", "Manufacturer", "DeviceUID", "ModelUID"}
DeviceReferences == {"Icon", "AudibleState", "MusicPlayerProcessID", "MusicPlayerBundleID",
                     "IsRunningElsewhere", "EnabledOutputControls"} \cup MicMix
DeviceLists == {"AvailableNominalSampleRates", "CustomPropertyInfoList",
                "Streams", "ControlList", "OwnedObjects"}

LEMMA AbstractDeviceSizes ==
    LET sizes == AbstractDevice_GetPropertyDataSize
    IN  /\ \A s \in DeviceNumbers \cup {"RelatedDevices"} :
               s \in DOMAIN sizes /\ sizes[s] = sizeofUInt32
        /\ \A s \in DeviceStrings : s \in DOMAIN sizes /\ sizes[s] = sizeofCFTypeRef
        /\ \A s \in {"OwnedObjects", "ControlList"} : s \in DOMAIN sizes /\ sizes[s] = 0
        /\ "NominalSampleRate" \in DOMAIN sizes /\ sizes["NominalSampleRate"] = sizeofFloat64
BY Over, AllIs, ObjectTells
   DEF Tells, DeviceNumbers, DeviceStrings, AbstractDevice_GetPropertyDataSize

LEMMA AbstractDeviceData ==
    ASSUME NEW o
    PROVE  LET all == AbstractDevice_GetPropertyData(o)
           IN  /\ \A s \in DeviceNumbers \ {"DeviceIsRunning", "ZeroTimeStampPeriod"} :
                      s \in DOMAIN all /\ all[s] = Sized(sizeofUInt32)
               /\ \A s \in {"OwnedObjects", "ControlList"} :
                      s \in DOMAIN all /\ all[s] = IDList(<< >>, 0)
               /\ "RelatedDevices" \in DOMAIN all /\ all["RelatedDevices"] = IDList(<<o>>, 1)
BY Over, AllIs, ObjectTells DEF Tells, DeviceNumbers, AbstractDevice_GetPropertyData

LEMMA NullDeviceSizes ==
    LET sizes == NullDevice_GetPropertyDataSize
    IN  /\ \A s \in DeviceNumbers \cup {"RelatedDevices"} :
               s \in DOMAIN sizes /\ sizes[s] = sizeofUInt32
        /\ \A s \in DeviceStrings : s \in DOMAIN sizes /\ sizes[s] = sizeofCFTypeRef
        /\ \A s \in {"OwnedObjects", "ControlList"} : s \in DOMAIN sizes /\ sizes[s] = 0
        /\ "NominalSampleRate" \in DOMAIN sizes /\ sizes["NominalSampleRate"] = sizeofFloat64
        /\ /\ "AvailableNominalSampleRates" \in DOMAIN sizes
           /\ sizes["AvailableNominalSampleRates"] = sizeofAudioValueRange
        /\ "Streams" \in DOMAIN sizes /\ sizes["Streams"] = IDs(1)
BY Over, AllIs, AbstractDeviceSizes
   DEF DeviceNumbers, DeviceStrings, NullDevice_GetPropertyDataSize

LEMMA NullDeviceData ==
    ASSUME NEW scope
    PROVE  LET all == NullDevice_GetPropertyData(scope)
           IN  /\ \A s \in DeviceNumbers : s \in DOMAIN all /\ all[s] = Sized(sizeofUInt32)
               /\ \A s \in DeviceStrings : s \in DOMAIN all /\ all[s] = String
               /\ "NominalSampleRate" \in DOMAIN all /\ all["NominalSampleRate"] = Sized(sizeofFloat64)
               /\ \A s \in {"OwnedObjects", "ControlList"} :
                      s \in DOMAIN all /\ all[s] = IDList(<< >>, 0)
               /\ "RelatedDevices" \in DOMAIN all /\ all["RelatedDevices"] = IDList(<<NullDevice>>, 1)
               /\ /\ "AvailableNominalSampleRates" \in DOMAIN all
                  /\ all["AvailableNominalSampleRates"] = List(sizeofAudioValueRange, Data(1), 1)
               /\ /\ "Streams" \in DOMAIN all
                  /\ all["Streams"] = IF scope = "Input" THEN IDList(<< >>, 0)
                                      ELSE IDList(<<<<"null", "output">>>>, 1)
BY SMTT(40), Over, AllIs, AbstractDeviceData
   DEF DeviceNumbers, DeviceStrings, NullDevice_GetPropertyData

LEMMA DeviceControlSizes ==
    ASSUME NEW d, NEW scope
    PROVE  LET sizes == Device_ControlSizes(d, scope)
           IN  /\ \A s : s \in DOMAIN sizes <=> s \in {"OwnedObjects", "ControlList"}
               /\ sizes["OwnedObjects"] =
                    CASE scope = "Global" -> IDs(2 + GetNumberOfOutputControls(d))
                      [] scope = "Input" -> IDs(1)
                      [] scope = "Output" -> IDs(1 + GetNumberOfOutputControls(d))
               /\ sizes["ControlList"] = IDs(GetNumberOfOutputControls(d))
<1> DEFINE owned == CASE scope = "Global" -> IDs(2 + GetNumberOfOutputControls(d))
                      [] scope = "Input" -> IDs(1)
                      [] scope = "Output" -> IDs(1 + GetNumberOfOutputControls(d))
<1>1. Device_ControlSizes(d, scope) =
        All({"OwnedObjects"}, owned) ++ All({"ControlList"}, IDs(GetNumberOfOutputControls(d)))
  BY DEF Device_ControlSizes
<1> HIDE DEF owned
<1>2. LET sizes == Device_ControlSizes(d, scope)
      IN  /\ \A s : s \in DOMAIN sizes <=> s \in {"OwnedObjects", "ControlList"}
          /\ sizes["OwnedObjects"] = owned
          /\ sizes["ControlList"] = IDs(GetNumberOfOutputControls(d))
  BY <1>1, Over, AllIs
<1> QED BY <1>2 DEF owned

FixedSizesOfDevice(sizes, d, scope) ==
    /\ \A s \in DeviceNumbers \cup {"RelatedDevices"} : s \in DOMAIN sizes /\ sizes[s] = sizeofUInt32
    /\ \A s \in DeviceStrings \cup DeviceReferences : s \in DOMAIN sizes /\ sizes[s] = sizeofCFTypeRef
    /\ "NominalSampleRate" \in DOMAIN sizes /\ sizes["NominalSampleRate"] = sizeofFloat64
    /\ /\ "PreferredChannelsForStereo" \in DOMAIN sizes
       /\ sizes["PreferredChannelsForStereo"] = 2 * sizeofUInt32
    /\ "PreferredChannelLayout" \in DOMAIN sizes /\ sizes["PreferredChannelLayout"] = sizeofStereoLayout
    /\ "Streams" \in DOMAIN sizes /\ sizes["Streams"] = IF scope = "Global" THEN IDs(2) ELSE IDs(1)
    /\ /\ "AvailableNominalSampleRates" \in DOMAIN sizes
       /\ sizes["AvailableNominalSampleRates"] = sizeofAudioValueRange
    /\ /\ "CustomPropertyInfoList" \in DOMAIN sizes
       /\ sizes["CustomPropertyInfoList"] = NumberOfCustomProperties(d) * sizeofCustomInfo

LEMMA DeviceFixedSizes ==
    ASSUME NEW d, NEW scope
    PROVE  FixedSizesOfDevice(Device_FixedSizes(d, scope), d, scope)
<1> DEFINE streams == IF scope = "Global" THEN IDs(2) ELSE IDs(1)
           sizes == Device_FixedSizes(d, scope)
<1>1. sizes = All({"Streams"}, streams)
              ++ All({"AvailableNominalSampleRates"}, sizeofAudioValueRange)
              ++ All({"CustomPropertyInfoList"}, NumberOfCustomProperties(d) * sizeofCustomInfo)
              ++ All({"PreferredChannelsForStereo"}, 2 * sizeofUInt32)
              ++ All({"PreferredChannelLayout"}, sizeofStereoLayout)
              ++ All(DeviceReferences, sizeofCFTypeRef)
              ++ AbstractDevice_GetPropertyDataSize
  BY DEF Device_FixedSizes, DeviceReferences
<1> HIDE DEF streams, sizes
<1>2. /\ \A s \in DeviceNumbers \cup {"RelatedDevices"} :
             s \in DOMAIN sizes /\ sizes[s] = sizeofUInt32
      /\ \A s \in DeviceStrings \cup DeviceReferences :
             s \in DOMAIN sizes /\ sizes[s] = sizeofCFTypeRef
      /\ "NominalSampleRate" \in DOMAIN sizes /\ sizes["NominalSampleRate"] = sizeofFloat64
  BY SMTT(40), <1>1, Over, AllIs, AbstractDeviceSizes
     DEF DeviceNumbers, DeviceStrings, DeviceReferences, MicMix
<1>3. /\ "PreferredChannelsForStereo" \in DOMAIN sizes
      /\ sizes["PreferredChannelsForStereo"] = 2 * sizeofUInt32
      /\ "PreferredChannelLayout" \in DOMAIN sizes
      /\ sizes["PreferredChannelLayout"] = sizeofStereoLayout
      /\ "AvailableNominalSampleRates" \in DOMAIN sizes
      /\ sizes["AvailableNominalSampleRates"] = sizeofAudioValueRange
      /\ "CustomPropertyInfoList" \in DOMAIN sizes
      /\ sizes["CustomPropertyInfoList"] = NumberOfCustomProperties(d) * sizeofCustomInfo
      /\ "Streams" \in DOMAIN sizes /\ sizes["Streams"] = streams
  BY SMTT(40), <1>1, Over, AllIs
<1>4. FixedSizesOfDevice(sizes, d, scope)
  BY <1>2, <1>3 DEF FixedSizesOfDevice, streams
<1> QED BY <1>4 DEF sizes

\* Those and the sizes of the lists that the controls are on.
SizesOfDevice(sizes, d, scope) ==
    /\ FixedSizesOfDevice(sizes, d, scope)
    /\ \A s \in {"OwnedObjects", "ControlList"} :
           s \in DOMAIN sizes /\ sizes[s] = Device_ControlSizes(d, scope)[s]

LEMMA DeviceSizes ==
    ASSUME NEW d, NEW scope
    PROVE  SizesOfDevice(Device_GetPropertyDataSize(d, scope), d, scope)
<1> DEFINE controls == Device_ControlSizes(d, scope)
           others == Device_FixedSizes(d, scope)
           sizes == Device_GetPropertyDataSize(d, scope)
<1>1. sizes = controls ++ others
  BY DEF Device_GetPropertyDataSize
<1>2. FixedSizesOfDevice(others, d, scope)
  BY DeviceFixedSizes
<1>3. \A s : s \in DOMAIN controls <=> s \in {"OwnedObjects", "ControlList"}
  BY DeviceControlSizes
<1> HIDE DEF controls, others, sizes
<1>4. \A s \in DOMAIN others : s \in {"OwnedObjects", "ControlList"}
                               \/ (s \in DOMAIN sizes /\ sizes[s] = others[s])
  BY <1>1, <1>3, Over
<1>5. FixedSizesOfDevice(sizes, d, scope)
  BY <1>2, <1>4
     DEF FixedSizesOfDevice, DeviceNumbers, DeviceStrings, DeviceReferences, MicMix
<1>6. \A s \in {"OwnedObjects", "ControlList"} : s \in DOMAIN sizes /\ sizes[s] = controls[s]
  BY <1>1, <1>3, Over
<1>7. SizesOfDevice(sizes, d, scope)
  BY <1>5, <1>6 DEF SizesOfDevice, controls
<1> QED BY <1>7 DEF sizes

LEMMA DeviceListsData ==
    ASSUME NEW d, NEW scope
    PROVE  LET all == Device_Lists(d, scope)
           IN  /\ \A s : s \in DOMAIN all <=>
                            s \in {"AvailableNominalSampleRates", "CustomPropertyInfoList",
                                  "Streams", "ControlList", "OwnedObjects"}
               /\ all["AvailableNominalSampleRates"] = List(sizeofAudioValueRange, Data(1), 1)
               /\ all["CustomPropertyInfoList"]
                    = List(sizeofCustomInfo, Data(NumberOfCustomProperties(d)),
                           NumberOfCustomProperties(d))
               /\ all["Streams"] = IDList(Streams(d, scope), Len(Streams(d, scope)))
               /\ all["ControlList"] = IDList(OutputControls(d), GetNumberOfOutputControls(d))
               /\ all["OwnedObjects"] = Device_OwnedObjects(d, scope)
BY Over, AllIs DEF Device_Lists

DataOfDevice(all, d, scope) ==
    /\ \A s \in DeviceNumbers : s \in DOMAIN all /\ all[s] = Sized(sizeofUInt32)
    /\ \A s \in DeviceStrings : s \in DOMAIN all /\ all[s] = String
    /\ \A s \in DeviceReferences : s \in DOMAIN all /\ all[s] = Sized(sizeofCFTypeRef)
    /\ "RelatedDevices" \in DOMAIN all /\ all["RelatedDevices"] = IDList(<<<<d, "self">>>>, 1)
    /\ "NominalSampleRate" \in DOMAIN all /\ all["NominalSampleRate"] = Sized(sizeofFloat64)
    /\ /\ "PreferredChannelsForStereo" \in DOMAIN all
       /\ all["PreferredChannelsForStereo"] = Sized(2 * sizeofUInt32)
    /\ /\ "PreferredChannelLayout" \in DOMAIN all
       /\ all["PreferredChannelLayout"] = Sized(sizeofStereoLayout)
    /\ \A s \in DeviceLists : s \in DOMAIN all /\ all[s] = Device_Lists(d, scope)[s]

LEMMA DeviceData ==
    ASSUME NEW d, NEW scope
    PROVE  DataOfDevice(Device_GetPropertyData(d, scope), d, scope)
<1> DEFINE all == Device_GetPropertyData(d, scope)
<1>1. \A s : s \in DOMAIN Device_CustomValues <=>
               s \in {"AudibleState", "MusicPlayerProcessID", "MusicPlayerBundleID",
                     "IsRunningElsewhere", "EnabledOutputControls"} \cup MicMix
  BY AllIs DEF Device_CustomValues
<1>2. \A s : s \in DOMAIN Device_Values <=>
               s \in {"Name", "Manufacturer", "DeviceUID", "ModelUID", "DeviceIsRunning",
                     "CanBeDefaultDevice", "ZeroTimeStampPeriod", "NominalSampleRate",
                     "PreferredChannelsForStereo", "PreferredChannelLayout", "Icon"}
  BY Over, AllIs DEF Device_Values
<1>3. ASSUME NEW s \in DeviceNumbers \ {"DeviceIsRunning", "CanBeDefaultDevice",
                                          "ZeroTimeStampPeriod"}
      PROVE  s \in DOMAIN all /\ all[s] = Sized(sizeofUInt32)
  <2>1. s \notin DOMAIN Device_Lists(d, scope)
    BY DeviceListsData DEF DeviceNumbers
  <2>2. s \notin DOMAIN Device_Values
    BY <1>2 DEF DeviceNumbers
  <2>3. s \notin DOMAIN Device_CustomValues
    BY <1>1 DEF MicMix, DeviceNumbers
  <2> DEFINE base == AbstractDevice_GetPropertyData(<<d, "self">>)
  <2>4. s \in DOMAIN base /\ base[s] = Sized(sizeofUInt32)
    BY AbstractDeviceData
  <2> HIDE DEF base
  <2>5. all = Device_Lists(d, scope) ++ Device_Values ++ Device_CustomValues ++ base
    BY DEF Device_GetPropertyData, base
  <2> HIDE DEF all
  <2> QED BY <2>1, <2>2, <2>3, <2>4, <2>5, Over
<1>4. "RelatedDevices" \in DOMAIN all /\ all["RelatedDevices"] = IDList(<<<<d, "self">>>>, 1)
  BY <1>1, <1>2, Over, AbstractDeviceData, DeviceListsData DEF Device_GetPropertyData, MicMix
<1>5. \A s \in DeviceLists : s \in DOMAIN all /\ all[s] = Device_Lists(d, scope)[s]
  BY Over, DeviceListsData DEF Device_GetPropertyData, DeviceLists
<1>6. \A s \in DOMAIN Device_Values : s \in DOMAIN all /\ all[s] = Device_Values[s]
  BY <1>2, Over, DeviceListsData DEF Device_GetPropertyData
<1>7. \A s \in DOMAIN Device_CustomValues :
          s \in DOMAIN all /\ all[s] = Sized(sizeofCFTypeRef)
  BY <1>1, <1>2, Over, AllIs, DeviceListsData DEF Device_GetPropertyData, Device_CustomValues, MicMix
<1>8. /\ \A s \in {"DeviceIsRunning", "CanBeDefaultDevice", "ZeroTimeStampPeriod"} :
             Device_Values[s] = Sized(sizeofUInt32)
      /\ \A s \in {"Name", "Manufacturer", "DeviceUID", "ModelUID"} : Device_Values[s] = String
      /\ Device_Values["NominalSampleRate"] = Sized(sizeofFloat64)
      /\ Device_Values["PreferredChannelsForStereo"] = Sized(2 * sizeofUInt32)
      /\ Device_Values["PreferredChannelLayout"] = Sized(sizeofStereoLayout)
      /\ Device_Values["Icon"] = Sized(sizeofCFTypeRef)
  BY Over, AllIs DEF Device_Values
<1> HIDE DEF all
<1>9. DataOfDevice(all, d, scope)
  BY <1>1, <1>2, <1>3, <1>4, <1>5, <1>6, <1>7, <1>8
     DEF DataOfDevice, DeviceNumbers, DeviceStrings, DeviceReferences, DeviceLists
<1> QED BY <1>9 DEF all

\* What a list of o may give: objects that answer in turn, which name o as their
\* owner or are related to it, and a mute control that has no ID.
Answering(o, s) ==
    {x \in LookUpOwnerObject : s # "RelatedDevices" => Owner(x) = o}
        \cup {x \in {kAudioObjectUnknown} : ListsMuteWithoutID(o, s)}

\* A list is written as far as it says it returns, and has the size it was said
\* to have.
Complete(list, size, o, s, scope) ==
    /\ list.kind = "list" /\ list.item \in {4, 12, 16, 56} /\ list.most \in Nat
    /\ \/ list.item = sizeofUInt32 /\ list.content \in Seq(Answering(o, s))
       \/ list.item # sizeofUInt32 /\ list.content \in Seq({"data"})
    /\ list.most <= Len(list.content)
    /\ list.item * list.most = size \/ CutShort(o, s, scope)

LEMMA CompleteIDs ==
    ASSUME NEW o, NEW s, NEW scope, NEW size, NEW most \in Nat,
           NEW content \in Seq(Answering(o, s)), most <= Len(content),
           IDs(most) = size \/ CutShort(o, s, scope)
    PROVE  Complete(IDList(content, most), size, o, s, scope)
<1>1. sizeofUInt32 = 4 /\ IDs(most) = 4 * most
  BY DEF IDs, sizeofUInt32
<1>2. IDList(content, most) = [kind |-> "list", item |-> 4, content |-> content, most |-> most]
  BY <1>1 DEF IDList, List
<1> HIDE DEF IDs
<1> QED BY <1>1, <1>2 DEF Complete

\* A list of data.
LEMMA CompleteData ==
    ASSUME NEW item \in {12, 16, 56}, NEW n \in Nat, NEW o, NEW s, NEW scope
    PROVE  Complete(List(item, Data(n), n), item * n, o, s, scope)
<1>1. Data(n) \in Seq({"data"}) /\ Len(Data(n)) = n
  <2>1. Data(n) \in [1 .. n -> {"data"}]
    BY DEF Data
  <2>2. Data(n) \in Seq({"data"})
    BY <2>1, SeqDef
  <2> QED BY <2>1, <2>2, LenProperties
<1> QED BY <1>1 DEF Complete, List, sizeofUInt32

\* A list of one object, or of none.
LEMMA CompleteOne ==
    ASSUME NEW o, NEW s, NEW scope, NEW x \in Answering(o, s)
    PROVE  Complete(IDList(<<x>>, 1), IDs(1), o, s, scope)
<1>1. <<x>> \in Seq(Answering(o, s)) /\ Len(<<x>>) = 1
  OBVIOUS
<1> QED BY <1>1, CompleteIDs

LEMMA CompleteNone ==
    ASSUME NEW o, NEW s, NEW scope, NEW size, size = IDs(0) \/ CutShort(o, s, scope)
    PROVE  Complete(IDList(<< >>, 0), size, o, s, scope)
<1> DEFINE none == << >>
<1>1. none \in Seq(Answering(o, s)) /\ 0 \in Nat /\ 0 <= Len(none)
  BY EmptySeq
<1> HIDE DEF none
<1>2. Complete(IDList(none, 0), size, o, s, scope)
  BY <1>1, CompleteIDs
<1> QED BY <1>2 DEF none

\* The objects.
LEMMA PartsAnswer ==
    ASSUME NEW d \in Devices, NEW s
    PROVE  /\ <<d, "input">> \in Answering(<<d, "self">>, s)
           /\ <<d, "output">> \in Answering(<<d, "self">>, s)
           /\ \A part \in {"input", "output", "volume"} :
                  ObjectID(d, part) \in Answering(<<d, "self">>, s)
           /\ s \in {"OwnedObjects", "ControlList"}
                  => ObjectID(d, "mute") \in Answering(<<d, "self">>, s)
           /\ <<d, "self">> \in Answering(PlugIn, s)
           /\ <<d, "self">> \in LookUpOwnerObject
<1>1. \A part \in {"input", "output", "volume"} : <<d, part>> \in LookUpOwnerObject
  BY DEF LookUpOwnerObject, Parts
<1>2. \A part \in {"input", "output", "volume", "mute"} : Owner(<<d, part>>) = <<d, "self">>
  BY DEF Owner
<1>3. <<d, "self">> \in LookUpOwnerObject /\ Owner(<<d, "self">>) = PlugIn
  BY DEF LookUpOwnerObject, Owner
<1>4. d # Main \/ <<d, "mute">> \in LookUpOwnerObject
  BY DEF LookUpOwnerObject, Parts
<1>5. /\ \A part \in {"input", "output", "volume"} :
             ObjectID(d, part) \in Answering(<<d, "self">>, s)
      /\ <<d, "self">> \in Answering(PlugIn, s)
  BY <1>1, <1>2, <1>3 DEF Answering, ObjectID
<1>6. ASSUME s \in {"OwnedObjects", "ControlList"}
      PROVE  ObjectID(d, "mute") \in Answering(<<d, "self">>, s)
  <2>1. CASE <<d, "mute">> \in LookUpOwnerObject
    BY <1>2, <2>1 DEF Answering, ObjectID
  <2>2. CASE <<d, "mute">> \notin LookUpOwnerObject
    <3>1. ListsMuteWithoutID(<<d, "self">>, s)
      BY <1>4, <1>6, <2>2 DEF ListsMuteWithoutID
    <3> QED BY <2>2, <3>1 DEF Answering, ObjectID
  <2> QED BY <2>1, <2>2
<1> QED BY <1>1, <1>2, <1>3, <1>5, <1>6 DEF Answering

LEMMA OutputControlsAnswer ==
    ASSUME TypeOK, NEW d \in Devices, NEW s \in {"OwnedObjects", "ControlList"}
    PROVE  /\ OutputControls(d) \in Seq(Answering(<<d, "self">>, s))
           /\ Len(OutputControls(d)) = GetNumberOfOutputControls(d)
           /\ GetNumberOfOutputControls(d) \in 0 .. 2
<1> DEFINE v == ObjectID(d, "volume")
           m == ObjectID(d, "mute")
           A == Answering(<<d, "self">>, s)
<1>1. v \in A /\ m \in A
  BY PartsAnswer
<1> DEFINE a == IF "volume" \in active[d] THEN <<v>> ELSE << >>
           b == IF "mute" \in active[d] THEN <<m>> ELSE << >>
<1>2. OutputControls(d) = a \o b
  BY DEF OutputControls
<1> HIDE DEF v, m, A
<1>3. /\ a \in Seq(A) /\ Len(a) = IF "volume" \in active[d] THEN 1 ELSE 0
      /\ b \in Seq(A) /\ Len(b) = IF "mute" \in active[d] THEN 1 ELSE 0
  BY <1>1, EmptySeq
<1> HIDE DEF a, b
<1>4. a \o b \in Seq(A) /\ Len(a \o b) = Len(a) + Len(b)
  BY <1>3, ConcatProperties
<1>5. Cardinality(active[d]) = (IF "volume" \in active[d] THEN 1 ELSE 0)
                                  + (IF "mute" \in active[d] THEN 1 ELSE 0)
  <2>1. active[d] \in SUBSET {"volume", "mute"}
    BY DEF TypeOK, Controls
  <2>2. /\ Cardinality({}) = 0 /\ Cardinality({"volume"}) = 1 /\ Cardinality({"mute"}) = 1
        /\ IsFiniteSet({"volume"})
    BY FS_EmptySet, FS_Singleton
  <2>3. Cardinality({"volume"} \cup {"mute"}) = 2
    BY <2>2, FS_AddElement
  <2>4. \/ active[d] = {} \/ active[d] = {"volume"} \/ active[d] = {"mute"}
        \/ active[d] = {"volume"} \cup {"mute"}
    BY <2>1
  <2> QED BY <2>2, <2>3, <2>4
<1> QED BY <1>2, <1>3, <1>4, <1>5 DEF GetNumberOfOutputControls, A

\* The null device is on the list while it is active.
LEMMA DeviceListAnswers ==
    ASSUME TypeOK, NEW s
    PROVE  /\ DeviceList \in Seq(Answering(PlugIn, s))
           /\ Len(DeviceList) = IF nullDeviceActive THEN 3 ELSE 2
<1> DEFINE A == Answering(PlugIn, s)
<1>1. PICK d \in Devices : Devices = {Main, d} /\ d # Main
  BY ObjectsAssumption
<1>2. {<<x, "self">> : x \in Devices \ {Main}} = {<<d, "self">>}
  BY <1>1
<1>3. SetToSeq({<<d, "self">>}) = <<<<d, "self">>>>
  <2> DEFINE S == {<<d, "self">>}
             one == [i \in 1 .. 1 |-> <<d, "self">>]
  <2>1. Cardinality(S) = 1
    BY FS_Singleton
  <2>2. one \in [1 .. 1 -> S] /\ IsInjective(one)
    BY DEF IsInjective
  <2>3. SetToSeq(S) \in [1 .. 1 -> S]
    BY <2>1, <2>2 DEF SetToSeq
  <2>4. <<<<d, "self">>>> \in [1 .. 1 -> S]
    OBVIOUS
  <2>5. \A f \in [1 .. 1 -> S] : f = one
    OBVIOUS
  <2> QED BY <2>3, <2>4, <2>5
<1>4. <<Main, "self">> \in A /\ <<d, "self">> \in A
  BY DeviceAssumption, PartsAnswer
<1>5. NullDevice \in A
  BY DEF NullDevice, Answering, LookUpOwnerObject, Owner
<1> HIDE DEF A
<1> DEFINE null == IF nullDeviceActive THEN <<NullDevice>> ELSE << >>
           devices == <<<<Main, "self">>>> \o <<<<d, "self">>>>
<1>6. DeviceList = devices \o null
  BY <1>2, <1>3 DEF DeviceList
<1>7. null \in Seq(A) /\ Len(null) = IF nullDeviceActive THEN 1 ELSE 0
  BY <1>5, EmptySeq
<1>8. devices \in Seq(A) /\ Len(devices) = 2
  <2>1. /\ <<<<Main, "self">>>> \in Seq(A) /\ Len(<<<<Main, "self">>>>) = 1
        /\ <<<<d, "self">>>> \in Seq(A) /\ Len(<<<<d, "self">>>>) = 1
    BY <1>4
  <2> QED BY <2>1, ConcatProperties
<1> HIDE DEF null, devices
<1>9. devices \o null \in Seq(A) /\ Len(devices \o null) = Len(devices) + Len(null)
  BY <1>7, <1>8, ConcatProperties
<1> QED BY <1>6, <1>7, <1>8, <1>9 DEF A

\* The selectors that controls and the null device make longer or shorter.
Varying == {"OwnedObjects", "ControlList", "DeviceList"}

\* A selector with a size and data that agree: a value fits in the room that was
\* told, and a list is complete.
Agree(sizes, all, o, scope, s) ==
    /\ s \in DOMAIN sizes /\ s \in DOMAIN all /\ sizes[s] \in Nat
    /\ \/ /\ all[s].kind = "value" /\ s \notin Varying
          /\ all[s].needs \in Nat /\ all[s].size \in Nat
          /\ all[s].needs <= sizes[s] /\ all[s].size <= sizes[s]
       \/ Complete(all[s], sizes[s], o, s, scope)

LEMMA ValuesAgree ==
    ASSUME NEW sizes, NEW all, NEW o, NEW scope, NEW s, s \notin Varying,
           s \in DOMAIN sizes, s \in DOMAIN all, NEW size \in Nat, sizes[s] = size,
           all[s] = Sized(size) \/ (size = sizeofCFTypeRef /\ all[s] = String)
    PROVE  Agree(sizes, all, o, scope, s)
BY DEF Agree, Sized, Value, String, sizeofCFTypeRef, sizeofUInt32

LEMMA ListsAgree ==
    ASSUME NEW sizes, NEW all, NEW o, NEW scope, NEW s, NEW size \in Nat, NEW list,
           s \in DOMAIN sizes, s \in DOMAIN all, sizes[s] = size, all[s] = list,
           Complete(list, size, o, s, scope)
    PROVE  Agree(sizes, all, o, scope, s)
BY DEF Agree

LEMMA SizesAre ==
    /\ sizeofUInt32 \in Nat /\ sizeofFloat64 \in Nat /\ sizeofCFTypeRef \in Nat
    /\ sizeofAudioValueRange \in Nat /\ sizeofFormat \in Nat /\ sizeofRangedFormat \in Nat
    /\ sizeofCustomInfo \in Nat /\ sizeofStereoLayout \in Nat /\ 2 * sizeofUInt32 \in Nat
    /\ sizeofUInt32 = IDs(1) /\ IDs(0) = 0 /\ \A n \in Nat : IDs(n) \in Nat
    /\ sizeofAudioValueRange = 16 * 1 /\ sizeofRangedFormat = 56 * 1 /\ sizeofCustomInfo = 12 * 1
BY DEF sizeofUInt32, sizeofFloat64, sizeofCFTypeRef, sizeofAudioValueRange, sizeofFormat,
       sizeofRangedFormat, sizeofCustomInfo, sizeofStereoLayout, IDs

LEMMA StreamAgrees ==
    ASSUME NEW o, NEW scope, NEW s \in Stream_HasProperty
    PROVE  Agree(Stream_GetPropertyDataSize, Stream_GetPropertyData, o, scope, s)
<1> DEFINE sizes == Stream_GetPropertyDataSize
           all == Stream_GetPropertyData
<1>1. CASE s \in {"BaseClass", "Class", "Owner", "IsActive", "Direction", "TerminalType",
                  "StartingChannel", "Latency"}
  BY <1>1, StreamTells, ValuesAgree, SizesAre DEF Tells, Varying
<1>2. CASE s \in {"VirtualFormat", "PhysicalFormat"}
  BY <1>2, StreamTells, ValuesAgree, SizesAre DEF Tells, Varying
<1>3. CASE s \in {"AvailableVirtualFormats", "AvailablePhysicalFormats"}
  <2>1. Complete(List(56, Data(1), 1), 56 * 1, o, s, scope)
    BY CompleteData
  <2>2. /\ s \in DOMAIN sizes /\ sizes[s] = 56 * 1
        /\ s \in DOMAIN all /\ all[s] = List(56, Data(1), 1)
    BY <1>3, StreamTells DEF Tells, sizeofRangedFormat
  <2> QED BY <2>1, <2>2, ListsAgree
<1>4. CASE s = "OwnedObjects"
  <2>1. Complete(IDList(<< >>, 0), 0, o, s, scope)
    BY CompleteNone, SizesAre
  <2> QED BY <1>4, <2>1, StreamTells, ListsAgree DEF Tells
<1> QED BY <1>1, <1>2, <1>3, <1>4 DEF Stream_HasProperty, Object_HasProperty

LEMMA MuteControlAgrees ==
    ASSUME NEW o, NEW scope, NEW s \in MuteControl_HasProperty
    PROVE  Agree(MuteControl_GetPropertyDataSize, MuteControl_GetPropertyData, o, scope, s)
<1>1. CASE s \in {"BaseClass", "Class", "Owner", "Scope", "Element", "Value"}
  BY <1>1, MuteControlTells, ValuesAgree, SizesAre DEF Tells, Varying
<1>2. CASE s = "OwnedObjects"
  <2>1. Complete(IDList(<< >>, 0), 0, o, s, scope)
    BY CompleteNone, SizesAre
  <2> QED BY <1>2, <2>1, MuteControlTells, ListsAgree DEF Tells
<1> QED BY <1>1, <1>2 DEF MuteControl_HasProperty, Control_HasProperty, Object_HasProperty

LEMMA VolumeControlAgrees ==
    ASSUME NEW o, NEW scope, NEW s \in VolumeControl_HasProperty
    PROVE  Agree(VolumeControl_GetPropertyDataSize, VolumeControl_GetPropertyData, o, scope, s)
<1>1. CASE s \in {"BaseClass", "Class", "Owner", "Scope", "Element", "ScalarValue",
                  "DecibelValue", "ConvertScalarToDecibels", "ConvertDecibelsToScalar"}
  BY <1>1, VolumeControlTells, ValuesAgree, SizesAre DEF Tells, Varying
<1>2. CASE s = "DecibelRange"
  BY <1>2, VolumeControlTells, ValuesAgree, SizesAre DEF Tells, Varying
<1>3. CASE s = "OwnedObjects"
  <2>1. Complete(IDList(<< >>, 0), 0, o, s, scope)
    BY CompleteNone, SizesAre
  <2> QED BY <1>3, <2>1, VolumeControlTells, ListsAgree DEF Tells
<1> QED BY <1>1, <1>2, <1>3
        DEF VolumeControl_HasProperty, Control_HasProperty, Object_HasProperty

LEMMA PlugInAgrees ==
    ASSUME TypeOK, NEW scope, NEW s \in PlugIn_HasProperty
    PROVE  Agree(PlugIn_GetPropertyDataSize, PlugIn_GetPropertyData, PlugIn, scope, s)
<1>1. CASE s \in {"BaseClass", "Class", "Owner", "TranslateUIDToDevice"}
  BY <1>1, PlugInTells, ValuesAgree, SizesAre DEF Tells, Varying
<1>2. CASE s \in {"Manufacturer", "NullDeviceActive", "ResourceBundle"}
  BY <1>2, PlugInTells, ValuesAgree, SizesAre DEF Tells, Varying
<1>3. CASE s = "CustomPropertyInfoList"
  <2>1. Complete(List(12, Data(1), 1), 12 * 1, PlugIn, s, scope)
    BY CompleteData
  <2> QED BY <1>3, <2>1, PlugInTells, ListsAgree, SizesAre DEF Tells, sizeofCustomInfo
<1>4. CASE s \in {"OwnedObjects", "DeviceList"}
  <2> DEFINE n == IF nullDeviceActive THEN 3 ELSE 2
  <2>1. n \in Nat /\ Len(DeviceList) = n /\ DeviceList \in Seq(Answering(PlugIn, s))
    BY DeviceListAnswers
  <2>2. /\ s \in DOMAIN PlugIn_GetPropertyDataSize /\ PlugIn_GetPropertyDataSize[s] = IDs(n)
        /\ s \in DOMAIN PlugIn_GetPropertyData
        /\ PlugIn_GetPropertyData[s] = IDList(DeviceList, n)
    BY <1>4, <2>1, PlugInTells DEF Tells
  <2> HIDE DEF n
  <2>3. Complete(IDList(DeviceList, n), IDs(n), PlugIn, s, scope)
    BY <2>1, CompleteIDs
  <2>4. IDs(n) \in Nat
    BY <2>1, SizesAre
  <2> QED BY <2>2, <2>3, <2>4, ListsAgree
<1> QED BY <1>1, <1>2, <1>3, <1>4 DEF PlugIn_HasProperty, Object_HasProperty

LEMMA NullDeviceAgrees ==
    ASSUME NEW scope \in Scopes, NEW s \in AbstractDevice_HasProperty
    PROVE  Agree(NullDevice_GetPropertyDataSize, NullDevice_GetPropertyData(scope),
                 NullDevice, scope, s)
<1> DEFINE sizes == NullDevice_GetPropertyDataSize
           all == NullDevice_GetPropertyData(scope)
<1>1. CASE s \in DeviceNumbers
  <2>1. /\ s \in DOMAIN sizes /\ sizes[s] = sizeofUInt32
        /\ s \in DOMAIN all /\ all[s] = Sized(sizeofUInt32)
    BY <1>1, NullDeviceSizes, NullDeviceData
  <2> QED BY <1>1, <2>1, ValuesAgree, SizesAre DEF DeviceNumbers, Varying
<1>2. CASE s \in DeviceStrings
  <2>1. /\ s \in DOMAIN sizes /\ sizes[s] = sizeofCFTypeRef
        /\ s \in DOMAIN all /\ all[s] = String
    BY <1>2, NullDeviceSizes, NullDeviceData
  <2> QED BY <1>2, <2>1, ValuesAgree, SizesAre DEF DeviceStrings, Varying
<1>3. CASE s = "NominalSampleRate"
  <2>1. /\ s \in DOMAIN sizes /\ sizes[s] = sizeofFloat64
        /\ s \in DOMAIN all /\ all[s] = Sized(sizeofFloat64)
    BY <1>3, NullDeviceSizes, NullDeviceData
  <2> QED BY <1>3, <2>1, ValuesAgree, SizesAre DEF Varying
<1>4. CASE s \in {"OwnedObjects", "ControlList"}
  <2>1. Complete(IDList(<< >>, 0), 0, NullDevice, s, scope)
    BY CompleteNone, SizesAre
  <2>2. /\ s \in DOMAIN sizes /\ sizes[s] = 0
        /\ s \in DOMAIN all /\ all[s] = IDList(<< >>, 0)
    BY <1>4, NullDeviceSizes, NullDeviceData
  <2> QED BY <2>1, <2>2, ListsAgree
<1>5. CASE s = "RelatedDevices"
  <2>1. NullDevice \in Answering(NullDevice, s)
    BY <1>5 DEF Answering, LookUpOwnerObject
  <2>2. Complete(IDList(<<NullDevice>>, 1), IDs(1), NullDevice, s, scope)
    BY <2>1, CompleteOne
  <2>3. /\ s \in DOMAIN sizes /\ sizes[s] = IDs(1)
        /\ s \in DOMAIN all /\ all[s] = IDList(<<NullDevice>>, 1)
    BY <1>5, NullDeviceSizes, NullDeviceData, SizesAre
  <2> QED BY <2>2, <2>3, ListsAgree, SizesAre
<1>6. CASE s = "AvailableNominalSampleRates"
  <2>1. Complete(List(16, Data(1), 1), 16 * 1, NullDevice, s, scope)
    BY CompleteData
  <2>2. /\ s \in DOMAIN sizes /\ sizes[s] = 16 * 1
        /\ s \in DOMAIN all /\ all[s] = List(16, Data(1), 1)
    BY <1>6, NullDeviceSizes, NullDeviceData DEF sizeofAudioValueRange
  <2> QED BY <2>1, <2>2, ListsAgree
<1>7. CASE s = "Streams"
  <2>1. /\ s \in DOMAIN sizes /\ sizes[s] = IDs(1) /\ s \in DOMAIN all
        /\ all[s] = IF scope = "Input" THEN IDList(<< >>, 0) ELSE IDList(<<<<"null", "output">>>>, 1)
    BY <1>7, NullDeviceSizes, NullDeviceData
  <2>2. CASE scope = "Input"
    <3>1. Complete(IDList(<< >>, 0), IDs(1), NullDevice, s, scope)
      BY <1>7, <2>2, CompleteNone DEF CutShort
    <3> QED BY <2>1, <2>2, <3>1, ListsAgree, SizesAre
  <2>3. CASE scope # "Input"
    <3>1. <<"null", "output">> \in Answering(NullDevice, s)
      BY DEF Answering, LookUpOwnerObject, Owner, NullDevice
    <3>2. Complete(IDList(<<<<"null", "output">>>>, 1), IDs(1), NullDevice, s, scope)
      BY <3>1, CompleteOne
    <3> QED BY <2>1, <2>3, <3>2, ListsAgree, SizesAre
  <2> QED BY <2>2, <2>3
<1> QED BY <1>1, <1>2, <1>3, <1>4, <1>5, <1>6, <1>7
        DEF AbstractDevice_HasProperty, Object_HasProperty, DeviceNumbers, DeviceStrings

LEMMA DeviceAgrees ==
    ASSUME TypeOK, NEW d \in Devices, NEW scope \in Scopes, NEW s \in Device_HasProperty(d, scope)
    PROVE  Agree(Device_GetPropertyDataSize(d, scope), Device_GetPropertyData(d, scope),
                 <<d, "self">>, scope, s)
<1> DEFINE sizes == Device_GetPropertyDataSize(d, scope)
           all == Device_GetPropertyData(d, scope)
           o == <<d, "self">>
           n == GetNumberOfOutputControls(d)
<1>a. SizesOfDevice(sizes, d, scope) /\ DataOfDevice(all, d, scope)
  BY DeviceSizes, DeviceData
<1>b. LET controlSizes == Device_ControlSizes(d, scope)
      IN  /\ controlSizes["OwnedObjects"] =
               CASE scope = "Global" -> IDs(2 + n)
                 [] scope = "Input" -> IDs(1)
                 [] scope = "Output" -> IDs(1 + n)
          /\ controlSizes["ControlList"] = IDs(n)
  BY DeviceControlSizes
<1>c. LET lists == Device_Lists(d, scope)
      IN  /\ lists["OwnedObjects"] = Device_OwnedObjects(d, scope)
          /\ lists["Streams"] = IDList(Streams(d, scope), Len(Streams(d, scope)))
          /\ lists["ControlList"] = IDList(OutputControls(d), n)
          /\ lists["AvailableNominalSampleRates"] = List(sizeofAudioValueRange, Data(1), 1)
          /\ lists["CustomPropertyInfoList"]
               = List(sizeofCustomInfo, Data(NumberOfCustomProperties(d)), NumberOfCustomProperties(d))
  BY DeviceListsData
<1>d. o \in Answering(o, "RelatedDevices")
  BY PartsAnswer DEF Answering
<1>e. /\ s \in {"OwnedObjects", "ControlList"} => OutputControls(d) \in Seq(Answering(o, s))
      /\ Len(OutputControls(d)) = n /\ n \in Nat
      /\ Streams(d, scope) \in Seq(Answering(o, s))
      /\ Len(Streams(d, scope)) = IF scope = "Global" THEN 2 ELSE 1
  <2>1. ObjectID(d, "input") \in Answering(o, s) /\ ObjectID(d, "output") \in Answering(o, s)
    BY PartsAnswer
  <2>2. s \in {"OwnedObjects", "ControlList"} => OutputControls(d) \in Seq(Answering(o, s))
    BY OutputControlsAnswer
  <2>3. n \in 0 .. 2 /\ Len(OutputControls(d)) = n
    <3>1. "ControlList" \in {"OwnedObjects", "ControlList"}
      OBVIOUS
    <3> QED BY <3>1, OutputControlsAnswer
  <2> HIDE DEF o, n
  <2> QED BY <2>1, <2>2, <2>3 DEF Streams, Scopes
<1>f. Device_OwnedObjects(d, scope) =
        CASE scope = "Global" -> IDList(Streams(d, scope) \o OutputControls(d), 2 + n)
          [] scope = "Input" -> IDList(Streams(d, scope), 1)
          [] scope = "Output" -> IDList(Streams(d, scope) \o OutputControls(d), n)
  BY DEF Device_OwnedObjects
<1>0. \/ s \in DeviceNumbers \/ s \in DeviceStrings \/ s \in DeviceReferences
      \/ s \in {"NominalSampleRate", "PreferredChannelsForStereo", "PreferredChannelLayout"}
      \/ s = "RelatedDevices" \/ s \in DeviceLists
  BY DEF Device_HasProperty, AbstractDevice_HasProperty, Object_HasProperty, Directional, MicMix,
         DeviceNumbers, DeviceStrings, DeviceReferences, DeviceLists
<1> SUFFICES Agree(sizes, all, o, scope, s)
  OBVIOUS
<1> HIDE DEF sizes, all, o, n
<1>1. CASE s \in DeviceNumbers
  <2>1. /\ s \in DOMAIN sizes /\ sizes[s] = sizeofUInt32
        /\ s \in DOMAIN all /\ all[s] = Sized(sizeofUInt32)
    BY <1>1, <1>a DEF SizesOfDevice, FixedSizesOfDevice, DataOfDevice
  <2>2. s \notin Varying
    BY <1>1 DEF DeviceNumbers, Varying
  <2> QED BY <2>1, <2>2, ValuesAgree, SizesAre
<1>2. CASE s \in DeviceStrings
  <2>1. /\ s \in DOMAIN sizes /\ sizes[s] = sizeofCFTypeRef
        /\ s \in DOMAIN all /\ all[s] = String
    BY <1>2, <1>a DEF SizesOfDevice, FixedSizesOfDevice, DataOfDevice
  <2>2. s \notin Varying
    BY <1>2 DEF DeviceStrings, Varying
  <2> QED BY <2>1, <2>2, ValuesAgree, SizesAre
<1>3. CASE s \in DeviceReferences
  <2>1. /\ s \in DOMAIN sizes /\ sizes[s] = sizeofCFTypeRef
        /\ s \in DOMAIN all /\ all[s] = Sized(sizeofCFTypeRef)
    BY <1>3, <1>a DEF SizesOfDevice, FixedSizesOfDevice, DataOfDevice
  <2>2. s \notin Varying
    BY <1>3 DEF DeviceReferences, MicMix, Varying
  <2> QED BY <2>1, <2>2, ValuesAgree, SizesAre
<1>4. CASE s \in {"NominalSampleRate", "PreferredChannelsForStereo", "PreferredChannelLayout"}
  <2>1. s \notin Varying
    BY <1>4 DEF Varying
  <2>2. PICK size \in {sizeofFloat64, 2 * sizeofUInt32, sizeofStereoLayout} :
          /\ s \in DOMAIN sizes /\ sizes[s] = size
          /\ s \in DOMAIN all /\ all[s] = Sized(size)
    BY <1>4, <1>a DEF SizesOfDevice, FixedSizesOfDevice, DataOfDevice
  <2>3. size \in Nat
    BY SizesAre
  <2> QED BY <2>1, <2>2, <2>3, ValuesAgree
<1>5. CASE s = "RelatedDevices"
  <2>1. o \in Answering(o, s)
    BY <1>5, <1>d
  <2>2. Complete(IDList(<<o>>, 1), IDs(1), o, s, scope)
    BY <2>1, CompleteOne
  <2>3. /\ s \in DOMAIN sizes /\ sizes[s] = IDs(1)
        /\ s \in DOMAIN all /\ all[s] = IDList(<<o>>, 1)
    BY <1>5, <1>a, SizesAre DEF SizesOfDevice, FixedSizesOfDevice, DataOfDevice, o
  <2> QED BY <2>2, <2>3, ListsAgree, SizesAre
<1>6. CASE s = "AvailableNominalSampleRates"
  <2>1. Complete(List(16, Data(1), 1), 16 * 1, o, s, scope)
    BY CompleteData
  <2>2. /\ s \in DOMAIN sizes /\ sizes[s] = 16 * 1
        /\ s \in DOMAIN all /\ all[s] = List(16, Data(1), 1)
    BY <1>6, <1>a, <1>b, <1>c DEF SizesOfDevice, FixedSizesOfDevice, DataOfDevice, DeviceLists, sizeofAudioValueRange
  <2> QED BY <2>1, <2>2, ListsAgree
<1>7. CASE s = "CustomPropertyInfoList"
  <2> DEFINE k == NumberOfCustomProperties(d)
  <2>1. k \in {5, 7}
    BY DEF NumberOfCustomProperties
  <2>2. /\ s \in DOMAIN sizes /\ sizes[s] = k * sizeofCustomInfo
        /\ s \in DOMAIN all /\ all[s] = List(12, Data(k), k)
    BY <1>7, <1>a, <1>b, <1>c DEF SizesOfDevice, FixedSizesOfDevice, DataOfDevice, DeviceLists, sizeofCustomInfo
  <2> HIDE DEF k
  <2>3. k * sizeofCustomInfo = 12 * k
    BY <2>1 DEF sizeofCustomInfo
  <2>4. Complete(List(12, Data(k), k), 12 * k, o, s, scope)
    BY <2>1, CompleteData
  <2> QED BY <2>1, <2>2, <2>3, <2>4, ListsAgree
<1>8. ASSUME NEW list \in Seq(Answering(o, s)), NEW most \in Nat, NEW size \in Nat,
             s \in DOMAIN sizes, s \in DOMAIN all, sizes[s] = IDs(size),
             all[s] = IDList(list, most), most <= Len(list),
             most = size \/ CutShort(o, s, scope)
      PROVE  Agree(sizes, all, o, scope, s)
  <2>1. Complete(IDList(list, most), IDs(size), o, s, scope)
    BY <1>8, CompleteIDs
  <2>2. IDs(size) \in Nat
    BY SizesAre
  <2> QED BY <1>8, <2>1, <2>2, ListsAgree
<1>10. CASE s = "Streams"
  <2>1. /\ s \in DOMAIN sizes /\ sizes[s] = IDs(Len(Streams(d, scope)))
        /\ s \in DOMAIN all /\ all[s] = IDList(Streams(d, scope), Len(Streams(d, scope)))
    BY <1>10, <1>a, <1>b, <1>c, <1>e DEF SizesOfDevice, FixedSizesOfDevice, DataOfDevice, DeviceLists
  <2>2. Len(Streams(d, scope)) \in Nat
    BY <1>e
  <2> QED BY SMTT(40), <1>8, <1>e, <2>1, <2>2
<1>11. CASE s = "ControlList"
  <2>1. /\ s \in DOMAIN sizes /\ sizes[s] = IDs(n)
        /\ s \in DOMAIN all /\ all[s] = IDList(OutputControls(d), n)
    BY <1>11, <1>a, <1>b, <1>c DEF SizesOfDevice, FixedSizesOfDevice, DataOfDevice, DeviceLists
  <2> QED BY <1>8, <1>11, <1>e, <2>1
<1>12. CASE s = "OwnedObjects"
  <2> DEFINE both == Streams(d, scope) \o OutputControls(d)
  <2>1. both \in Seq(Answering(o, s)) /\ Len(both) = Len(Streams(d, scope)) + n
    BY <1>12, <1>e, ConcatProperties
  <2>2. /\ s \in DOMAIN sizes /\ s \in DOMAIN all
        /\ sizes[s] = Device_ControlSizes(d, scope)["OwnedObjects"]
        /\ all[s] = Device_OwnedObjects(d, scope)
    BY <1>12, <1>a, <1>c DEF SizesOfDevice, FixedSizesOfDevice, DataOfDevice, DeviceLists
  <2> HIDE DEF both
  <2>5. CASE scope = "Global"
    <3>1. /\ sizes[s] = IDs(2 + n) /\ all[s] = IDList(both, 2 + n)
          /\ 2 + n \in Nat /\ Len(both) = 2 + n
      BY <1>b, <1>e, <1>f, <2>1, <2>2, <2>5 DEF both
    <3> QED BY <1>8, <2>1, <2>2, <3>1
  <2>6. CASE scope = "Input"
    <3>1. sizes[s] = IDs(1) /\ all[s] = IDList(Streams(d, scope), 1)
      BY <1>b, <1>f, <2>2, <2>6
    <3>2. 1 \in Nat /\ 1 <= Len(Streams(d, scope))
      BY <1>e, <2>6
    <3> QED BY <1>8, <1>e, <2>2, <3>1, <3>2
  <2>7. CASE scope = "Output"
    <3>1. /\ sizes[s] = IDs(1 + n) /\ all[s] = IDList(both, n)
          /\ 1 + n \in Nat /\ n <= Len(both)
      BY <1>b, <1>e, <1>f, <2>1, <2>2, <2>7 DEF both
    <3>2. CutShort(o, s, scope)
      BY <1>12, <2>7 DEF CutShort
    <3> QED BY <1>8, <1>e, <2>1, <2>2, <3>1, <3>2
  <2> QED BY <2>5, <2>6, <2>7 DEF Scopes
<1> QED BY <1>0, <1>1, <1>2, <1>3, <1>4, <1>5, <1>6, <1>7, <1>10, <1>11, <1>12 DEF DeviceLists

\* The objects, by their class.
LEMMA ObjectKinds ==
    ASSUME NEW o \in LookUpOwnerObject
    PROVE  \/ o = PlugIn \/ o = NullDevice
           \/ \E d \in Devices : o = <<d, "self">> /\ o # PlugIn /\ o # NullDevice
           \/ o # PlugIn /\ o[2] \in {"input", "output"} /\ o \notin DeviceObjects
           \/ o # PlugIn /\ o[2] = "volume" /\ o \notin DeviceObjects
           \/ o # PlugIn /\ o[2] = "mute" /\ o \notin DeviceObjects
<1>1. \A d \in Devices : <<d, "self">> # PlugIn /\ <<d, "self">> # NullDevice
  BY ObjectsAssumption DEF PlugIn, NullDevice
<1>2. \/ o = PlugIn \/ o = NullDevice \/ o = <<"null", "output">>
      \/ \E d \in Devices : o = <<d, "self">>
      \/ \E d \in Devices : o \in {<<d, "input">>, <<d, "output">>, <<d, "volume">>, <<d, "mute">>}
  BY DEF LookUpOwnerObject, Parts
<1>3. \A x, part : part # "self" => <<x, part>> # PlugIn /\ <<x, part>> \notin DeviceObjects
  BY DEF PlugIn, NullDevice, DeviceObjects
<1> QED BY <1>1, <1>2, <1>3

\* Every object's five switches agree.
LEMMA ObjectsAgree ==
    ASSUME TypeOK, NEW o \in LookUpOwnerObject, NEW scope \in ScopesOf(o),
           NEW s \in HasProperty(o, scope)
    PROVE  Agree(DataSize(o, scope), PropertyData(o, scope), o, scope, s)
<1>1. scope \in Scopes
  BY DEF ScopesOf, Scopes
<1>2. CASE o = PlugIn
  BY <1>2, PlugInAgrees DEF DataSize, PropertyData, HasProperty
<1>3. CASE o = NullDevice
  <2>1. o # PlugIn /\ o[2] = "self"
    BY <1>3 DEF NullDevice, PlugIn
  <2> QED BY <1>1, <1>3, <2>1, NullDeviceAgrees DEF DataSize, PropertyData, HasProperty, Owned
<1>4. ASSUME NEW d \in Devices, o = <<d, "self">>, o # PlugIn, o # NullDevice
      PROVE  Agree(DataSize(o, scope), PropertyData(o, scope), o, scope, s)
  <2>1. o[2] = "self" /\ o[1] = d
    BY <1>4
  <2> QED BY <1>1, <1>4, <2>1, DeviceAgrees DEF DataSize, PropertyData, HasProperty, Owned
<1>5. CASE o # PlugIn /\ o[2] \in {"input", "output"}
  BY <1>5, StreamAgrees DEF DataSize, PropertyData, HasProperty, Owned
<1>6. CASE o # PlugIn /\ o[2] = "volume"
  BY <1>6, VolumeControlAgrees DEF DataSize, PropertyData, HasProperty, Owned
<1>7. CASE o # PlugIn /\ o[2] = "mute"
  BY <1>7, MuteControlAgrees DEF DataSize, PropertyData, HasProperty, Owned
<1> QED BY <1>2, <1>3, <1>4, <1>5, <1>6, <1>7, ObjectKinds

\* What an object says may be set, it sets.
MaySet(settable, sets, s) == s \in DOMAIN settable /\ (settable[s] = Fixed \/ s \in sets)

LEMMA ObjectsMaySet ==
    ASSUME NEW o \in LookUpOwnerObject, NEW scope \in ScopesOf(o), NEW s \in HasProperty(o, scope)
    PROVE  MaySet(IsPropertySettable(o), Sets(o), s)
<1>1. \A t \in Object_HasProperty :
          t \in DOMAIN Object_IsPropertySettable /\ Object_IsPropertySettable[t] = Fixed
  BY AllIs DEF Object_IsPropertySettable
<1>2. \A t \in AbstractDevice_HasProperty :
          t \in DOMAIN AbstractDevice_IsPropertySettable /\ AbstractDevice_IsPropertySettable[t] = Fixed
  BY Over, AllIs DEF AbstractDevice_IsPropertySettable
<1>3. \A t \in Control_HasProperty :
          t \in DOMAIN Control_IsPropertySettable /\ Control_IsPropertySettable[t] = Fixed
  BY <1>1, Over, AllIs DEF Control_IsPropertySettable, Control_HasProperty, Object_HasProperty
<1>4. CASE o = PlugIn
  <2>1. MaySet(PlugIn_IsPropertySettable, PlugIn_SetPropertyData, s)
    BY <1>1, <1>4, Over, AllIs
       DEF MaySet, HasProperty, Object_HasProperty, PlugIn_HasProperty, PlugIn_IsPropertySettable, PlugIn_SetPropertyData
  <2> QED BY <1>4, <2>1 DEF IsPropertySettable, Sets
<1>5. CASE o = NullDevice
  <2>1. o # PlugIn /\ o[2] = "self"
    BY <1>5 DEF NullDevice, PlugIn
  <2>2. s \in AbstractDevice_HasProperty
    BY <1>5, <2>1 DEF HasProperty, Owned
  <2> QED BY <1>2, <1>5, <2>1, <2>2 DEF MaySet, IsPropertySettable, Sets, Owned
<1>6. ASSUME NEW d \in Devices, o = <<d, "self">>, o # PlugIn, o # NullDevice
      PROVE  MaySet(IsPropertySettable(o), Sets(o), s)
  <2>1. o[2] = "self" /\ o[1] = d
    BY <1>6
  <2>2. s \in Device_HasProperty(d, scope)
    BY <1>6, <2>1 DEF HasProperty, Owned
  <2>3. MaySet(Device_IsPropertySettable(d), Device_SetPropertyData(d), s)
    <3> DEFINE settable == Device_IsPropertySettable(d)
    <3>1. CASE s \in {"NominalSampleRate", "MusicPlayerProcessID", "MusicPlayerBundleID",
                      "EnabledOutputControls"}
      BY <3>1, Over, AllIs DEF MaySet, Device_IsPropertySettable, Device_SetPropertyData
    <3>2. CASE s = "InjectMicAudio"
      <4>1. SupportsMicMix(d)
        BY <2>2, <3>2
           DEF Device_HasProperty, AbstractDevice_HasProperty, Object_HasProperty, Directional
      <4>2. s \in DOMAIN settable
        BY <3>2, Over, AllIs DEF Device_IsPropertySettable
      <4> QED BY <3>2, <4>1, <4>2 DEF MaySet, Device_SetPropertyData
    <3>3. CASE s \in Directional \cup {"Streams", "Icon", "CustomPropertyInfoList", "AudibleState",
                                       "IsRunningElsewhere", "InputIsRunningElsewhere"}
      <4>1. s \notin {"NominalSampleRate", "MusicPlayerProcessID", "MusicPlayerBundleID",
                      "EnabledOutputControls", "InjectMicAudio"}
        BY <3>3 DEF Directional
      <4>2. s \in DOMAIN settable /\ settable[s] = Fixed
        BY <3>3, <4>1, Over, AllIs DEF Device_IsPropertySettable
      <4> QED BY <4>2 DEF MaySet
    <3>4. CASE /\ s \in AbstractDevice_HasProperty
               /\ s \notin Directional \cup {"Streams", "NominalSampleRate"}
      <4>1. s \notin {"NominalSampleRate", "MusicPlayerProcessID", "MusicPlayerBundleID",
                      "EnabledOutputControls", "InjectMicAudio"}
        BY <3>4 DEF AbstractDevice_HasProperty, Object_HasProperty
      <4>2. s \notin Directional \cup {"Streams", "Icon", "CustomPropertyInfoList", "AudibleState",
                                       "IsRunningElsewhere", "InputIsRunningElsewhere"}
        BY <3>4 DEF AbstractDevice_HasProperty, Object_HasProperty
      <4>3. s \in DOMAIN settable /\ settable[s] = Fixed
        BY <1>2, <3>4, <4>1, <4>2, Over, AllIs DEF Device_IsPropertySettable
      <4> QED BY <4>3 DEF MaySet
    <3> QED BY <2>2, <3>1, <3>2, <3>3, <3>4 DEF Device_HasProperty, MicMix
  <2> QED BY <1>6, <2>1, <2>3 DEF IsPropertySettable, Sets, Owned
<1>7. CASE o # PlugIn /\ o[2] \in {"input", "output"}
  <2>1. MaySet(Stream_IsPropertySettable, Stream_SetPropertyData, s)
    BY <1>1, <1>7, Over, AllIs
       DEF MaySet, HasProperty, Owned, Object_HasProperty, Stream_HasProperty, Stream_IsPropertySettable,
           Stream_SetPropertyData
  <2> QED BY <1>7, <2>1 DEF IsPropertySettable, Sets, Owned
<1>8. CASE o # PlugIn /\ o[2] = "volume"
  <2>1. MaySet(VolumeControl_IsPropertySettable, VolumeControl_SetPropertyData, s)
    BY <1>3, <1>8, Over, AllIs
       DEF MaySet, HasProperty, Owned, VolumeControl_HasProperty, VolumeControl_IsPropertySettable,
           VolumeControl_SetPropertyData
  <2> QED BY <1>8, <2>1 DEF IsPropertySettable, Sets, Owned
<1>9. CASE o # PlugIn /\ o[2] = "mute"
  <2>1. MaySet(MuteControl_IsPropertySettable, MuteControl_SetPropertyData, s)
    BY <1>3, <1>9, Over, AllIs
       DEF MaySet, HasProperty, Owned, MuteControl_HasProperty, MuteControl_IsPropertySettable,
           MuteControl_SetPropertyData
  <2> QED BY <1>9, <2>1 DEF IsPropertySettable, Sets, Owned
<1> QED BY <1>4, <1>5, <1>6, <1>7, <1>8, <1>9, ObjectKinds

\* Only the lists that vary change their size, and only when a control or the
\* null device comes or goes.
LEMMA LaidOver ==
    ASSUME NEW f, NEW g, NEW h, NEW s, s \notin DOMAIN f, s \notin DOMAIN g, s \in DOMAIN h
    PROVE  (f ++ h)[s] = (g ++ h)[s]
BY Over

LEMMA PlugInSizesStay ==
    ASSUME NEW s \in PlugIn_HasProperty, UNCHANGED nullDeviceActive \/ s \notin Varying
    PROVE  (PlugIn_GetPropertyDataSize')[s] = PlugIn_GetPropertyDataSize[s]
<1> DEFINE now == All({"OwnedObjects", "DeviceList"}, IDs(IF nullDeviceActive THEN 3 ELSE 2))
           then == All({"OwnedObjects", "DeviceList"}, IDs(IF nullDeviceActive' THEN 3 ELSE 2))
<1>1. /\ PlugIn_GetPropertyDataSize = now ++ PlugIn_FixedSizes
      /\ PlugIn_GetPropertyDataSize' = then ++ PlugIn_FixedSizes
  BY DEF PlugIn_GetPropertyDataSize, PlugIn_FixedSizes, Object_GetPropertyDataSize
<1>2. CASE UNCHANGED nullDeviceActive
  BY <1>1, <1>2
<1>3. CASE s \notin Varying
  <2>1. s \notin DOMAIN now /\ s \notin DOMAIN then
    BY <1>3, AllIs DEF Varying
  <2>2. s \in DOMAIN PlugIn_FixedSizes
    BY <1>3, Over, AllIs, ObjectTells
       DEF Tells, PlugIn_FixedSizes, PlugIn_HasProperty, Object_HasProperty, Varying
  <2> HIDE DEF now, then
  <2> QED BY <1>1, <2>1, <2>2, LaidOver
<1> QED BY <1>2, <1>3

LEMMA DeviceSizesStay ==
    ASSUME NEW d \in Devices, NEW scope, NEW s \in Device_HasProperty(d, scope),
           UNCHANGED active \/ s \notin Varying
    PROVE  (Device_GetPropertyDataSize(d, scope)')[s] = Device_GetPropertyDataSize(d, scope)[s]
<1> DEFINE Listed(n) == CASE scope = "Global" -> IDs(2 + n)
                         [] scope = "Input" -> IDs(1)
                         [] scope = "Output" -> IDs(1 + n)
           Sizes(n) == All({"OwnedObjects"}, Listed(n)) ++ All({"ControlList"}, IDs(n))
           now == Sizes(Cardinality(active[d]))
           then == Sizes(Cardinality(active'[d]))
<1>1. /\ Device_GetPropertyDataSize(d, scope) = now ++ Device_FixedSizes(d, scope)
      /\ Device_GetPropertyDataSize(d, scope)' = then ++ Device_FixedSizes(d, scope)
  BY DEF Device_GetPropertyDataSize, Device_ControlSizes, GetNumberOfOutputControls,
         Device_FixedSizes, AbstractDevice_GetPropertyDataSize, Object_GetPropertyDataSize
<1>2. CASE UNCHANGED active
  BY <1>1, <1>2
<1>3. CASE s \notin Varying
  <2> HIDE DEF Listed
  <2>1. s \notin DOMAIN now /\ s \notin DOMAIN then
    BY <1>3, Over, AllIs DEF Varying
  <2>2. s \in DOMAIN Device_FixedSizes(d, scope)
    BY <1>3, DeviceFixedSizes
       DEF FixedSizesOfDevice, DeviceNumbers, DeviceStrings, DeviceReferences, MicMix, Directional,
           Device_HasProperty, AbstractDevice_HasProperty, Object_HasProperty, Varying
  <2> HIDE DEF now, then
  <2> QED BY <1>1, <2>1, <2>2, LaidOver
<1> QED BY <1>2, <1>3

LEMMA SizesStay ==
    ASSUME NEW o \in LookUpOwnerObject, NEW scope \in ScopesOf(o), NEW s \in HasProperty(o, scope),
           UNCHANGED <<active, nullDeviceActive>> \/ s \notin Varying
    PROVE  (DataSize(o, scope)')[s] = DataSize(o, scope)[s]
<1>1. CASE o = PlugIn
  BY <1>1, PlugInSizesStay DEF DataSize, HasProperty
<1>2. CASE o = NullDevice
  BY <1>2 DEF NullDevice, PlugIn, DataSize, Owned, NullDevice_GetPropertyDataSize,
              AbstractDevice_GetPropertyDataSize, Object_GetPropertyDataSize
<1>3. ASSUME NEW d \in Devices, o = <<d, "self">>, o # PlugIn, o # NullDevice
      PROVE  (DataSize(o, scope)')[s] = DataSize(o, scope)[s]
  <2>1. o[2] = "self" /\ o[1] = d
    BY <1>3
  <2>2. DataSize(o, scope) = Device_GetPropertyDataSize(d, scope)
    BY <1>3, <2>1 DEF DataSize, Owned
  <2>3. DataSize(o, scope)' = Device_GetPropertyDataSize(d, scope)'
    BY <1>3, <2>1 DEF DataSize, Owned
  <2>4. s \in Device_HasProperty(d, scope)
    BY <1>3, <2>1 DEF HasProperty, Owned
  <2> QED BY <2>2, <2>3, <2>4, DeviceSizesStay
<1>4. CASE o # PlugIn /\ o[2] \in {"input", "output", "volume", "mute"}
  BY <1>4 DEF DataSize, Owned, Stream_GetPropertyDataSize, VolumeControl_GetPropertyDataSize,
              MuteControl_GetPropertyDataSize, Control_GetPropertyDataSize, Object_GetPropertyDataSize
<1> QED BY <1>1, <1>2, <1>3, <1>4, ObjectKinds

\* The HAL was told the size that the property has, unless a list has changed
\* since.
Told(o, scope, s, room, changed) ==
    /\ o \in LookUpOwnerObject /\ scope \in ScopesOf(o) /\ s \in HasProperty(o, scope)
    /\ call = [object |-> o, selector |-> s, scope |-> scope, room |-> room, changed |-> changed]
    /\ room \in Nat /\ changed \in BOOLEAN
    /\ room = DataSize(o, scope)[s] \/ (changed /\ s \in Varying)

Asked == call = NoCall \/ \E o, scope, s, room, changed : Told(o, scope, s, room, changed)

\* The answer of a complete list, whatever has changed since its size was told.
LEMMA AnswerOfList ==
    ASSUME NEW o, NEW scope, NEW s, NEW room \in Nat, NEW changed \in BOOLEAN, NEW size, NEW list,
           call = [object |-> o, selector |-> s, scope |-> scope, room |-> room, changed |-> changed],
           Complete(list, size, o, s, scope), room = size \/ changed, outcome' = ListAnswer(list)
    PROVE  HonestAnswers' /\ ListsAnswered'
<1> DEFINE n == Min({room \div list.item, list.most})
           count == Len(list.content)
           unwritten == n > count
           missing == ~changed /\ n * list.item < room
<1>1. /\ call.object = o /\ call.selector = s /\ call.scope = scope
      /\ call.room = room /\ call.changed = changed
  OBVIOUS
<1>2. /\ list.item \in {4, 12, 16, 56} /\ list.most \in Nat /\ count \in Nat /\ list.most <= count
  BY LenProperties DEF Complete
<1>3. room \div list.item \in Nat
  BY <1>2
<1>4. n = IF room \div list.item <= list.most THEN room \div list.item ELSE list.most
  BY <1>2, <1>3, MinOfTwo
<1>5. outcome' = [accepted |-> TRUE, of |-> <<o, s, scope>>,
                  listed |-> IF list.item = sizeofUInt32
                             THEN SubSeq(list.content, 1, Min({n, count})) ELSE << >>,
                  unwritten |-> unwritten, missing |-> missing]
  BY <1>1 DEF ListAnswer
<1> HIDE DEF n
<1>6. n \in Nat /\ n <= count
  BY <1>2, <1>3, <1>4
<1>7. list.item * list.most = room => n * list.item = room
  <2> DEFINE most == list.most
  <2>1. \A item \in {4, 12, 16, 56} : (item * most) \div item = most /\ most * item = item * most
    BY <1>2
  <2> QED BY <1>2, <1>4, <2>1
<1>8. ~unwritten /\ (missing => CutShort(o, s, scope))
  <2>1. room \in Int /\ ~(room < room)
    OBVIOUS
  <2> QED BY <1>2, <1>6, <1>7, <2>1 DEF Complete
<1> HIDE DEF unwritten, missing, count
<1>9. Min({n, count}) = n
  BY <1>2, <1>6, MinOfTwo
<1>10. ASSUME list.item = sizeofUInt32
       PROVE  SubSeq(list.content, 1, n) \in Seq(Answering(o, s))
  <2>1. list.content \in Seq(Answering(o, s))
    BY <1>10 DEF Complete
  <2>2. 1 \in 1 .. Len(list.content) + 1 /\ n \in (1 - 1) .. Len(list.content)
    BY <1>2, <1>6 DEF count
  <2> QED BY <2>1, <2>2, SubSeqProperties
<1>11. outcome'.listed \in Seq(Answering(o, s))
  <2> DEFINE listed == IF list.item = sizeofUInt32
                       THEN SubSeq(list.content, 1, Min({n, count})) ELSE << >>
  <2>1. listed \in Seq(Answering(o, s))
    BY <1>9, <1>10, EmptySeq
  <2> HIDE DEF listed
  <2>2. outcome'.listed = listed
    BY <1>5 DEF listed
  <2> QED BY <2>1, <2>2
<1>12. ListedObjectsAnswer'
  <2> SUFFICES ASSUME NEW i \in 1 .. Len(outcome'.listed)
               PROVE  LET x == outcome'.listed[i]
                      IN  \/ /\ x \in LookUpOwnerObject
                             /\ outcome'.of[2] # "RelatedDevices" => Owner(x) = outcome'.of[1]
                          \/ x = kAudioObjectUnknown /\ ListsMuteWithoutID(outcome'.of[1], outcome'.of[2])
    BY DEF ListedObjectsAnswer, LookUpOwnerObject, ListsMuteWithoutID, Owner
  <2>1. outcome'.listed[i] \in Answering(o, s)
    BY <1>11, LenProperties
  <2>2. outcome'.of[1] = o /\ outcome'.of[2] = s
    BY <1>5
  <2> QED BY <2>1, <2>2 DEF Answering
<1>13. outcome'.accepted /\ ~outcome'.unwritten
  BY <1>5, <1>8
<1>14. outcome'.missing => CutShort(outcome'.of[1], outcome'.of[2], outcome'.of[3])
  BY <1>5, <1>8
<1> QED BY <1>12, <1>13, <1>14 DEF HonestAnswers, ListsAnswered

LEMMA AnswerOfNone ==
    ASSUME NEW yes, NEW no, NEW none, Len(none) = 0,
           outcome' = [accepted |-> yes, of |-> none, listed |-> none,
                       unwritten |-> no, missing |-> no]
    PROVE  /\ outcome'.accepted = yes /\ outcome'.unwritten = no /\ outcome'.missing = no
           /\ ListedObjectsAnswer'
<1>1. outcome'.listed = none
  OBVIOUS
<1>2. \A i \in 1 .. Len(outcome'.listed) : FALSE
  BY <1>1
<1>3. ListedObjectsAnswer'
  BY <1>2 DEF ListedObjectsAnswer
<1> QED BY <1>3

LEMMA AnswerDone ==
    ASSUME outcome' = Done(TRUE)
    PROVE  HonestAnswers' /\ ListsAnswered'
<1> DEFINE yes == TRUE
           no == FALSE
           none == << >>
<1>1. outcome' = [accepted |-> yes, of |-> none, listed |-> none, unwritten |-> no, missing |-> no]
  BY DEF Done
<1>2. Len(none) = 0
  BY EmptySeq
<1> HIDE DEF yes, no, none
<1>3. /\ outcome'.accepted = yes /\ outcome'.unwritten = no /\ outcome'.missing = no
      /\ ListedObjectsAnswer'
  BY <1>1, <1>2, AnswerOfNone
<1> QED BY <1>3 DEF HonestAnswers, ListsAnswered, yes, no

LEMMA DataAnswers ==
    ASSUME TypeOK, Asked, GetPropertyData
    PROVE  HonestAnswers' /\ ListsAnswered'
<1>1. call # NoCall
  BY DEF GetPropertyData
<1>2. PICK o, scope, s, room, changed : Told(o, scope, s, room, changed)
  BY <1>1 DEF Asked
<1> DEFINE all == PropertyData(o, scope)
           size == DataSize(o, scope)[s]
<1>3. Agree(DataSize(o, scope), all, o, scope, s)
  BY <1>2, ObjectsAgree DEF Told
<1>4. call.object = o /\ call.selector = s /\ call.scope = scope /\ call.room = room
  BY <1>2 DEF Told
<1>5. outcome' = CASE s \notin DOMAIN all \/ all[s] = Throws -> Done(FALSE)
                   [] all[s].kind = "value" ->
                        Done(room >= all[s].needs /\ room >= all[s].size)
                   [] all[s].kind = "list" -> ListAnswer(all[s])
  BY <1>4 DEF GetPropertyData
<1>6. s \in DOMAIN all /\ (all[s].kind \in {"value", "list"} => all[s] # Throws)
  BY <1>3 DEF Agree, Throws
<1> HIDE DEF all, size
<1>7. CASE all[s].kind = "value"
  <2>1. /\ all[s].needs <= size /\ all[s].size <= size /\ s \notin Varying
        /\ all[s].needs \in Nat /\ all[s].size \in Nat /\ size \in Nat
    BY <1>3, <1>7 DEF Agree, Complete, size
  <2>2. room = size
    BY <1>2, <2>1 DEF size, Told
  <2>3. (room >= all[s].needs /\ room >= all[s].size) = TRUE
    BY <2>1, <2>2
  <2>4. outcome' = Done(room >= all[s].needs /\ room >= all[s].size)
    BY <1>5, <1>6, <1>7
  <2>5. outcome' = Done(TRUE)
    BY <2>3, <2>4
  <2> QED BY <2>5, AnswerDone
<1>8. CASE Complete(all[s], size, o, s, scope)
  <2>1. all[s].kind = "list"
    BY <1>8 DEF Complete
  <2>2. outcome' = ListAnswer(all[s])
    BY <1>5, <1>6, <2>1
  <2>3. room = size \/ changed
    BY <1>2 DEF size, Told
  <2>4. /\ room \in Nat /\ changed \in BOOLEAN
        /\ call = [object |-> o, selector |-> s, scope |-> scope, room |-> room, changed |-> changed]
    BY <1>2 DEF Told
  <2> QED BY <1>8, <2>2, <2>3, <2>4, AnswerOfList
<1> QED BY <1>3, <1>7, <1>8 DEF Agree, size

\* A call that is under way stays what it was, and knows when a list changes.
LEMMA ListsChangeKeepsAsked ==
    ASSUME Asked, ListsChange \/ UNCHANGED <<call, active, nullDeviceActive>>
    PROVE  Asked'
<1>1. CASE call = NoCall
  BY <1>1 DEF Asked, ListsChange
<1>2. CASE call # NoCall
  <2>1. PICK o, scope, s, room, changed : Told(o, scope, s, room, changed)
    BY <1>2 DEF Asked
  <2>2. CASE UNCHANGED <<call, active, nullDeviceActive>>
    <3>1. (DataSize(o, scope)')[s] = DataSize(o, scope)[s]
      BY <2>1, <2>2, SizesStay DEF Told
    <3>2. Told(o, scope, s, room, changed)'
      BY <2>1, <2>2, <3>1 DEF Told, ScopesOf, LookUpOwnerObject, DeviceObjects
    <3> QED BY <3>2 DEF Asked
  <2>3. CASE ListsChange /\ ~UNCHANGED <<active, nullDeviceActive>>
    <3>1. call' = [object |-> o, selector |-> s, scope |-> scope, room |-> room, changed |-> TRUE]
      BY <1>2, <2>1, <2>3 DEF ListsChange, Told
    <3>2. s \notin Varying => (DataSize(o, scope)')[s] = DataSize(o, scope)[s]
      BY <2>1, SizesStay DEF Told
    <3>3. Told(o, scope, s, room, TRUE)'
      BY <2>1, <3>1, <3>2 DEF Told
    <3> QED BY <3>3 DEF Asked
  <2>4. ListsChange /\ UNCHANGED <<active, nullDeviceActive>> => UNCHANGED call
    BY DEF ListsChange
  <2> QED BY <2>2, <2>3, <2>4
<1> QED BY <1>1, <1>2

LEMMA NextAnswers ==
    ASSUME TypeOK, Asked, HonestAnswers, ListsAnswered, [DriverNext]_driverVars
    PROVE  Asked' /\ HonestAnswers' /\ ListsAnswered'
<1>1. ASSUME UNCHANGED outcome
      PROVE  HonestAnswers' /\ ListsAnswered'
  BY <1>1 DEF HonestAnswers, ListsAnswered, ListedObjectsAnswer
<1>2. CASE DeviceCalls
  <2>1. ListsChange
    BY <1>2 DEF DeviceCalls
  <2> QED BY <1>1, <2>1, ListsChangeKeepsAsked DEF ListsChange
<1>3. CASE IOCalls \/ UNCHANGED driverVars
  <2>1. UNCHANGED <<call, outcome, active, nullDeviceActive>>
    BY <1>3 DEF IOCalls, driverVars, questionVars, vars, config, setting
  <2> QED BY <1>1, <2>1, ListsChangeKeepsAsked
<1>4. ASSUME NEW o \in LookUpOwnerObject, NEW scope \in ScopesOf(o), NEW s \in HasProperty(o, scope),
             GetPropertyDataSize(o, s, scope), UNCHANGED vars
      PROVE  Asked' /\ HonestAnswers' /\ ListsAnswered'
  <2>1. s \in DOMAIN DataSize(o, scope) /\ DataSize(o, scope)[s] \in Nat
    BY ObjectsAgree DEF Agree
  <2>2. /\ call' = [object |-> o, selector |-> s, scope |-> scope,
                    room |-> DataSize(o, scope)[s], changed |-> FALSE]
        /\ outcome' = Done(TRUE)
    BY <1>4, <2>1 DEF GetPropertyDataSize
  <2>3. (DataSize(o, scope)')[s] = DataSize(o, scope)[s]
    BY <1>4, SizesStay DEF vars, config, setting
  <2>4. Told(o, scope, s, DataSize(o, scope)[s], FALSE)'
    BY <2>1, <2>2, <2>3 DEF Told
  <2> QED BY <2>2, <2>4, AnswerDone DEF Asked
<1>5. CASE GetPropertyData
  <2>1. Asked'
    BY <1>5 DEF GetPropertyData, Asked
  <2> QED BY <1>5, <2>1, DataAnswers
<1>6. ASSUME NEW o \in LookUpOwnerObject, NEW scope \in ScopesOf(o), NEW s \in HasProperty(o, scope),
             SetPropertyData(o, s)
      PROVE  Asked' /\ HonestAnswers' /\ ListsAnswered'
  <2> DEFINE settable == IsPropertySettable(o)
  <2>1. s \in DOMAIN settable /\ (settable[s] = Fixed \/ s \in Sets(o))
    BY ObjectsMaySet DEF MaySet
  <2>2. UNCHANGED call /\ call = NoCall
        /\ outcome' = Done(s \in DOMAIN settable /\ (settable[s] => s \in Sets(o)))
    BY <1>6 DEF SetPropertyData
  <2>3. (s \in DOMAIN settable /\ (settable[s] => s \in Sets(o))) = TRUE
    BY <2>1 DEF Fixed
  <2>4. outcome' = Done(TRUE)
    BY <2>2, <2>3
  <2> QED BY <2>2, <2>4, AnswerDone DEF Asked
<1>7. ASSUME NEW d \in DeviceObjects, DoIOOperation(d)
      PROVE  Asked' /\ HonestAnswers' /\ ListsAnswered'
  <2>1. WillDoIOOperation(d) \subseteq DoesIOOperation(d)
    BY DEF WillDoIOOperation, DoesIOOperation
  <2>2. UNCHANGED call /\ call = NoCall
        /\ outcome' = Done(WillDoIOOperation(d) \subseteq DoesIOOperation(d))
    BY <1>7 DEF DoIOOperation
  <2>3. (WillDoIOOperation(d) \subseteq DoesIOOperation(d)) = TRUE
    BY <2>1
  <2>4. outcome' = Done(TRUE)
    BY <2>2, <2>3
  <2> QED BY <2>2, <2>4, AnswerDone DEF Asked
<1>8. CASE PropertyCalls
  <2>1. Questions /\ UNCHANGED vars
    BY <1>8 DEF PropertyCalls
  <2> QED BY <1>4, <1>5, <1>6, <1>7, <2>1 DEF Questions
<1> QED BY <1>2, <1>3, <1>8 DEF DriverNext

LEMMA AnswersKept == DriverSpec => [](Asked /\ HonestAnswers /\ ListsAnswered)
<1>1. DriverInit => TypeOK /\ Asked /\ HonestAnswers /\ ListsAnswered
  <2> SUFFICES ASSUME DriverInit PROVE Asked /\ HonestAnswers /\ ListsAnswered
    BY InitType DEF DriverInit
  <2>1. call = NoCall /\ outcome = Done(TRUE)
    BY DEF DriverInit, QuestionsInit
  <2> QED BY <2>1, EmptySeq DEF Asked, Done, HonestAnswers, ListsAnswered, ListedObjectsAnswer
<1>2. TypeOK /\ [DriverNext]_driverVars => TypeOK'
  BY DriverStep, NextType
<1>3. TypeOK /\ Asked /\ HonestAnswers /\ ListsAnswered /\ [DriverNext]_driverVars
        => (TypeOK /\ Asked /\ HonestAnswers /\ ListsAnswered)'
  BY <1>2, NextAnswers
<1> QED BY <1>1, <1>3, PTL DEF DriverSpec

\* Every property that any of the driver's objects says it has, in any scope,
\* answers every question about it, whatever comes and goes between the call for
\* its size and the one for its data, and it is set if the object said it may be.
THEOREM AnswersAreHonest == DriverSpec => []HonestAnswers
BY AnswersKept, PTL

\* What is read of a list was written by it, no list hides an item that it said
\* it has while nothing changed, and every object that a list gives answers in
\* turn and names the list's object as its owner, but for the devices related to
\* it and the one mute control that has no ID.
THEOREM ListsAreAnswered == DriverSpec => []ListsAnswered
BY AnswersKept, PTL
=============================================================================

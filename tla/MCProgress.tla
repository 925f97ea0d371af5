----------------------------- MODULE MCProgress -----------------------------
(* The parts of RingRTC that must get somewhere, each behaviour being      *)
(* about one of them: which one is chosen at its start. Only that part has *)
(* any state, so all of them are instantiated over one set of variables; a *)
(* part with fewer leaves the others alone. The bounds of every part are   *)
(* given with its instance.                                                *)
EXTENDS Naturals

CONSTANTS
  p1, p2, self,   \* users and devices
  n1, n2, n3,        \* peers, rings, threads
  NoValue

(* Every device is of a user of its own. *)
Alone == [p \in {p1, p2} |-> p]

(* What an application can ask of a group call, muting apart. *)
Others ==
  {"presenting", "screenshare", "muteRequest", "ring", "resend", "dataMode",
   "requestVideo", "approve", "deny", "remove", "block", "members", "proof",
   "react", "raiseHand", "stats"}

VARIABLES
  focus,   \* the part the behaviour is about
  v1, v2, v3, v4, v5, v6, v7, v8, v9, v10, v11, v12, v13, v14, v15, v16, v17

vars == <<focus, v1, v2, v3, v4, v5, v6, v7, v8, v9, v10, v11, v12, v13, v14,
          v15, v16, v17>>

Keys == INSTANCE MediaKeys WITH
  CounterModulus <- 4, MaxReceiverStates <- 5, MaxOooFrames <- 1,
  MaxOooRatchets <- 1, Devices <- {p1, p2}, Users <- {p1, p2},
  UserOf <- Alone, MaxRoots <- 4, MaxLeaves <- 2, MaxInputs <- 1, call <- v1,
  gone <- v2, remote <- v3, members <- v4, keys <- v5, known <- v6,
  first <- v7, signaling <- v8, sees <- v9, receive <- v10, waiting <- v11,
  inputs <- v12

Controls == INSTANCE GroupControls WITH
  Devices <- {p1, p2}, SmallCall <- 1, MaxInputs <- 3, client <- v1,
  raises <- v2, hands <- v3, requests <- v4, sfu <- v5, inputs <- v6

Rings == INSTANCE GroupRings WITH
  Groups <- {n1}, RingIds <- {n2, n3}, Ringers <- {p1, p2}, Self <- self,
  NoRing <- NoValue, MaxMessages <- 2, MaxClients <- 1, MaxBusy <- 1,
  selfKnown <- v1, starts <- v2, rings <- v3, worker <- v4, clients <- v5,
  busy <- v6, showing <- v7, over <- v8, response <- v9, received <- v10,
  others <- v11

Admission == INSTANCE Admissions WITH
  Devices <- {p1, p2}, UserOf <- Alone, Self <- self, None <- NoValue,
  Leavers <- {p1}, MaxInputs <- 1, kind <- v1, sfu <- v2, quit <- v3,
  leaves <- v4, leavings <- v5, notices <- v6, admin <- v7, join_state <- v8,
  peek <- v9, heard <- v10, request <- v11, flight <- v12, delayed <- v13,
  told <- v14, inputs <- v15

Endorsed == INSTANCE Endorsements WITH
  Users <- {p1, p2}, MaxTime <- 2, endorsements <- v1, updated <- v2,
  invalid <- v3, now <- v4, sent <- v5, lastWord <- v6

Desktop == INSTANCE NodeCall WITH
  Calls <- {1, 2}, Peerings <- {<<n1, n1>>, <<n1, n2>>}, None <- NoValue,
  MaxUser <- 1, MaxEvents <- 1, PeerOf <- v1, active <- v2, phase <- v3,
  incoming <- v4, worker <- v5, events <- v6, left <- v7, _call <- v8,
  objs <- v9, tasks <- v10, timers <- v11, promises <- v12, refused <- v13,
  tracks <- v14, used <- v15, inputs <- v16

Events == INSTANCE NodeQueue WITH
  Threads <- {n1, n2}, Clients <- {p1}, None <- NoValue, MaxSent <- 2,
  MaxRequests <- 1, MaxThrows <- 1, queue <- v1, reported <- v2,
  wakeups <- v3, sending <- v4, js <- v5, batch <- v6, deferred <- v7,
  groupCalls <- v8, clients <- v9, ended <- v10, observed <- v11,
  asked <- v12, nextId <- v13, app <- v14, inFlight <- v15, sent <- v16,
  threw <- v17

Objects == INSTANCE AppObjects WITH
  Calls <- {1, 2}, NoCall <- NoValue, Proceeding <- {1}, MaxMessages <- 0,
  active <- v1, calls <- v2, conns <- v3, work <- v4, messages <- v5,
  in_flight <- v6, jni <- v7

Groups == INSTANCE AppGroupCalls WITH
  Objs <- {1, 2}, Media <- {"audio", "video"}, Operations <- Others, None <- NoValue,
  MaxClients <- 2, MaxInputs <- 4, platform <- v1, objs <- v2, tracks <- v3,
  thread <- v4, clients <- v5, running <- v6, events <- v7, inputs <- v8

Init ==
  \/ /\ focus = "keys" /\ Keys!Init
     /\ v13 = 0 /\ v14 = 0 /\ v15 = 0 /\ v16 = 0 /\ v17 = 0
  \/ /\ focus = "controls" /\ Controls!Init
     /\ v7 = 0 /\ v8 = 0 /\ v9 = 0 /\ v10 = 0 /\ v11 = 0 /\ v12 = 0 /\
        v13 = 0 /\ v14 = 0 /\ v15 = 0 /\ v16 = 0 /\ v17 = 0
  \/ /\ focus = "rings" /\ Rings!Init
     /\ v12 = 0 /\ v13 = 0 /\ v14 = 0 /\ v15 = 0 /\ v16 = 0 /\ v17 = 0
  \/ /\ focus = "admissions" /\ Admission!Init
     /\ v16 = 0 /\ v17 = 0
  \/ /\ focus = "endorsed" /\ Endorsed!Init
     /\ v7 = 0 /\ v8 = 0 /\ v9 = 0 /\ v10 = 0 /\ v11 = 0 /\ v12 = 0 /\
        v13 = 0 /\ v14 = 0 /\ v15 = 0 /\ v16 = 0 /\ v17 = 0
  \/ /\ focus = "desktop" /\ Desktop!Init
     /\ v17 = 0
  \/ /\ focus = "events" /\ Events!Init
  \/ /\ focus = "objects" /\ Objects!Init
     /\ v8 = 0 /\ v9 = 0 /\ v10 = 0 /\ v11 = 0 /\ v12 = 0 /\ v13 = 0 /\
        v14 = 0 /\ v15 = 0 /\ v16 = 0 /\ v17 = 0
  \/ /\ focus = "groups" /\ Groups!Init
     /\ v9 = 0 /\ v10 = 0 /\ v11 = 0 /\ v12 = 0 /\ v13 = 0 /\ v14 = 0 /\
        v15 = 0 /\ v16 = 0 /\ v17 = 0

(* A step of a part leaves the part in focus, and the variables after its n. *)
Rest(n) ==
  /\ UNCHANGED focus
  /\ n <= 6 => v7' = v7
  /\ n <= 7 => v8' = v8
  /\ n <= 8 => v9' = v9
  /\ n <= 9 => v10' = v10
  /\ n <= 10 => v11' = v11
  /\ n <= 11 => v12' = v12
  /\ n <= 12 => v13' = v13
  /\ n <= 13 => v14' = v14
  /\ n <= 14 => v15' = v15
  /\ n <= 15 => v16' = v16
  /\ n <= 16 => v17' = v17

Next ==
  \/ focus = "keys" /\ Keys!Next /\ Rest(12)
  \/ focus = "controls" /\ Controls!Next /\ Rest(6)
  \/ focus = "rings" /\ Rings!Next /\ Rest(11)
  \/ focus = "admissions" /\ Admission!Next /\ Rest(15)
  \/ focus = "endorsed" /\ Endorsed!Next /\ Rest(6)
  \/ focus = "desktop" /\ Desktop!Next /\ Rest(16)
  \/ focus = "events" /\ Events!Next /\ Rest(17)
  \/ focus = "objects" /\ Objects!Next /\ Rest(7)
  \/ focus = "groups" /\ Groups!Next /\ Rest(8)

(* The steps of the parts that cannot be put off for ever: see Fair there.   *)
(* As a behaviour is about one part, one condition serves a step of each.     *)
Fair(i) ==
  \/ focus = "keys" /\ Keys!Fair(i) /\ Rest(12)
  \/ focus = "controls" /\ Controls!Fair(i) /\ Rest(6)
  \/ focus = "rings" /\ Rings!Fair(i) /\ Rest(11)
  \/ focus = "admissions" /\ Admission!Fair(i) /\ Rest(15)
  \/ focus = "desktop" /\ Desktop!Fair(i) /\ Rest(16)
  \/ focus = "events" /\ Events!Fair(i) /\ Rest(17)
  \/ focus = "objects" /\ Objects!Fair(i) /\ Rest(7)
  \/ focus = "groups" /\ Groups!Fair(i) /\ Rest(8)

Spec ==
  /\ Init /\ [][Next]_vars
  /\ \A i \in 1..6 : WF_vars(Fair(i))

-----------------------------------------------------------------------------
(* Whoever left cannot read what is sent later, whoever came cannot read what *)
(* was sent before: RemovedCannotRead and NoPastMedia of MediaKeys.           *)
KeysFollowMembers ==
  focus = "keys" => Keys!RemovedCannotRead /\ Keys!NoPastMedia

(* A client acts for the call as it is: media follow the devices that are     *)
(* there (GroupControls), a ring and the client of its group find each other  *)
(* (GroupRings), and decisions about users reach the users they are about     *)
(* (Admissions).                                                              *)
ClientFollowsCall ==
  /\ focus = "controls" => Controls!MediaFollowsDevices
  /\ focus = "rings" => Rings!RingReachesClient
  /\ focus = "admissions" => Admission!TypeOK /\ Admission!DecisionsReachTheRightUser

(* An application and the library agree: on what is captured (NodeCall), on   *)
(* calls that are over (NodeQueue), on who still holds an object              *)
(* (AppObjects), on what was muted, asked and told (AppGroupCalls).           *)
AppFollowsLibrary ==
  /\ focus = "desktop" => Desktop!TypeOK /\ Desktop!MediaFollowsCall
  /\ focus = "events" => Events!TypeOK /\ Events!NothingAfterEnded
  /\ focus = "objects" => /\ Objects!FactoryOutlivesConnections
                          /\ Objects!FreedOnlyWhenClosed
                          /\ Objects!ConcludedIsLast
  /\ focus = "groups" => Groups!StatusFollowsApp

(* A step never uses what is no longer good: a ring that is over is not       *)
(* answered (GroupRings), and a key goes out with endorsements only if they   *)
(* were valid when last heard of (Endorsements).                              *)
NothingStaleIsUsed ==
  [][/\ focus = "rings" => Rings!StartsWithLiveRing
     /\ focus = "endorsed" => Endorsed!ValidWhenSent]_vars

(* Whatever came before, when the outside world is quiet everything that was  *)
(* begun gets done, and stays so: everyone in a call decrypts the sender      *)
(* (MediaKeys), the SFU has the hand and the video request (GroupControls),   *)
(* rings are over (GroupRings), who left is forgotten (Admissions), a refused *)
(* call is dropped (NodeCall), requests are answered (NodeQueue), calls that  *)
(* ended are concluded (AppObjects) and clients deleted (AppGroupCalls).      *)
Settled ==
  /\ focus = "keys" => Keys!EveryoneDecrypts
  /\ focus = "controls" => Controls!HandIsSettled /\ Controls!RequestIsKnown
  /\ focus = "rings" => Rings!RingsEnd
  /\ focus = "admissions" => Admission!LeaverIsForgotten
  /\ focus = "desktop" => Desktop!RefusedIsDropped
  /\ focus = "events" => Events!RequestsAnswered
  /\ focus = "objects" => Objects!EndedIsConcluded
  /\ focus = "groups" => Groups!EndedIsDeleted

Settles == <>[]Settled
=============================================================================

------------------------------ MODULE DhcpLink ------------------------------
(***************************************************************************)
(* Link supervision and DHCP: ethernet_thread polls the PHY                *)
(* (ethernetif_set_link) and runs the state machine stm32_DHCP_process,    *)
(* the link callbacks and the user's begin() write its state, and lwIP's   *)
(* DHCP client, in the tcpip thread, does the protocol.                    *)
(*                                                                         *)
(* DHCP_state is written without a lock by ethernet_thread and the user.   *)
(* ethernet_thread has the higher priority: the user's thread runs while   *)
(* it sleeps, or while it waits for the core lock of lwIP, which another   *)
(* thread of the user may hold.  Each stm32_eth_init starts one more       *)
(* ethernet_thread.  The clock is left out: every poll and every timeout   *)
(* may be next.                                                            *)
(***************************************************************************)
EXTENDS Integers

CONSTANTS
  MaxBegins,     (* bound: calls of Ethernet.begin()                        *)
  MaxFlaps,      (* bound: changes of the physical link                     *)
  MaxRenewals,   (* bound: leases the client starts to renew                *)
  MaxTries,      (* bound: messages the client repeats, per start           *)
  MAX_DHCP_TRIES,
  Calls,         (* the user's calls: "dhcp", "static", "maintain"          *)
  UserTimesOut,  (* whether begin() may give up waiting                     *)
  OtherUsers     (* other threads of the user take the core lock            *)

ASSUME DhcpLinkAssumption ==
  /\ {MaxBegins, MaxFlaps, MaxRenewals, MaxTries, MAX_DHCP_TRIES} \subseteq Nat
  /\ MaxBegins > 0
  /\ Calls \subseteq {"dhcp", "static", "maintain"}
  /\ UserTimesOut \in BOOLEAN /\ OtherUsers \in BOOLEAN

VARIABLES
  phy, int4,     (* the link, and the PHY's latched "link down" interrupt   *)
  linkUp, up,    (* NETIF_FLAG_LINK_UP and NETIF_FLAG_UP of gnetif          *)
  mac,           (* the MAC and its DMA are started                         *)
  ip,            (* where the address of gnetif comes from                  *)
  DHCP_state,
  DHCP_Started_by_user,
  dhcp, tries,   (* state and tries of lwIP's client, "none" before its     *)
                 (* struct is allocated                                     *)
  initDone,
  threads,       (* the running ethernet_threads                            *)
  pc,            (* the next step of each                                   *)
  upc,           (* the next step of the user's thread                      *)
  lease_state,   (* _dhcp_lease_state                                       *)
  result,        (* what the user's last call returned                      *)
  begins, flaps, renewals  (* counters of the bounds                        *)

phyVars  == <<phy, int4>>
netif    == <<linkUp, up, mac, ip>>
lwipDhcp == <<dhcp, tries>>
user     == <<upc, lease_state, result, begins, initDone, threads>>
bounds   == <<flaps, renewals>>
linkVars == <<phyVars, netif, DHCP_state, DHCP_Started_by_user, lwipDhcp, pc, user, bounds>>

EthThreads == 1 .. MaxBegins
DhcpStates == {"OFF", "START", "WAIT_ADDRESS", "ADDRESS_ASSIGNED", "TIMEOUT",
               "LINK_DOWN", "ASK_RELEASE"}
Supplied == {"bound", "renewing", "rebinding"}  (* dhcp_supplied_address    *)
LeaseChecks == {"NONE", "RENEW_FAIL", "RENEW_OK", "REBIND_FAIL", "REBIND_OK"}

FlagsOK ==
  /\ phy \in BOOLEAN /\ int4 \in BOOLEAN
  /\ linkUp \in BOOLEAN /\ up \in BOOLEAN /\ mac \in BOOLEAN
  /\ DHCP_Started_by_user \in BOOLEAN /\ initDone \in BOOLEAN

StatesOK ==
  /\ ip \in {"zero", "static", "dhcp"}
  /\ DHCP_state \in DhcpStates
  /\ dhcp \in {"none", "off", "selecting"} \cup Supplied
  /\ tries \in 0 .. MaxTries
  /\ threads \subseteq EthThreads
  /\ pc \in [EthThreads -> {"idle", "bsr", "start", "stop", "release"}]
  /\ upc \in {"idle", "state", "flag", "wait"}
  /\ lease_state \in {"NONE", "RENEW_OK", "REBIND_OK"}
  /\ result \in {"none", "1", "0", "static"} \cup LeaseChecks
  /\ begins \in 0 .. MaxBegins /\ flaps \in 0 .. MaxFlaps /\ renewals \in 0 .. MaxRenewals

LinkTypeOK == FlagsOK /\ StatesOK

LinkInit ==
  /\ phy \in BOOLEAN
  /\ int4 = FALSE
  /\ linkUp = FALSE /\ up = FALSE /\ mac = FALSE
  /\ ip = "zero"
  /\ DHCP_state = "OFF"
  /\ DHCP_Started_by_user = FALSE
  /\ dhcp = "none" /\ tries = 0
  /\ initDone = FALSE
  /\ threads = {}
  /\ pc = [t \in EthThreads |-> "idle"]
  /\ upc = "idle"
  /\ lease_state = "NONE"
  /\ result = "none"
  /\ begins = 0 /\ flaps = 0 /\ renewals = 0

-----------------------------------------------------------------------------
(* The PHY.                                                                 *)
PhyChange ==
  /\ flaps < MaxFlaps
  /\ flaps' = flaps + 1
  /\ phy' = ~phy
  /\ int4' = (int4 \/ phy)
  /\ UNCHANGED <<netif, DHCP_state, DHCP_Started_by_user, lwipDhcp, pc, user, renewals>>

-----------------------------------------------------------------------------
(* The user's thread.                                                       *)
Waiting == IF OtherUsers THEN {"idle", "start", "stop", "release"} ELSE {"idle"}

UserRuns(step) == upc = step /\ \A t \in EthThreads : pc[t] \in Waiting

(* stm32_eth_init.  The first call starts lwIP, whose thread runs           *)
(* tcpip_init_done at once; a later one ignores the addresses it is given   *)
(* and ends in User_notification.                                           *)
EthInit(call) ==
  /\ IF initDone
     THEN /\ UNCHANGED netif
          /\ DHCP_state' = IF ~up /\ DHCP_Started_by_user THEN "LINK_DOWN" ELSE DHCP_state
     ELSE /\ ip' = IF call = "static" THEN "static" ELSE "zero"
          /\ linkUp' = phy
          /\ up' = phy
          /\ mac' = TRUE
          /\ UNCHANGED DHCP_state
  /\ initDone' = TRUE
  /\ threads' = threads \cup {begins + 1}
  /\ begins' = begins + 1

BeginDhcp ==
  /\ "dhcp" \in Calls /\ begins < MaxBegins
  /\ UserRuns("idle")
  /\ EthInit("dhcp")
  /\ lease_state' = "NONE"
  /\ result' = "none"
  /\ upc' = "state"
  /\ UNCHANGED <<phyVars, DHCP_Started_by_user, lwipDhcp, pc, bounds>>

(* stm32_set_DHCP_state(DHCP_START), in its two assignments.                *)
SetStart ==
  /\ UserRuns("state")
  /\ DHCP_state' = "START"
  /\ upc' = "flag"
  /\ UNCHANGED <<phyVars, netif, DHCP_Started_by_user, lwipDhcp, pc, lease_state,
                 result, begins, initDone, threads, bounds>>

SetStarted ==
  /\ UserRuns("flag")
  /\ DHCP_Started_by_user' = TRUE
  /\ upc' = "wait"
  /\ UNCHANGED <<phyVars, netif, DHCP_state, lwipDhcp, pc, lease_state,
                 result, begins, initDone, threads, bounds>>

Return(r) == upc' = "idle" /\ result' = r

BeginDone ==
  /\ UserRuns("wait")
  /\ DHCP_state = "ADDRESS_ASSIGNED"
  /\ Return("1")
  /\ UNCHANGED <<phyVars, netif, DHCP_state, DHCP_Started_by_user, lwipDhcp, pc,
                 lease_state, begins, initDone, threads, bounds>>

BeginTimeout ==
  /\ UserTimesOut
  /\ UserRuns("wait")
  /\ DHCP_state # "ADDRESS_ASSIGNED"
  /\ DHCP_state' = "ASK_RELEASE"
  /\ Return("0")
  /\ UNCHANGED <<phyVars, netif, DHCP_Started_by_user, lwipDhcp, pc,
                 lease_state, begins, initDone, threads, bounds>>

(* begin(local_ip, ...): dhcp_inform only sends a message.                  *)
BeginStatic ==
  /\ "static" \in Calls /\ begins < MaxBegins
  /\ UserRuns("idle")
  /\ EthInit("static")
  /\ Return("static")
  /\ UNCHANGED <<phyVars, DHCP_Started_by_user, lwipDhcp, pc, lease_state, bounds>>

(* checkLease(), with the codes stm32_get_DHCP_lease_state gives.  Its last *)
(* branch is never taken: _dhcp_lease_state is one of these codes.          *)
LeaseNow == CASE dhcp = "renewing"  -> "RENEW_OK"
              [] dhcp = "rebinding" -> "REBIND_OK"
              [] OTHER              -> "NONE"

CheckLease(prev, current) ==
  CASE current = prev      -> current
    [] prev = "NONE"       -> "NONE"
    [] prev = "RENEW_OK"   -> IF current = "NONE" THEN "RENEW_OK" ELSE "RENEW_FAIL"
    [] prev = "REBIND_OK"  -> IF current = "NONE" THEN "REBIND_OK" ELSE "REBIND_FAIL"

Maintain ==
  /\ "maintain" \in Calls
  /\ UserRuns("idle")
  /\ dhcp # "none"
  /\ Return(CheckLease(lease_state, LeaseNow))
  /\ lease_state' = LeaseNow
  /\ UNCHANGED <<phyVars, netif, DHCP_state, DHCP_Started_by_user, lwipDhcp, pc,
                 begins, initDone, threads, bounds>>

-----------------------------------------------------------------------------
(* ethernet_thread.                                                         *)
Runs(t, step) == t \in threads /\ pc[t] = step
Jump(t, step) == pc' = [pc EXCEPT ![t] = step]

(* Nobody holds the core lock of lwIP across a step but ethernetif_set_link. *)
CoreFree == \A t \in EthThreads : pc[t] # "bsr"

(* The link callbacks: ethernetif_update_config and                         *)
(* ethernetif_notify_conn_changed.                                          *)
ConnChangedNoUp(isUp) ==
  /\ linkUp' = isUp
  /\ mac' = isUp
  /\ up' = up
  /\ DHCP_state' = IF ~DHCP_Started_by_user THEN DHCP_state
                   ELSE IF isUp THEN "START" ELSE "LINK_DOWN"

ConnChangedAlways(isUp) ==
  /\ linkUp' = isUp
  /\ mac' = isUp
  /\ up' = isUp
  /\ DHCP_state' = IF isUp THEN "START" ELSE "LINK_DOWN"

ConnChangedNoStart(isUp) ==
  /\ linkUp' = isUp
  /\ mac' = isUp
  /\ up' = isUp
  /\ DHCP_state' = IF DHCP_Started_by_user /\ ~isUp THEN "LINK_DOWN" ELSE DHCP_state

ConnChanged(isUp) ==
  /\ linkUp' = isUp
  /\ mac' = isUp
  /\ up' = isUp
  /\ DHCP_state' = IF ~DHCP_Started_by_user THEN DHCP_state
                   ELSE IF isUp THEN "START" ELSE "LINK_DOWN"

(* ethernetif_set_link, from one register of the PHY to the other: lwIP     *)
(* calls back only when the flag changes, and has a client with a lease     *)
(* confirm it when the link is back.                                        *)
LinkDown(t) ==
  /\ Runs(t, "idle") /\ CoreFree
  /\ int4' = FALSE
  /\ IF int4 /\ linkUp THEN ConnChanged(FALSE)
                       ELSE UNCHANGED <<linkUp, mac, up, DHCP_state>>
  /\ Jump(t, "bsr")
  /\ UNCHANGED <<phy, ip, DHCP_Started_by_user, lwipDhcp, user, bounds>>

LinkUpAlways(t) ==
  /\ Runs(t, "bsr")
  /\ IF ~linkUp
     THEN /\ ConnChanged(TRUE)
          /\ dhcp' = IF dhcp \in Supplied THEN "selecting" ELSE dhcp
          /\ tries' = 0
     ELSE UNCHANGED <<linkUp, mac, up, DHCP_state, lwipDhcp>>
  /\ Jump(t, "idle")
  /\ UNCHANGED <<phyVars, ip, DHCP_Started_by_user, user, bounds>>

LinkUp(t) ==
  /\ Runs(t, "bsr")
  /\ IF phy /\ ~linkUp
     THEN /\ ConnChanged(TRUE)
          /\ dhcp' = IF dhcp \in Supplied THEN "selecting" ELSE dhcp
          /\ tries' = 0
     ELSE UNCHANGED <<linkUp, mac, up, DHCP_state, lwipDhcp>>
  /\ Jump(t, "idle")
  /\ UNCHANGED <<phyVars, ip, DHCP_Started_by_user, user, bounds>>

(* stm32_DHCP_process.                                                      *)
Process(t, state) ==
  Runs(t, "idle") /\ up /\ linkUp /\ DHCP_state = state

ProcessDown(t) ==
  /\ Runs(t, "idle")
  /\ ~(up /\ linkUp)
  /\ DHCP_state' = "OFF"
  /\ UNCHANGED <<phyVars, netif, DHCP_Started_by_user, lwipDhcp, pc, user, bounds>>

ProcessStartOnly(t) ==
  /\ Process(t, "START")
  /\ ip' = "zero"
  /\ DHCP_state' = "WAIT_ADDRESS"
  /\ UNCHANGED <<phyVars, linkUp, up, mac, DHCP_Started_by_user, lwipDhcp, pc, user, bounds>>

ProcessStart(t) ==
  /\ Process(t, "START")
  /\ ip' = "zero"
  /\ DHCP_state' = "WAIT_ADDRESS"
  /\ Jump(t, "start")
  /\ UNCHANGED <<phyVars, linkUp, up, mac, DHCP_Started_by_user, lwipDhcp, user, bounds>>

DhcpStart(t) ==
  /\ Runs(t, "start") /\ CoreFree
  /\ dhcp' = "selecting"
  /\ tries' = 0
  /\ Jump(t, "idle")
  /\ UNCHANGED <<phyVars, netif, DHCP_state, DHCP_Started_by_user, user, bounds>>

ProcessAssigned(t) ==
  /\ Process(t, "WAIT_ADDRESS")
  /\ dhcp \in Supplied
  /\ DHCP_state' = "ADDRESS_ASSIGNED"
  /\ UNCHANGED <<phyVars, netif, DHCP_Started_by_user, lwipDhcp, pc, user, bounds>>

ProcessTimeout(t) ==
  /\ Process(t, "WAIT_ADDRESS")
  /\ dhcp \notin Supplied
  /\ tries > MAX_DHCP_TRIES
  /\ DHCP_state' = "TIMEOUT"
  /\ DHCP_Started_by_user' = FALSE
  /\ Jump(t, "stop")
  /\ UNCHANGED <<phyVars, netif, lwipDhcp, user, bounds>>

ProcessRelease(t) ==
  /\ Process(t, "ASK_RELEASE") \/ Process(t, "LINK_DOWN")
  /\ Jump(t, "release")
  /\ UNCHANGED <<phyVars, netif, DHCP_state, DHCP_Started_by_user, lwipDhcp, user, bounds>>

(* dhcp_release_and_stop                                                    *)
DhcpStop(t) ==
  /\ Runs(t, "stop") \/ Runs(t, "release")
  /\ CoreFree
  /\ IF dhcp \in {"none", "off"} THEN UNCHANGED <<dhcp, ip>>
                                 ELSE dhcp' = "off" /\ ip' = "zero"
  /\ DHCP_state' = IF pc[t] = "release" THEN "OFF" ELSE DHCP_state
  /\ Jump(t, "idle")
  /\ UNCHANGED <<phyVars, linkUp, up, mac, DHCP_Started_by_user, tries, user, bounds>>

-----------------------------------------------------------------------------
(* lwIP's DHCP client.                                                      *)
Lwip(from) == dhcp = from /\ CoreFree
Online == phy /\ mac /\ up /\ linkUp

LeaseBound ==
  /\ Lwip("selecting") /\ Online
  /\ dhcp' = "bound" /\ tries' = 0 /\ ip' = "dhcp"
  /\ UNCHANGED <<phyVars, linkUp, up, mac, DHCP_state, DHCP_Started_by_user, pc, user, bounds>>

LeaseRetry ==
  /\ Lwip("selecting") /\ tries < MaxTries
  /\ tries' = tries + 1
  /\ UNCHANGED <<phyVars, netif, DHCP_state, DHCP_Started_by_user, dhcp, pc, user, bounds>>

LeaseRenew ==
  /\ Lwip("bound") /\ renewals < MaxRenewals
  /\ dhcp' = "renewing" /\ renewals' = renewals + 1
  /\ UNCHANGED <<phyVars, netif, DHCP_state, DHCP_Started_by_user, tries, pc, user, flaps>>

LeaseRebind ==
  /\ Lwip("renewing")
  /\ dhcp' = "rebinding"
  /\ UNCHANGED <<phyVars, netif, DHCP_state, DHCP_Started_by_user, tries, pc, user, bounds>>

LeaseRenewed ==
  /\ Lwip("renewing") \/ Lwip("rebinding")
  /\ Online
  /\ dhcp' = "bound" /\ ip' = "dhcp"
  /\ UNCHANGED <<phyVars, linkUp, up, mac, DHCP_state, DHCP_Started_by_user, tries,
                 pc, user, bounds>>

LeaseLost ==
  /\ Lwip("rebinding")
  /\ dhcp' = "selecting" /\ tries' = 0 /\ ip' = "zero"
  /\ UNCHANGED <<phyVars, linkUp, up, mac, DHCP_state, DHCP_Started_by_user, pc, user, bounds>>

Client == LeaseRetry \/ LeaseRenew \/ LeaseRebind \/ LeaseRenewed \/ LeaseLost

Link(t) == LinkDown(t) \/ LinkUp(t)

Dhcp(t) ==
  \/ ProcessDown(t) \/ ProcessStart(t) \/ DhcpStart(t) \/ ProcessAssigned(t)
  \/ ProcessTimeout(t) \/ ProcessRelease(t) \/ DhcpStop(t)

User == SetStart \/ SetStarted \/ BeginDone \/ BeginTimeout

LinkNext ==
  \/ PhyChange
  \/ BeginDhcp \/ BeginStatic \/ Maintain \/ User
  \/ \E t \in EthThreads : Link(t) \/ Dhcp(t)
  \/ LeaseBound \/ Client

LinkSpec == LinkInit /\ [][LinkNext]_linkVars

(* ethernet_thread goes round its loop and waits for no one for ever, the   *)
(* user's thread runs while it sleeps, and a DHCP server answers a client   *)
(* that is online again and again.  Nothing says that begin() gives up.     *)
FairLinkSpec ==
  /\ LinkSpec
  /\ \A t \in EthThreads : SF_linkVars(Link(t)) /\ SF_linkVars(Dhcp(t))
  /\ SF_linkVars(SetStart \/ SetStarted \/ BeginDone)
  /\ SF_linkVars(LeaseBound)

-----------------------------------------------------------------------------
(* The interface is administratively up exactly when its link is, and the   *)
(* MAC runs whenever it is: nothing but the link callbacks, under the core  *)
(* lock, takes the interface down or brings it up.                          *)
UpMatchesLink == initDone => up = linkUp /\ (linkUp => mac)

(* stm32_DHCP_process reads dhcp->tries in DHCP_WAIT_ADDRESS without asking *)
(* whether there is a client.  While begin() has been called once there     *)
(* always is one.                                                           *)
WaitHasClient ==
  \A t \in threads :
    threads = {t} /\ Process(t, "WAIT_ADDRESS") => dhcp # "none"

(* A program that never asked for DHCP keeps its static address through     *)
(* every change of the link and every later begin(ip).                      *)
StaticKept ==
  result = "static" /\ dhcp = "none" /\ ~DHCP_Started_by_user => ip = "static"

(* The inductive form of the last two.  A request in DHCP_WAIT_ADDRESS      *)
(* without a client is one whose thread is still on its way to dhcp_start;  *)
(* as long as the user has not asked for DHCP nothing moves the state       *)
(* machine, so that nothing clears the address, and the client that the     *)
(* state machine might give up on has made no tries.                        *)
NeverAsked == dhcp = "none" /\ ~DHCP_Started_by_user

StartUnderWay ==
  DHCP_state = "WAIT_ADDRESS" /\ dhcp = "none" => \E t \in threads : pc[t] = "start"

AskedOrStatic ==
  /\ result = "static" => initDone
  /\ upc # "idle" => result = "none"
  /\ upc = "wait" => ~NeverAsked
  /\ dhcp = "none" => tries = 0
  /\ NeverAsked /\ upc # "flag" => DHCP_state = "OFF"
  /\ NeverAsked /\ upc = "idle" /\ initDone => ip = "static"

DhcpInv == LinkTypeOK /\ StartUnderWay /\ AskedOrStatic

(* Once the link is stable, which the bound on its changes sees to, the     *)
(* flag of the interface follows it.                                        *)
LinkFollows == <>[](initDone => linkUp = phy)

(* While the link is up, the first begin(), its request known to the state  *)
(* machine, gets its address, unless the server is silent for               *)
(* MAX_DHCP_TRIES or the user's time is up: link changes may cancel the     *)
(* request, and then have to start it again.  The second may be overwritten *)
(* by the release of the first.                                             *)
Requested ==
  upc = "wait" /\ begins = 1 /\ DHCP_state \in {"START", "WAIT_ADDRESS", "LINK_DOWN"}

RequestSurvives ==
  Requested /\ phy ~> upc # "wait" \/ DHCP_state = "TIMEOUT" \/ ~phy
=============================================================================

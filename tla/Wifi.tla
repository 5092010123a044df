-------------------------------- MODULE Wifi --------------------------------
(***************************************************************************)
(* net/WifiService.cpp: joining the user's network, and the setup portal   *)
(* raised when that cannot be done.  The timers are left to elapse at any  *)
(* time: no property is about how long they are.                           *)
(***************************************************************************)

VARIABLES
  wifi,       \* state_
  portal,     \* apActive_
  aired,      \* whether the access point started when it was last asked for (external)
  router      \* whether the network is there to be joined (external)

radio == <<wifi, portal, aired, router>>

\* "dropped" is "connecting" with the radio's station switched off.
WifiState == {"idle", "connecting", "dropped", "connected", "portal", "failed"}

WifiOK == wifi \in WifiState /\ {portal, aired, router} \subseteq BOOLEAN

\* beginConnect; the portal, when it is up, stays up beside the station.
BeginConnect == wifi' = "connecting" /\ UNCHANGED <<portal, aired>>

\* The access point starts, and the state is its own unless there is an attempt
\* to connect; or it does not, and a station that was connected has made way
\* for it all the same, as the loop finds.
PortalTried(state) ==
  \/ /\ portal' = TRUE /\ aired' = TRUE
     /\ wifi' = IF state \in {"connecting", "dropped"} THEN state ELSE "portal"
  \/ /\ portal' = FALSE /\ aired' = FALSE
     /\ wifi' = IF state = "connected" THEN "dropped" ELSE state

\* startPortal from a state: raised once.
StartPortal(state) ==
  IF portal THEN wifi' = state /\ UNCHANGED <<portal, aired>>
            ELSE PortalTried(state)

\* begin.
BootWifi(named) ==
  IF named THEN wifi' = "connecting" /\ portal' = FALSE /\ aired' = TRUE
           ELSE PortalTried("idle")

----------------------------------------------------------------------------
(* loop, by state.                                                         *)

Join(usable) ==
  /\ wifi = "connecting" /\ router /\ usable
  /\ wifi' = "connected" /\ UNCHANGED <<portal, aired, router>>

\* Mutant: the portal is raised only where no network is named.
JoinTimeoutSilent(usable) ==
  /\ wifi = "dropped" \/ (wifi = "connecting" /\ ~(router /\ usable))
  /\ wifi' = "failed" /\ UNCHANGED <<portal, aired, router>>

\* kConnectTimeoutMs without a link: failed, and the portal raised, which
\* turns the state into its own.
JoinTimeout(usable) ==
  /\ wifi = "dropped" \/ (wifi = "connecting" /\ ~(router /\ usable))
  /\ StartPortal("failed")
  /\ UNCHANGED router

LinkLost ==
  /\ wifi = "connected" /\ ~router
  /\ wifi' = "connecting" /\ UNCHANGED <<portal, aired, router>>

\* A few seconds after the link came up.
ClosePortal ==
  /\ wifi = "connected" /\ router /\ portal
  /\ portal' = FALSE /\ UNCHANGED <<wifi, aired, router>>

\* Mutant: only a failed attempt is repeated.
RetryFailed(named) ==
  /\ wifi = "failed" /\ named
  /\ BeginConnect /\ UNCHANGED router

\* Every kRetryIntervalMs, when a network is named.
Retry(named) ==
  /\ wifi \in {"failed", "portal"} /\ named
  /\ BeginConnect /\ UNCHANGED router

\* The user's network comes and goes.
RouterChanges == router' = ~router /\ UNCHANGED <<wifi, portal, aired>>

=============================================================================

------------------------------- MODULE MCStores -------------------------------
(* Finite instances for TLC of the components that keep files or a cache of   *)
(* their own beside a ledger.  A behaviour runs one of six machines, chosen   *)
(* when it begins, and the others rest in their initial state.                *)
EXTENDS TrustStore, LiveProjector, SignedViews, Promotion, SessionKeys, MaintainerTick

CONSTANTS c1, c2, f1, f2, t1, t2

VARIABLE part

storeVars == <<part, trustVars, liveVars, viewVars, promotionVars, keyVars, tickVars>>

Parts == {"trust", "live", "views", "promotion", "keys", "ticks"}

MCInit ==
  /\ part \in Parts
  /\ TrustInit /\ LiveInit /\ ViewsInit /\ PromotionInit /\ KeysInit /\ TicksInit
  /\ part # "live" => fork = 0

OnlyTrust == part = "trust"
  /\ UNCHANGED <<part, liveVars, viewVars, promotionVars, keyVars, tickVars>>
OnlyLive == part = "live"
  /\ UNCHANGED <<part, trustVars, viewVars, promotionVars, keyVars, tickVars>>
OnlyViews == part = "views"
  /\ UNCHANGED <<part, trustVars, liveVars, promotionVars, keyVars, tickVars>>
OnlyPromotion == part = "promotion"
  /\ UNCHANGED <<part, trustVars, liveVars, viewVars, keyVars, tickVars>>
OnlyKeys == part = "keys"
  /\ UNCHANGED <<part, trustVars, liveVars, viewVars, promotionVars, tickVars>>
OnlyTicks == part = "ticks"
  /\ UNCHANGED <<part, trustVars, liveVars, viewVars, promotionVars, keyVars>>

MCNext ==
  \/ TrustNext /\ OnlyTrust
  \/ LiveNext /\ OnlyLive
  \/ ViewsNext /\ OnlyViews
  \/ PromotionNext /\ OnlyPromotion
  \/ KeysNext /\ OnlyKeys
  \/ TicksNext /\ OnlyTicks

\* The server refreshes again and again and its fetches go on; the maintainer
\* ticks again and again and a tick goes on.
MCSpec ==
  /\ MCInit /\ [][MCNext]_storeVars
  /\ WF_storeVars(BeginRefresh /\ OnlyLive)
  /\ \A f \in Fetches : WF_storeVars(FetchStep(f) /\ OnlyLive)
  /\ WF_storeVars(BeginTick /\ OnlyTicks)
  /\ WF_storeVars(TickStep /\ OnlyTicks)

\* The liveness properties of the two machines that have them.
LiveCatchesUp == part = "live" => CatchesUp
TicksAreMadeGood == part = "ticks" => TicksCatchUp

=============================================================================

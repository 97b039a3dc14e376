------------------------------ MODULE ZonesMap ------------------------------
(***************************************************************************)
(* The layers of the admin zone map and the buttons that toggle them.  The *)
(* two notice layers are on the page; a reference layer is fetched when it *)
(* is switched on.  Every answer renders a layer of its own, numbered in   *)
(* order of arrival.  The order in which layers lie over each other is not *)
(* modelled.                                                               *)
(***************************************************************************)
EXTENDS Naturals

CONSTANTS
  NoticeLayers,  \* data-notice-layer: "notices" and "review"
  RefLayers,     \* keys of the reference datasets
  MaxLoads       \* bound on the fetches of one dataset

ASSUME ZonesAssumption == NoticeLayers \cap RefLayers = {} /\ MaxLoads \in Nat

VARIABLES
  listed,   \* the reference datasets with a button
  pressed,  \* the buttons with aria-pressed
  onMap,    \* the layers on the map, each a button's and a number
  cached,   \* per dataset, the number of the layer it remembers, 0 for none
  pending,  \* per dataset, fetches under way
  loads     \* per dataset, answers rendered

zonesVars == <<listed, pressed, onMap, cached, pending, loads>>

ZonesTypeOK ==
  /\ listed \subseteq RefLayers
  /\ pressed \subseteq NoticeLayers \cup RefLayers
  /\ onMap \subseteq (NoticeLayers \X {0}) \cup (RefLayers \X (1 .. MaxLoads))
  /\ cached \in [RefLayers -> 0 .. MaxLoads]
  /\ pending \in [RefLayers -> 0 .. MaxLoads]
  /\ loads \in [RefLayers -> 0 .. MaxLoads]

ZonesInit ==
  /\ listed = {}
  /\ pressed = NoticeLayers
  /\ onMap = NoticeLayers \X {0}
  /\ cached = [d \in RefLayers |-> 0]
  /\ pending = [d \in RefLayers |-> 0]
  /\ loads = [d \in RefLayers |-> 0]

----------------------------------------------------------------------------

\* loadDatasets: the list arrives once; when it does not, there are no buttons.
ListDatasets ==
  /\ listed = {}
  /\ listed' \in SUBSET RefLayers
  /\ UNCHANGED <<pressed, onMap, cached, pending, loads>>

ToggleNotices(k) ==
  /\ IF k \in pressed
     THEN pressed' = pressed \ {k} /\ onMap' = onMap \ {<<k, 0>>}
     ELSE pressed' = pressed \cup {k} /\ onMap' = onMap \cup {<<k, 0>>}
  /\ UNCHANGED <<listed, cached, pending, loads>>

SwitchOff(d) ==
  /\ d \in pressed
  /\ pressed' = pressed \ {d}
  /\ onMap' = onMap \ {<<d, cached[d]>>}
  /\ UNCHANGED <<listed, cached, pending, loads>>

SwitchOn(d) ==
  /\ d \notin pressed /\ cached[d] # 0
  /\ pressed' = pressed \cup {d}
  /\ onMap' = onMap \cup {<<d, cached[d]>>}
  /\ UNCHANGED <<listed, cached, pending, loads>>

\* A first switching on, or another click while it is under way.
FetchLayer(d) ==
  /\ d \notin pressed /\ cached[d] = 0
  /\ pending[d] + loads[d] < MaxLoads
  /\ pending' = [pending EXCEPT ![d] = @ + 1]
  /\ UNCHANGED <<listed, pressed, onMap, cached, loads>>

RenderLayer_Unpressed(d) ==
  /\ pending[d] > 0
  /\ pending' = [pending EXCEPT ![d] = @ - 1]
  /\ loads' = [loads EXCEPT ![d] = @ + 1]
  /\ cached' = [cached EXCEPT ![d] = loads'[d]]
  /\ onMap' = onMap \cup {<<d, cached'[d]>>}
  /\ UNCHANGED <<listed, pressed>>

\* An answer is put on the map, whatever happened since it was asked for.
RenderLayer(d) ==
  /\ pending[d] > 0
  /\ pending' = [pending EXCEPT ![d] = @ - 1]
  /\ loads' = [loads EXCEPT ![d] = @ + 1]
  /\ cached' = [cached EXCEPT ![d] = loads'[d]]
  /\ onMap' = onMap \cup {<<d, cached'[d]>>}
  /\ pressed' = pressed \cup {d}
  /\ UNCHANGED listed

FetchFails(d) ==
  /\ pending[d] > 0
  /\ pending' = [pending EXCEPT ![d] = @ - 1]
  /\ UNCHANGED <<listed, pressed, onMap, cached, loads>>

ZonesStep ==
  \/ ListDatasets
  \/ \E k \in NoticeLayers : ToggleNotices(k)
  \/ \E d \in listed :
       SwitchOff(d) \/ SwitchOn(d) \/ FetchLayer(d) \/ RenderLayer(d) \/ FetchFails(d)

----------------------------------------------------------------------------

LayersOf(d) == {l \in onMap : l[1] = d}

(* A reference button that is pressed has its layer on the map and one that *)
(* is not has none, unless the layer was asked for again before the first   *)
(* answer came: then earlier copies stay on the map under either state.     *)
ButtonsMatchTheMap ==
  /\ \A k \in NoticeLayers : k \in pressed <=> <<k, 0>> \in onMap
  /\ \A d \in RefLayers :
       /\ d \in pressed => <<d, cached[d]>> \in onMap
       /\ d \notin pressed => <<d, cached[d]>> \notin onMap
       /\ LayersOf(d) \ {<<d, cached[d]>>} # {} => loads[d] > 1
=============================================================================

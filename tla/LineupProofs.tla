---------------------------- MODULE LineupProofs ----------------------------
(***************************************************************************)
(* Theorems about Lineup, for every choice of its constants.               *)
(***************************************************************************)
EXTENDS Lineup, TLAPS

-----------------------------------------------------------------------------
(* Types *)

\* What TypeOK says of the published channels.
Numbered ==
    \A c \in m_channels :
        /\ c.iUniqueId \in DOMAIN m_order
        /\ c = [iUniqueId |-> c.iUniqueId, strId |-> m_order[c.iUniqueId],
                bIsRadio |-> m_order[c.iUniqueId] \in Radio]

LEMMA TypeInit == Init => TypeOK
<1> SUFFICES ASSUME Init PROVE TypeOK
  OBVIOUS
<1>1. locked \in [Channels -> Locks]
  BY DEF Init, Locks
<1>2. changes \in 0 .. MaxChanges
  BY LineupAssumption DEF Init
<1>3. DOMAIN m_groups = {} /\ DOMAIN kodiMembers = {}
  BY DEF Init
<1> QED
  BY <1>1, <1>2, <1>3 DEF Init, TypeOK

LEMMA TypeBackend == ASSUME TypeOK, Backend PROVE TypeOK'
<1> USE DEF settings, backendVars, workerVars, published, triggers, kodiVars
<1>1. changes' \in 0 .. MaxChanges /\ changes \in 0 .. MaxChanges
  BY LineupAssumption DEF Backend, Relock, Relist, Regroup, Changes, TypeOK
<1>2. order' \in Orders /\ locked' \in [Channels -> Locks] /\ groups' \subseteq Groups
  BY DEF Backend, Relock, Relist, Regroup, TypeOK
<1>3. UNCHANGED <<settings, workerVars, published, triggers, kodiVars>>
  BY DEF Backend, Relock, Relist, Regroup, Changes
<1> QED
  BY <1>1, <1>2, <1>3 DEF TypeOK

LEMMA TypeWorker == ASSUME TypeOK, Worker PROVE TypeOK'
<1> USE DEF settings, backendVars, workerVars, published, triggers, kodiVars
<1>1. CASE GetPlaylist
  <2>1. root' \in Root
    BY <1>1 DEF GetPlaylist, TypeOK, Root
  <2> QED
    BY <1>1, <2>1 DEF GetPlaylist, TypeOK
<1>2. CASE Publish
  <2>1. root \in Root
    BY <1>2 DEF Publish, TypeOK
  <2>2. root.order \in Orders /\ root.groups \subseteq Groups
    BY <2>1 DEF Root
  <2>3. Numbered'
    <3>1. m_channels' = NewChannels /\ m_order' = root.order
      BY <1>2 DEF Publish
    <3>2. \A c \in NewChannels :
             /\ c.iUniqueId \in DOMAIN root.order
             /\ c = [iUniqueId |-> c.iUniqueId, strId |-> root.order[c.iUniqueId],
                     bIsRadio |-> root.order[c.iUniqueId] \in Radio]
      BY DEF NewChannels, Shown
    <3> QED
      BY <3>1, <3>2 DEF Numbered
  <2>4. DOMAIN m_groups' \subseteq Groups
    BY <1>2, <2>2 DEF Publish, NewGroups
  <2>5. root' = NoRoot /\ pc' = "tellChannels" /\ m_order' \in Orders
    BY <1>2, <2>2 DEF Publish
  <2>6. UNCHANGED <<settings, backendVars, triggers, kodiVars>>
    BY <1>2 DEF Publish
  <2> QED
    BY <2>3, <2>4, <2>5, <2>6 DEF TypeOK, Numbered
<1>3. CASE TellChannels \/ TellGroups
  BY <1>3 DEF TellChannels, TellGroups, TypeOK
<1> QED
  BY <1>1, <1>2, <1>3 DEF Worker

LEMMA TypeKodi == ASSUME TypeOK, Kodi PROVE TypeOK'
<1> USE DEF settings, backendVars, workerVars, published, triggers, kodiVars
<1>1. CASE GetTelevision \/ GetRadio \/ GroupsDone
  BY <1>1 DEF GetTelevision, GetRadio, GroupsDone, TypeOK
<1>2. CASE GetChannelGroups
  <2>1. DOMAIN kodiMembers' = DOMAIN m_groups
    BY <1>2 DEF GetChannelGroups
  <2> QED
    BY <1>2, <2>1 DEF GetChannelGroups, TypeOK
<1>3. ASSUME NEW g \in Groups, GetChannelGroupMembers(g) PROVE TypeOK'
  <2>1. DOMAIN kodiMembers' = DOMAIN kodiMembers
    BY <1>3 DEF GetChannelGroupMembers
  <2> QED
    BY <1>3, <2>1 DEF GetChannelGroupMembers, TypeOK
<1> QED
  BY <1>1, <1>2, <1>3 DEF Kodi

LEMMA TypeStep == TypeOK /\ [Next]_vars => TypeOK'
<1> SUFFICES ASSUME TypeOK, [Next]_vars PROVE TypeOK'
  OBVIOUS
<1>1. CASE UNCHANGED vars
  BY <1>1 DEF vars, settings, backendVars, workerVars, published, triggers, kodiVars, TypeOK
<1> QED
  BY <1>1, TypeBackend, TypeWorker, TypeKodi DEF Next

\* Every variable keeps its shape, and each unique id is a place in the list the
\* published channels were built from, for any channels, groups and orders.
THEOREM TypesHold == Spec => []TypeOK
  BY TypeInit, TypeStep, PTL DEF Spec

-----------------------------------------------------------------------------
(* A channel is determined by its unique id and the list it was numbered in.  *)

ChannelAt(o, i) == [iUniqueId |-> i, strId |-> o[i], bIsRadio |-> o[i] \in Radio]

BuiltFrom(cs, o) == \A c \in cs : c = ChannelAt(o, c.iUniqueId)

\* What Kodi has of the channels, and whether a change of it is on its way.
ChannelsInv ==
    /\ BuiltFrom(m_channels, m_order)
    /\ \A radio \in BOOLEAN :
          /\ BuiltFrom(kodiChannels[radio], kodiOrder[radio])
          /\ ChannelsPending(radio) \/ kodiChannels[radio] = Listed(radio)
    /\ DOMAIN kodiChannels = BOOLEAN /\ DOMAIN kodiOrder = BOOLEAN

Uids == {c.iUniqueId : c \in m_channels}

\* The same of the groups: those being asked for are still empty.
GroupsInv ==
    \/ groupsTriggered
    \/ pc \in {"tellChannels", "tellGroups"}
    \/ /\ DOMAIN kodiMembers = DOMAIN m_groups
       /\ \A g \in DOMAIN kodiMembers :
             (job = "members" /\ g \in asking) \/ kodiMembers[g] \subseteq Uids

LineupInv == ChannelsInv /\ GroupsInv

LEMMA LineupInit == Init => LineupInv
  BY DEF Init, LineupInv, ChannelsInv, GroupsInv, BuiltFrom, ChannelsPending

LEMMA NewChannelsBuilt == BuiltFrom(NewChannels, root.order)
  BY DEF NewChannels, BuiltFrom, ChannelAt

LEMMA ChannelsStep == ChannelsInv /\ [Next]_vars => ChannelsInv'
<1> SUFFICES ASSUME ChannelsInv, [Next]_vars PROVE ChannelsInv'
  OBVIOUS
<1>1. CASE UNCHANGED <<published, channelsTriggered, pc, kodiVars>>
  BY <1>1 DEF ChannelsInv, BuiltFrom, ChannelAt, ChannelsPending, Listed, published, kodiVars
<1>2. CASE Backend
  BY <1>1, <1>2 DEF Backend, Relock, Relist, Regroup, Changes, workerVars, triggers
<1>3. CASE GetPlaylist
  BY <1>3 DEF GetPlaylist, ChannelsInv, BuiltFrom, ChannelAt, ChannelsPending, Listed, published,
              triggers, kodiVars
<1>4. CASE Publish
  <2>1. BuiltFrom(m_channels, m_order)'
    BY <1>4, NewChannelsBuilt DEF Publish, BuiltFrom, ChannelAt
  <2> QED
    BY <1>4, <2>1 DEF Publish, ChannelsInv, BuiltFrom, ChannelAt, ChannelsPending, kodiVars
<1>5. CASE TellChannels
  BY <1>5 DEF TellChannels, ChannelsInv, BuiltFrom, ChannelAt, ChannelsPending, published, kodiVars
<1>6. CASE TellGroups
  BY <1>6 DEF TellGroups, ChannelsInv, BuiltFrom, ChannelAt, ChannelsPending, Listed, published,
              kodiVars
<1>7. CASE GetTelevision \/ GetRadio
  <2>1. PICK radio \in BOOLEAN : /\ GetChannels(radio) /\ UNCHANGED published /\ UNCHANGED pc
                                 /\ IF radio THEN /\ job = "radio" /\ job' = "none"
                                                  /\ UNCHANGED channelsTriggered
                                             ELSE job = "none" /\ job' = "radio"
    BY <1>7 DEF GetTelevision, GetRadio, workerVars, triggers
  <2>2. UNCHANGED <<m_channels, m_order>>
    BY <2>1 DEF published
  <2>3. BuiltFrom(Listed(radio), m_order)
    BY DEF ChannelsInv, BuiltFrom, Listed
  <2>4. /\ kodiChannels'[radio] = Listed(radio) /\ kodiOrder'[radio] = m_order
        /\ \A r \in BOOLEAN \ {radio} :
              kodiChannels'[r] = kodiChannels[r] /\ kodiOrder'[r] = kodiOrder[r]
        /\ DOMAIN kodiChannels' = BOOLEAN /\ DOMAIN kodiOrder' = BOOLEAN
    BY <2>1 DEF GetChannels, ChannelsInv
  <2>5. \A r \in BOOLEAN : BuiltFrom(kodiChannels'[r], kodiOrder'[r])
    BY <2>3, <2>4 DEF ChannelsInv
  <2>6. \A r \in BOOLEAN : ChannelsPending(r)' \/ kodiChannels'[r] = Listed(r)'
    <3>1. \A r \in BOOLEAN : Listed(r)' = Listed(r)
      BY <2>2 DEF Listed
    <3>2. CASE radio = TRUE
      BY <2>1, <2>4, <3>1, <3>2 DEF ChannelsInv, ChannelsPending
    <3>3. CASE radio = FALSE
      BY <2>1, <2>4, <3>1, <3>3 DEF ChannelsInv, ChannelsPending
    <3> QED
      BY <3>2, <3>3
  <2> QED
    BY <2>2, <2>4, <2>5, <2>6 DEF ChannelsInv, BuiltFrom, ChannelAt
<1>8. CASE GetChannelGroups \/ GroupsDone \/ \E g \in Groups : GetChannelGroupMembers(g)
  <2>1. /\ UNCHANGED <<published, channelsTriggered, pc, kodiChannels, kodiOrder>>
        /\ job # "radio"
    BY <1>8 DEF GetChannelGroups, GroupsDone, GetChannelGroupMembers, workerVars, triggers
  <2> QED
    BY <2>1 DEF ChannelsInv, BuiltFrom, ChannelAt, ChannelsPending, Listed, published
<1>9. CASE UNCHANGED vars
  BY <1>1, <1>9 DEF vars, workerVars, triggers
<1> QED
  BY <1>2, <1>3, <1>4, <1>5, <1>6, <1>7, <1>8, <1>9 DEF Next, Worker, Kodi

LEMMA GroupsStep == GroupsInv /\ [Next]_vars => GroupsInv'
<1> SUFFICES ASSUME GroupsInv, [Next]_vars PROVE GroupsInv'
  OBVIOUS
<1>1. CASE UNCHANGED <<published, groupsTriggered, pc, job, asking, kodiMembers>>
  BY <1>1 DEF GroupsInv, Uids, published
<1>2. CASE Backend \/ UNCHANGED vars
  BY <1>1, <1>2 DEF Backend, Relock, Relist, Regroup, Changes, vars, workerVars, triggers, kodiVars
<1>3. CASE GetPlaylist
  BY <1>3 DEF GetPlaylist, GroupsInv, Uids, published, triggers, kodiVars
<1>4. CASE Publish \/ TellChannels \/ TellGroups
  BY <1>4 DEF Publish, TellChannels, TellGroups, GroupsInv
<1>5. CASE GetTelevision
  BY <1>5 DEF GetTelevision, GroupsInv, Uids, published, workerVars
<1>6. CASE GetRadio
  BY <1>6 DEF GetRadio, GroupsInv, Uids, published, workerVars, triggers
<1>7. CASE GetChannelGroups
  BY <1>7 DEF GetChannelGroups, GroupsInv, Uids, published
<1>8. CASE \E g \in Groups : GetChannelGroupMembers(g)
  <2>1. PICK h \in Groups : GetChannelGroupMembers(h)
    BY <1>8
  <2>2. Members(h) \subseteq Uids
    BY DEF Members, Uids
  <2> QED
    BY <2>1, <2>2 DEF GetChannelGroupMembers, GroupsInv, Uids, published, workerVars, triggers
<1>9. CASE GroupsDone
  BY <1>9 DEF GroupsDone, GroupsInv, Uids, published, workerVars, triggers
<1> QED
  BY <1>2, <1>3, <1>4, <1>5, <1>6, <1>7, <1>8, <1>9 DEF Next, Worker, Kodi

\* Kodi never plays, records or asks for the guide of another channel than the one
\* it shows, unless another list is on its way.
THEOREM IdsAreRight == Spec => []ShownIsPlayed
<1>1. ChannelsInv => ShownIsPlayed
  <2> SUFFICES ASSUME ChannelsInv, NEW radio \in BOOLEAN, ~ChannelsPending(radio),
                      NEW c \in kodiChannels[radio]
               PROVE  Under(c.iUniqueId) = {c.strId}
    BY DEF ShownIsPlayed
  <2>1. c \in m_channels
    BY DEF ChannelsInv, Listed
  <2>2. \A d \in m_channels : d.iUniqueId = c.iUniqueId => d.strId = c.strId
    BY <2>1 DEF ChannelsInv, BuiltFrom, ChannelAt
  <2> QED
    BY <2>1, <2>2 DEF Under
<1> QED
  BY <1>1, LineupInit, ChannelsStep, PTL DEF Spec, LineupInv

\* As long as the backend keeps its order, an id Kodi holds, however old, is that
\* channel's or nobody's.
THEOREM OnlyOrderRenumbers == Spec => []LocksRenumberNothing
<1>1. ChannelsInv => LocksRenumberNothing
  <2> SUFFICES ASSUME ChannelsInv, NEW radio \in BOOLEAN, kodiOrder[radio] = m_order,
                      NEW c \in kodiChannels[radio]
               PROVE  Under(c.iUniqueId) \subseteq {c.strId}
    BY DEF LocksRenumberNothing
  <2>1. c = ChannelAt(m_order, c.iUniqueId)
    BY DEF ChannelsInv, BuiltFrom
  <2>2. \A d \in m_channels : d = ChannelAt(m_order, d.iUniqueId)
    BY DEF ChannelsInv, BuiltFrom
  <2>3. \A d \in m_channels : d.iUniqueId = c.iUniqueId => d.strId = c.strId
    BY <2>1, <2>2 DEF ChannelAt
  <2> QED
    BY <2>3 DEF Under
<1> QED
  BY <1>1, LineupInit, ChannelsStep, PTL DEF Spec, LineupInv

\* Once nothing is on its way, every member of a group is a channel Kodi lists.
THEOREM GroupsAreListed == Spec => []MembersListed
<1>1. LineupInv => MembersListed
  <2> SUFFICES ASSUME LineupInv, ~Pending PROVE MembersListed
    BY DEF MembersListed
  <2>1. /\ DOMAIN kodiMembers = DOMAIN m_groups
        /\ \A g \in DOMAIN kodiMembers : kodiMembers[g] \subseteq Uids
    BY DEF LineupInv, GroupsInv, Pending, ChannelsPending
  <2>2. \A radio \in BOOLEAN : kodiChannels[radio] = Listed(radio)
    BY DEF LineupInv, ChannelsInv, Pending, ChannelsPending
  <2>3. ASSUME NEW c \in m_channels PROVE c.bIsRadio \in BOOLEAN
    <3>1. c = ChannelAt(m_order, c.iUniqueId)
      BY DEF LineupInv, ChannelsInv, BuiltFrom
    <3>2. ChannelAt(m_order, c.iUniqueId).bIsRadio \in BOOLEAN
      BY DEF ChannelAt
    <3> QED
      BY <3>1, <3>2
  <2>4. m_channels \subseteq kodiChannels[TRUE] \cup kodiChannels[FALSE]
    BY <2>2, <2>3 DEF Listed
  <2> QED
    BY <2>1, <2>4 DEF MembersListed, Uids
<1> QED
  BY <1>1, LineupInit, ChannelsStep, GroupsStep, PTL DEF Spec, LineupInv
=============================================================================

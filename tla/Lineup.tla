------------------------------- MODULE Lineup -------------------------------
(***************************************************************************)
(* The channels of sledovanitvcz::Data and their groups: how LoadPlayList  *)
(* numbers them and what Kodi makes of the numbers.                        *)
(*                                                                         *)
(* The backend lists the channels in an order of its own, some of them     *)
(* locked, and may at any time lock, unlock or relist them.  LoadPlayList  *)
(* gives each channel its place in that list as unique id, leaves out the  *)
(* locked ones the settings hide, collects the groups and publishes both.  *)
(* Kodi is told of the channels first and of the groups after, and asks    *)
(* for the television channels, the radio channels, the groups and the     *)
(* members of each group in calls of their own; all it hands back when it  *)
(* plays, records or asks for the guide of a channel is the unique id.     *)
(*                                                                         *)
(* Abstractions.  The vector m_channels is in the order of the unique ids, *)
(* and so it is a set here: a channel's index is the number of those with  *)
(* a smaller id.  Names and members' numbers are left out; a group is its  *)
(* name.  A load that fails publishes nothing and is left out; when loads  *)
(* are requested, and how long GetChannels waits for one, is in Playlist.  *)
(***************************************************************************)
EXTENDS Naturals, Sequences, FiniteSets

CONSTANTS
    Channels,
    Radio,          \* those that are not "tv"
    Groups,
    GroupOf,        \* the group of each channel
    Orders,         \* the lists of channels the backend may have
    MaxChanges      \* bound: changes at the backend

ASSUME LineupAssumption ==
    /\ Radio \subseteq Channels
    /\ GroupOf \in [Channels -> Groups]
    /\ Orders \subseteq Seq(Channels)
    /\ MaxChanges \in Nat

VARIABLES
    m_showLockedChannels,    \* the settings
    m_showLockedOnlyPin,
    \* the backend
    order,
    locked,
    groups,
    changes,
    \* the worker
    pc,
    root,                    \* the playlist LoadPlayList has got
    \* guarded by m_mutex
    m_channels,
    m_groups,
    \* Kodi
    channelsTriggered,       \* TriggerChannelUpdate not yet followed by a GetChannels
    groupsTriggered,         \* TriggerChannelGroupsUpdate not yet by a GetChannelGroups
    job,
    asking,                  \* the groups whose members it has still to ask for
    kodiChannels,            \* what GetChannels returned for television and for radio
    kodiMembers,             \* what GetChannelGroupMembers returned for each group
    \* history
    m_order,                 \* the list m_channels was built from
    kodiOrder                \* and those kodiChannels were

settings    == <<m_showLockedChannels, m_showLockedOnlyPin>>
backendVars == <<order, locked, groups, changes>>
workerVars  == <<pc, root>>
published   == <<m_channels, m_groups, m_order>>
triggers    == <<channelsTriggered, groupsTriggered>>
kodiVars    == <<job, asking, kodiChannels, kodiMembers, kodiOrder>>
vars == <<settings, backendVars, workerVars, published, triggers, kodiVars>>

-----------------------------------------------------------------------------
(* Values *)

Locks == {"none", "pin", "noAccess"}

Root == [order : Orders, locked : [Channels -> Locks], groups : SUBSET Groups]

\* Before the first load, and while there is none under way.
NoOrder == <<>>
NoRoot  == [order |-> NoOrder, locked |-> [c \in Channels |-> "none"], groups |-> {}]

Init ==
    /\ m_showLockedChannels \in BOOLEAN
    /\ m_showLockedOnlyPin \in BOOLEAN
    /\ order \in Orders
    /\ locked = [c \in Channels |-> "none"]
    /\ groups = Groups
    /\ changes = 0
    /\ pc = "idle"
    /\ root = NoRoot
    /\ m_channels = {}
    /\ m_groups = [g \in {} |-> {}]
    /\ m_order = NoOrder
    /\ channelsTriggered = TRUE
    /\ groupsTriggered = TRUE
    /\ job = "none"
    /\ asking = {}
    /\ kodiChannels = [radio \in BOOLEAN |-> {}]
    /\ kodiMembers = [g \in {} |-> {}]
    /\ kodiOrder = [radio \in BOOLEAN |-> NoOrder]

-----------------------------------------------------------------------------
(* The backend *)

Changes ==
    /\ changes < MaxChanges
    /\ changes' = changes + 1
    /\ UNCHANGED <<settings, workerVars, published, triggers, kodiVars>>

Relock(c, lock) ==
    /\ locked[c] # lock
    /\ locked' = [locked EXCEPT ![c] = lock]
    /\ Changes
    /\ UNCHANGED <<order, groups>>

Relist(o) ==
    /\ order # o
    /\ order' = o
    /\ Changes
    /\ UNCHANGED <<locked, groups>>

\* A group is removed or comes back.
Regroup(g) ==
    /\ groups' = (groups \ {g}) \cup ({g} \ groups)
    /\ Changes
    /\ UNCHANGED <<order, locked>>

-----------------------------------------------------------------------------
(* LoadPlayList *)

GetPlaylist ==
    /\ pc = "idle"
    /\ root' = [order |-> order, locked |-> locked, groups |-> groups]
    /\ pc' = "load"
    /\ UNCHANGED <<settings, backendVars, published, triggers, kodiVars>>

Hidden(lock) ==
    /\ lock # "none"
    /\ ~m_showLockedChannels \/ (m_showLockedOnlyPin /\ lock # "pin")

Shown == {i \in DOMAIN root.order : ~Hidden(root.locked[root.order[i]])}

\* Mutant: the channels that are shown are counted.
NewChannels_Counted ==
    {[iUniqueId |-> Cardinality({j \in Shown : j <= i}), strId |-> root.order[i],
      bIsRadio |-> root.order[i] \in Radio] : i \in Shown}

\* iUniqueId is i + 1 with i from 0: the hidden channels keep their numbers.
NewChannels ==
    {[iUniqueId |-> i, strId |-> root.order[i], bIsRadio |-> root.order[i] \in Radio] : i \in Shown}

\* The members of a group are unique ids.
NewGroups ==
    [g \in root.groups |->
        {c.iUniqueId : c \in {d \in NewChannels : GroupOf[d.strId] = g /\ ~d.bIsRadio}}]

Publish ==
    /\ pc = "load"
    /\ m_channels' = NewChannels
    /\ m_groups' = NewGroups
    /\ m_order' = root.order
    /\ root' = NoRoot
    /\ pc' = "tellChannels"
    /\ UNCHANGED <<settings, backendVars, triggers, kodiVars>>

\* Mutant: Kodi is told only when the number of channels has changed.
TellChannels_Counted ==
    /\ pc = "tellChannels"
    /\ channelsTriggered' = (channelsTriggered \/
          Cardinality(m_channels) # Cardinality(kodiChannels[TRUE] \cup kodiChannels[FALSE]))
    /\ pc' = "tellGroups"
    /\ UNCHANGED <<settings, backendVars, root, published, groupsTriggered, kodiVars>>

TellChannels ==
    /\ pc = "tellChannels"
    /\ channelsTriggered' = TRUE
    /\ pc' = "tellGroups"
    /\ UNCHANGED <<settings, backendVars, root, published, groupsTriggered, kodiVars>>

TellGroups ==
    /\ pc = "tellGroups"
    /\ groupsTriggered' = TRUE
    /\ pc' = "idle"
    /\ UNCHANGED <<settings, backendVars, root, published, channelsTriggered, kodiVars>>

-----------------------------------------------------------------------------
(* Kodi, one call at a time *)

\* GetChannels(radio), of one of the two kinds.
Listed(radio) == {c \in m_channels : c.bIsRadio = radio}

GetChannels(radio) ==
    /\ kodiChannels' = [kodiChannels EXCEPT ![radio] = Listed(radio)]
    /\ kodiOrder' = [kodiOrder EXCEPT ![radio] = m_order]

GetTelevision ==
    /\ job = "none"
    /\ channelsTriggered
    /\ channelsTriggered' = FALSE
    /\ GetChannels(FALSE)
    /\ job' = "radio"
    /\ UNCHANGED <<settings, backendVars, workerVars, published, groupsTriggered, asking, kodiMembers>>

GetRadio ==
    /\ job = "radio"
    /\ GetChannels(TRUE)
    /\ job' = "none"
    /\ UNCHANGED <<settings, backendVars, workerVars, published, triggers, asking, kodiMembers>>

\* All groups are television groups: bRadio is false.
GetChannelGroups ==
    /\ job = "none"
    /\ groupsTriggered
    /\ groupsTriggered' = FALSE
    /\ asking' = DOMAIN m_groups
    /\ kodiMembers' = [g \in DOMAIN m_groups |-> {}]
    /\ job' = "members"
    /\ UNCHANGED <<settings, backendVars, workerVars, published, channelsTriggered, kodiChannels, kodiOrder>>

Index(c) == Cardinality({d \in m_channels : d.iUniqueId < c.iUniqueId})

\* Mutant: the bound is not checked, and what is read there is anything.
Members_Unchecked(g) ==
    IF g \in DOMAIN m_groups
    THEN {c.iUniqueId : c \in {d \in m_channels : Index(d) \in m_groups[g]}}
            \cup (IF \E i \in m_groups[g] : i >= Cardinality(m_channels) THEN {0} ELSE {})
    ELSE {}

\* A member is taken for the index of a channel and skipped when there is none;
\* a group that has gone since it was listed has no members.
Members(g) ==
    IF g \in DOMAIN m_groups
    THEN {c.iUniqueId : c \in {d \in m_channels : Index(d) \in m_groups[g]}}
    ELSE {}

GetChannelGroupMembers(g) ==
    /\ job = "members"
    /\ g \in asking
    /\ asking' = asking \ {g}
    /\ kodiMembers' = [kodiMembers EXCEPT ![g] = Members(g)]
    /\ UNCHANGED <<settings, backendVars, workerVars, published, triggers, job, kodiChannels, kodiOrder>>

GroupsDone ==
    /\ job = "members"
    /\ asking = {}
    /\ job' = "none"
    /\ UNCHANGED <<settings, backendVars, workerVars, published, triggers, asking, kodiChannels,
                   kodiMembers, kodiOrder>>

-----------------------------------------------------------------------------
Backend ==
    \/ \E c \in Channels, lock \in Locks : Relock(c, lock)
    \/ \E o \in Orders : Relist(o)
    \/ \E g \in Groups : Regroup(g)

Worker == GetPlaylist \/ Publish \/ TellChannels \/ TellGroups

Kodi ==
    \/ GetTelevision
    \/ GetRadio
    \/ GetChannelGroups
    \/ \E g \in Groups : GetChannelGroupMembers(g)
    \/ GroupsDone

Next == Backend \/ Worker \/ Kodi

Spec == Init /\ [][Next]_vars

-----------------------------------------------------------------------------
(* Properties *)

\* Every variable keeps its shape, and the unique ids are places in the list the
\* channels were built from.
TypeOK ==
    /\ m_showLockedChannels \in BOOLEAN /\ m_showLockedOnlyPin \in BOOLEAN
    /\ order \in Orders /\ locked \in [Channels -> Locks] /\ groups \subseteq Groups
    /\ changes \in 0 .. MaxChanges
    /\ pc \in {"idle", "load", "tellChannels", "tellGroups"}
    /\ IF pc = "load" THEN root \in Root ELSE root = NoRoot
    /\ m_order \in Orders \cup {NoOrder}
    /\ \A c \in m_channels :
          /\ c.iUniqueId \in DOMAIN m_order
          /\ c = [iUniqueId |-> c.iUniqueId, strId |-> m_order[c.iUniqueId],
                  bIsRadio |-> m_order[c.iUniqueId] \in Radio]
    /\ DOMAIN m_groups \subseteq Groups
    /\ channelsTriggered \in BOOLEAN /\ groupsTriggered \in BOOLEAN
    /\ job \in {"none", "radio", "members"}
    /\ asking \subseteq DOMAIN kodiMembers /\ DOMAIN kodiMembers \subseteq Groups

\* The channels that m_channels has under a unique id: what std::find_if finds.
Under(id) == {c.strId : c \in {d \in m_channels : d.iUniqueId = id}}

\* A list of channels the add-on is about to tell Kodi of, or Kodi to ask for.
ChannelsPending(radio) == channelsTriggered \/ pc = "tellChannels" \/ (radio /\ job = "radio")

\* What Kodi shows under a unique id is what the add-on plays, records and gives
\* the guide of for it, in each of the two lists Kodi gets in calls of their own,
\* except while another list is on its way.
ShownIsPlayed ==
    \A radio \in BOOLEAN : ChannelsPending(radio)
        \/ \A c \in kodiChannels[radio] : Under(c.iUniqueId) = {c.strId}

\* And even then a lock that comes or goes makes no id mean another channel: only
\* another order of the backend does.
LocksRenumberNothing ==
    \A radio \in BOOLEAN : kodiOrder[radio] = m_order
        => \A c \in kodiChannels[radio] : Under(c.iUniqueId) \subseteq {c.strId}

Pending == ChannelsPending(TRUE) \/ groupsTriggered \/ pc = "tellGroups" \/ job # "none"

\* When nothing is on its way, Kodi has the groups of the add-on and each member
\* of a group is a channel that Kodi lists, whatever was published between the
\* calls in which it got them.
MembersListed ==
    ~Pending =>
        /\ DOMAIN kodiMembers = DOMAIN m_groups
        /\ \A g \in DOMAIN kodiMembers :
              kodiMembers[g] \subseteq {c.iUniqueId : c \in kodiChannels[TRUE] \cup kodiChannels[FALSE]}
=============================================================================

-------------------------- MODULE StaticChannelSet --------------------------
(***************************************************************************)
(* The set of static virtual channels of a connection: StaticChannelSet of *)
(* ironrdp-svc/src/lib.rs.  A channel is registered under the type of its  *)
(* processor or under a key made at run time; once joined it also has the  *)
(* MCS channel id by which incoming data finds it.                         *)
(*                                                                         *)
(* Processors are numbered as they are registered.                         *)
(***************************************************************************)
EXTENDS Naturals, FiniteSets, Functions

CONSTANTS
  Types,          \* processor types
  Ids,            \* MCS channel ids
  MaxStatic,      \* MAX_STATIC_CHANNELS
  MaxKey,         \* u64::MAX, the bound of next_dynamic_key
  MaxProcessors   \* bound on the processors registered

VARIABLES
  channels,           \* key -> processor
  to_channel_id,      \* key -> id
  to_channel_key,     \* id -> key
  next_dynamic_key,
  made,               \* processors made so far
  handed              \* dynamic keys handed out, with the processor each is for

vars == <<channels, to_channel_id, to_channel_key, next_dynamic_key, made, handed>>

Typed(t) == <<"Typed", t>>
Dynamic(n) == <<"Dynamic", n>>
Keys == {Typed(t) : t \in Types} \cup {Dynamic(n) : n \in 0 .. MaxKey}

Empty == [x \in {} |-> 0]
With(f, x, y) == [z \in DOMAIN f \cup {x} |-> IF z = x THEN y ELSE f[z]]
Without(f, S) == Restrict(f, DOMAIN f \ S)

Init ==
  /\ channels = Empty /\ to_channel_id = Empty /\ to_channel_key = Empty
  /\ next_dynamic_key = 0 /\ made = 0 /\ handed = {}

Full == Cardinality(DOMAIN channels) >= MaxStatic

\* insert: a processor of the same type is replaced.
Insert(t) ==
  /\ made < MaxProcessors
  /\ made' = made + 1
  /\ channels' = IF Typed(t) \notin DOMAIN channels /\ Full THEN channels
                 ELSE With(channels, Typed(t), made')
  /\ UNCHANGED <<to_channel_id, to_channel_key, next_dynamic_key, handed>>

\* insert_dynamic.
InsertDynamic ==
  /\ made < MaxProcessors
  /\ made' = made + 1
  /\ IF Full \/ next_dynamic_key = MaxKey
     THEN UNCHANGED <<channels, next_dynamic_key, handed>>
     ELSE /\ channels' = With(channels, Dynamic(next_dynamic_key), made')
          /\ next_dynamic_key' = next_dynamic_key + 1
          /\ handed' = handed \cup {<<Dynamic(next_dynamic_key), made'>>}
  /\ UNCHANGED <<to_channel_id, to_channel_key>>

\* detach_channel_id, when the key has one.
Detaches(key) ==
  /\ to_channel_id' = Without(to_channel_id, {key})
  /\ to_channel_key' = IF key \in DOMAIN to_channel_id
                       THEN Without(to_channel_key, {to_channel_id[key]})
                       ELSE to_channel_key

RemoveByTypeId(t) ==
  /\ channels' = Without(channels, {Typed(t)})
  /\ Detaches(Typed(t))
  /\ UNCHANGED <<next_dynamic_key, made, handed>>

DetachChannelId(t) ==
  /\ Detaches(Typed(t))
  /\ UNCHANGED <<channels, next_dynamic_key, made, handed>>

\* Mutant: the key that had the id before keeps it.
AttachChannelIdByKeyShared(key, id) ==
  /\ key \in DOMAIN channels
  /\ to_channel_id' = With(to_channel_id, key, id)
  /\ to_channel_key' =
       With(IF key \in DOMAIN to_channel_id THEN Without(to_channel_key, {to_channel_id[key]})
            ELSE to_channel_key, id, key)
  /\ UNCHANGED <<channels, next_dynamic_key, made, handed>>

\* attach_channel_id_by_key: the key loses the id it had, and the key that
\* had the id loses that.
AttachChannelIdByKey(key, id) ==
  /\ key \in DOMAIN channels
  /\ to_channel_id' =
       With(IF id \in DOMAIN to_channel_key THEN Without(to_channel_id, {to_channel_key[id]})
            ELSE to_channel_id, key, id)
  /\ to_channel_key' =
       With(IF key \in DOMAIN to_channel_id THEN Without(to_channel_key, {to_channel_id[key]})
            ELSE to_channel_key, id, key)
  /\ UNCHANGED <<channels, next_dynamic_key, made, handed>>

\* Mutant: the keys start over.
ClearAll ==
  /\ channels' = Empty /\ to_channel_id' = Empty /\ to_channel_key' = Empty
  /\ next_dynamic_key' = 0
  /\ UNCHANGED <<made, handed>>

\* clear, which does not reset next_dynamic_key.
Clear ==
  /\ channels' = Empty /\ to_channel_id' = Empty /\ to_channel_key' = Empty
  /\ UNCHANGED <<next_dynamic_key, made, handed>>

Next ==
  \/ \E t \in Types : Insert(t) \/ RemoveByTypeId(t) \/ DetachChannelId(t)
  \/ InsertDynamic
  \/ \E key \in Keys, id \in Ids : AttachChannelIdByKey(key, id)
  \/ Clear

Spec == Init /\ [][Next]_vars

-----------------------------------------------------------------------------
(* Properties *)

\* Data for an id reaches the channel that would send with that id, and only
\* a channel that is there: the two maps are inverse to each other and both
\* within the channels, after any attaching, moving and removing.
InverseMaps ==
  /\ DOMAIN to_channel_id \subseteq DOMAIN channels
  /\ \A key \in DOMAIN to_channel_id :
       to_channel_id[key] \in DOMAIN to_channel_key /\ to_channel_key[to_channel_id[key]] = key
  /\ \A id \in DOMAIN to_channel_key :
       to_channel_key[id] \in DOMAIN to_channel_id /\ to_channel_id[to_channel_key[id]] = id

\* A key made at run time stands for the processor it was returned for as
\* long as it stands for any, also when the set was cleared in between
\* ("Runtime-defined channel instances receive a unique dynamic key").
DynamicKeysUnique ==
  \A h \in handed : h[1] \in DOMAIN channels => channels[h[1]] = h[2]

\* Both.
ChannelSetConsistent == InverseMaps /\ DynamicKeysUnique
=============================================================================

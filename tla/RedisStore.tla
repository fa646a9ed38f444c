------------------------------- MODULE RedisStore ------------------------------
(******************************************************************************)
(* The Redis implementation of store.Store, internal/store/redis/store.go:    *)
(* the keys of the Redis server and what each command does to them.  Redis    *)
(* executes one command, and one MULTI/EXEC pipeline, at a time; a method of  *)
(* the store that sends several is several steps of its caller.               *)
(******************************************************************************)
EXTENDS Core, SequencesExt

VARIABLES
  stream,  \* ew:stream:<topic>: events, oldest first
  saved,   \* ew:state:<topic>: the events the state was reduced from, <<>> when unset
  meta,    \* ew:meta:<topic>: whether the hash exists, its last_seq (0 when unset)
  seqKey,  \* ew:seq:<topic>: 0 when unset
  topics   \* ew:topics

redisVars == <<stream, saved, meta, seqKey, topics>>

NoMeta == [exists |-> FALSE, last_seq |-> 0]

RedisInit ==
  /\ stream = [t \in Topics |-> <<>>]
  /\ saved = [t \in Topics |-> <<>>]
  /\ meta = [t \in Topics |-> NoMeta]
  /\ seqKey = [t \in Topics |-> 0]
  /\ topics = {}

--------------------------------------------------------------------------------
(* Append, first command: INCR.                                               *)
Incr(t) ==
  /\ seqKey' = [seqKey EXCEPT ![t] = @ + 1]
  /\ UNCHANGED <<stream, saved, meta, topics>>

(* Append, second command: XADD, HSET (last_seq and last_event_at together),  *)
(* HSETNX and SADD in one transaction.                                        *)
Pipeline(e) ==
  /\ stream' = [stream EXCEPT ![e.topic] = Append(@, e)]
  /\ meta' = [meta EXCEPT ![e.topic] = [exists |-> TRUE, last_seq |-> e.seq]]
  /\ topics' = topics \cup {e.topic}
  /\ UNCHANGED <<saved, seqKey>>

SetState(t, st) ==
  /\ saved' = [saved EXCEPT ![t] = st]
  /\ UNCHANGED <<stream, meta, seqKey, topics>>

(* UpsertMeta: HSET of object_type and the TTL, which creates the hash if it  *)
(* is not there but neither a last_event_at nor an entry in ew:topics.        *)
UpsertMeta(t) ==
  /\ meta' = [meta EXCEPT ![t].exists = TRUE]
  /\ UNCHANGED <<stream, saved, seqKey, topics>>

(* Mutant: the state key is not among those deleted.                          *)
DeleteTopic_KeepsState(t) ==
  /\ stream' = [stream EXCEPT ![t] = <<>>]
  /\ meta' = [meta EXCEPT ![t] = NoMeta]
  /\ seqKey' = [seqKey EXCEPT ![t] = 0]
  /\ topics' = topics \ {t}
  /\ UNCHANGED saved

(* Mutant: the topic remains listed.                                          *)
DeleteTopic_StaysListed(t) ==
  /\ stream' = [stream EXCEPT ![t] = <<>>]
  /\ saved' = [saved EXCEPT ![t] = <<>>]
  /\ meta' = [meta EXCEPT ![t] = NoMeta]
  /\ seqKey' = [seqKey EXCEPT ![t] = 0]
  /\ UNCHANGED topics

(* DeleteTopic: DEL of the four keys and SREM in one transaction.             *)
DeleteTopic(t) ==
  /\ stream' = [stream EXCEPT ![t] = <<>>]
  /\ saved' = [saved EXCEPT ![t] = <<>>]
  /\ meta' = [meta EXCEPT ![t] = NoMeta]
  /\ seqKey' = [seqKey EXCEPT ![t] = 0]
  /\ topics' = topics \ {t}

--------------------------------------------------------------------------------
(* Mutant: limit counts the entries walked, not the events kept.              *)
Read_LimitsFirst(t, from, limit) ==
  SelectSeq(SubSeq(stream[t], 1, IF limit = 0 THEN Len(stream[t]) ELSE limit),
            LAMBDA e : e.seq >= from)

(* Read: XRANGE of everything; the loop over the entries keeps those with a   *)
(* seq of at least from, and stops when it has limit of them, if there is one.*)
Read(t, from, limit) ==
  LET log == stream[t]
      Full(kept) == limit > 0 /\ Len(kept) >= limit
      out[i \in 0 .. Len(log)] ==
        IF i = 0 THEN <<>>
        ELSE IF log[i].seq < from \/ Full(out[i - 1]) THEN out[i - 1]
        ELSE Append(out[i - 1], log[i])
  IN  out[Len(log)]

(* Latest: XREVRANGE of n entries, put back in order; none when n is 0.       *)
Latest(t, n) ==
  LET len == Len(stream[t]) IN SubSeq(stream[t], IF n < len THEN len + 1 - n ELSE 1, len)

================================================================================

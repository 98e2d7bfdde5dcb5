---- MODULE QueryCaches ----
(* The query caches of src/cache/: a cache is the sequence of its entries, the *)
(* least recently used first (the order of keys of MemoryQueryCache's Map).    *)
(* Time is counted in half seconds.                                            *)
EXTENDS Integers, Sequences, SequencesExt

CONSTANTS MaxSize,    \* options.maxSize
          None

Entry(key, value, expires) == [key |-> key, value |-> value, expires |-> expires]

Keys(cache) == {cache[n].key : n \in DOMAIN cache}
Find(cache, key) == CHOOSE n \in DOMAIN cache : cache[n].key = key
Value(cache, key) == cache[Find(cache, key)].value
Expired(cache, key, now) == now > cache[Find(cache, key)].expires

Delete(cache, key) == IF key \in Keys(cache) THEN RemoveAt(cache, Find(cache, key)) ELSE cache

\* get() of MemoryQueryCache: what it answers, and the order it leaves.
Hit(cache, key, now) == key \in Keys(cache) /\ ~Expired(cache, key, now)
AfterGet(cache, key, now) ==
    IF key \notin Keys(cache) THEN cache
    ELSE IF Expired(cache, key, now) THEN Delete(cache, key)
    ELSE Append(Delete(cache, key), cache[Find(cache, key)])

\* set() of a key that is there leaves it in its place; a new one drops the oldest.
AfterSet(cache, key, value, expires) ==
    LET new == Entry(key, value, expires)
        room == IF Len(cache) >= MaxSize /\ cache # <<>> THEN Tail(cache) ELSE cache IN
    IF key \in Keys(cache) THEN [cache EXCEPT ![Find(cache, key)] = new] ELSE Append(room, new)

\* RedisQueryCache rounds the time to live up to whole seconds, at least one; the
\* server drops what has expired, and its memory is not bounded here.
RedisTtl(ttl) == IF ttl < 2 THEN 2 ELSE 2 * ((ttl + 1) \div 2)
RedisSet(cache, key, value, expires) == Append(Delete(cache, key), Entry(key, value, expires))
RedisGet(cache, key, now) ==
    IF key \in Keys(cache) /\ Expired(cache, key, now) THEN Delete(cache, key) ELSE cache
====

-------------------------------- MODULE Maps --------------------------------
(***************************************************************************)
(* The map collection (gc/collections/map.c): a table of chains of         *)
(* entries, doubled in the middle of a put when more than half as many     *)
(* keys as buckets are in it.  As in module Lists a function is one step.  *)
(***************************************************************************)
EXTENDS Naturals, Sequences, FiniteSets

CONSTANTS
  Map,      \* the program's variables that hold a map
  Key,      \* keys, no two of them equal to the program's comparison
  Hash,     \* the program's hash function
  Datum,    \* values
  Missing   \* what a search that fails finds

ASSUME MapsAssumption ==
  /\ Hash \in [Key -> Nat]
  /\ Missing \notin Datum

(* An entry is named by the map it is made for and its key, which does not   *)
(* change; a map needs a second one for a key only after it dropped the      *)
(* first.                                                                    *)
Entry == Map \X Key
InitialSize == 4

VARIABLES
  size, used,   \* the members of each map: its buckets, how many keys it has
  entries,      \* its buckets, each the chain of entries from its first on
  value         \* the value in each entry

mapVars == <<size, used, entries, value>>

MapsInit ==
  /\ size = [m \in Map |-> 0] /\ used = size
  /\ entries = [m \in Map |-> << >>]
  /\ value = [e \in Entry |-> Missing]

Bucket(k, n) == (Hash[k] % n) + 1

(* The entries of a map. *)
Members(m) ==
  UNION {{entries[m][b][i] : i \in 1 .. Len(entries[m][b])} : b \in 1 .. size[m]}

(* GGC_MapGet: the value of the first entry in the key's bucket that has it. *)
Get(m, k) ==
  LET chain == entries[m][Bucket(k, size[m])]
      hits == {i \in 1 .. Len(chain) : chain[i][2] = k}
  IN  IF size[m] = 0 \/ hits = {} THEN Missing
      ELSE value[chain[CHOOSE i \in hits : \A j \in hits : i <= j]]

(* A table of n buckets with e in front of the chain it belongs to.          *)
InFront(table, e, n) == [table EXCEPT ![Bucket(e[2], n)] = <<e>> \o @]

Empty(n) == [b \in 1 .. n |-> << >>]

(* A chain's entries, from its first on, moved to a table of n buckets.      *)
Moved(table, chain, n) ==
  LET after[i \in 0 .. Len(chain)] ==
        IF i = 0 THEN table ELSE InFront(after[i - 1], chain[i], n)
  IN  after[Len(chain)]

(* The table grown to n buckets, from the first chain of the old one on.     *)
Rehashed(m, n) ==
  LET after[b \in 0 .. size[m]] ==
        IF b = 0 THEN Empty(n) ELSE Moved(after[b - 1], entries[m][b], n)
  IN  after[size[m]]

(* What a put makes of the table before it looks for the key: four buckets   *)
(* for a new map, twice as many once more than half as many keys are in it.  *)
Table(m) ==
  CASE size[m] = 0 -> Empty(InitialSize)
    [] size[m] # 0 /\ used[m] > size[m] \div 2 -> Rehashed(m, 2 * size[m])
    [] OTHER -> entries[m]

(* Where it puts k in bucket b of the table: into an entry that has it or    *)
(* into a new one in front.                                                  *)
PutIn(m, k, d, table, b) ==
  /\ size' = [size EXCEPT ![m] = Len(table)]
  /\ \/ \E i \in 1 .. Len(table[b]) :
          /\ table[b][i][2] = k
          /\ value' = [value EXCEPT ![table[b][i]] = d]
          /\ entries' = [entries EXCEPT ![m] = table]
          /\ UNCHANGED used
     \/ /\ \A i \in 1 .. Len(table[b]) : table[b][i][2] # k
        /\ value' = [value EXCEPT ![<<m, k>>] = d]
        /\ entries' = [entries EXCEPT ![m] = [table EXCEPT ![b] = <<<<m, k>>>> \o @]]
        /\ used' = [used EXCEPT ![m] = @ + 1]

(* The mutant of MapPut: the bucket is taken from the size before the table  *)
(* grew.                                                                     *)
MapPutOldBucket(m, k, d) ==
  PutIn(m, k, d, Table(m), Bucket(k, IF size[m] = 0 THEN InitialSize ELSE size[m]))

MapPut(m, k, d) == PutIn(m, k, d, Table(m), Bucket(k, Len(Table(m))))

(* The mutant of MapClone: the clone takes the chains, not copies of them.   *)
MapCloneShares(m, copy) ==
  /\ m # copy
  /\ size' = [size EXCEPT ![copy] = size[m]]
  /\ used' = [used EXCEPT ![copy] = used[m]]
  /\ entries' = [entries EXCEPT ![copy] = entries[m]]
  /\ UNCHANGED value

(* The clone of m goes to the variable copy, whose map is dropped: new       *)
(* entries in the same places of the chains.                                 *)
MapClone(m, copy) ==
  /\ m # copy
  /\ size' = [size EXCEPT ![copy] = size[m]]
  /\ used' = [used EXCEPT ![copy] = used[m]]
  /\ entries' = [entries EXCEPT ![copy] =
                   [b \in 1 .. size[m] |->
                      [i \in 1 .. Len(entries[m][b]) |-> <<copy, entries[m][b][i][2]>>]]]
  /\ value' = [e \in Entry |-> IF e[1] = copy THEN Get(m, e[2]) ELSE value[e]]

MapsNext ==
  \E m \in Map :
    \/ \E k \in Key, d \in Datum : MapPut(m, k, d)
    \/ \E copy \in Map : MapClone(m, copy)

MapsSpec == MapsInit /\ [][MapsNext]_mapVars

(***************************************************************************)
(* Properties                                                              *)
(***************************************************************************)

(* Every entry is in one place, in the bucket of its key, and no other entry *)
(* of the map has that key; used counts them, and at most one key more than  *)
(* half of the buckets are there.  No two maps share an entry.               *)
MapsWellFormed ==
  /\ \A m \in Map :
       /\ Len(entries[m]) = size[m] /\ used[m] <= size[m] \div 2 + 1
       /\ \A b \in 1 .. size[m] : \A i \in 1 .. Len(entries[m][b]) :
            /\ Bucket(entries[m][b][i][2], size[m]) = b
            /\ \A j \in 1 .. Len(entries[m][b]) :
                 entries[m][b][i][2] = entries[m][b][j][2] => i = j
       /\ Cardinality({e[2] : e \in Members(m)}) = used[m]
  /\ \A m, n \in Map : m # n => Members(m) \cap Members(n) = {}

Kept == INSTANCE Mappings WITH mapping <- [m \in Map |-> [k \in Key |-> Get(m, k)]]

(* GGC_MapGet finds what GGC_MapPut last put there for that key, whatever    *)
(* has been put, grown or cloned since, in that map and in no other.         *)
MapsPromised ==
  \A m \in Map :
    /\ \A k \in Key, d \in Datum : MapPut(m, k, d) => Kept!Put(m, k, d)
    /\ \A copy \in Map : MapClone(m, copy) => Kept!Clone(m, copy)

MapsImplement == Kept!Spec /\ [][MapsPromised]_mapVars
=============================================================================

-------------------------- MODULE ConnstringParse --------------------------
(***************************************************************************)
(* neon.pageserver_connstring and the shard map the postmaster builds from *)
(* it (libpagestore.c): CheckPageserverConnstring validates a new value    *)
(* with ParseShardMap, and AssignPageserverConnstring parses it again into *)
(* the ShardMap it installs.  ParseShardMap is modelled as the loop it is  *)
(* (strchr for the next comma, the two limits, the copy of the field) and  *)
(* checked against a reference definition: the comma-separated fields of  *)
(* the string, a trailing empty field ignored.                             *)
(*                                                                         *)
(* A string is a sequence of characters; the fields' characters are Chars *)
(* and the separator is ",".  A parsed map is the sequence of its shards'  *)
(* connection strings (num_shards is its length).                          *)
(***************************************************************************)
EXTENDS Integers, Sequences, SequencesExt

CONSTANTS
  Chars,        \* characters other than the comma
  MaxShards,    \* MAX_SHARDS
  ConnStrSize,  \* MAX_PAGESERVER_CONNSTRING_SIZE, the terminating NUL included
  MaxLen        \* model bound on the length of a configured string

VARIABLES
  guc,    \* the value of neon.pageserver_connstring in the postmaster
  shmap,  \* the shard map in shared memory
  tried,  \* the last value a reload offered
  taken   \* whether the check hook accepted it

vars == <<guc, shmap, tried, taken>>

Strings == UNION {[1 .. n -> Chars \cup {","}] : n \in 0 .. MaxLen}

Failed == [ok |-> FALSE, shards |-> << >>]
Parsed(shards) == [ok |-> TRUE, shards |-> shards]

\* strchr(p, ','): the position of the first comma of s, or 0.
FirstComma(s) ==
  IF \E i \in 1 .. Len(s) : s[i] = ","
  THEN CHOOSE i \in 1 .. Len(s) : s[i] = "," /\ \A j \in 1 .. i - 1 : s[j] # ","
  ELSE 0

\* Bug: the shard limit is tested with > instead of >=.
ParseShardMap_bug(s) ==
  LET RECURSIVE Loop(_, _)
      Loop(p, shards) ==
        LET sep == FirstComma(p)
            len == IF sep # 0 THEN sep - 1 ELSE Len(p)
        IN IF len = 0 /\ sep = 0 THEN Parsed(shards)
           ELSE IF Len(shards) > MaxShards THEN Failed
           ELSE IF len >= ConnStrSize THEN Failed
           ELSE IF sep = 0 THEN Parsed(Append(shards, SubSeq(p, 1, len)))
           ELSE Loop(SubSeq(p, sep + 1, Len(p)), Append(shards, SubSeq(p, 1, len)))
  IN Loop(s, << >>)

\* The for (;;) loop of ParseShardMap over the rest p of the string: an
\* empty last field ends it, too many shards or a field that does not fit
\* fails it, otherwise the field is copied and the loop goes on after the
\* comma, if there is one.
ParseShardMap(s) ==
  LET RECURSIVE Loop(_, _)
      Loop(p, shards) ==
        LET sep == FirstComma(p)
            len == IF sep # 0 THEN sep - 1 ELSE Len(p)
        IN IF len = 0 /\ sep = 0 THEN Parsed(shards)
           ELSE IF Len(shards) >= MaxShards THEN Failed
           ELSE IF len >= ConnStrSize THEN Failed
           ELSE IF sep = 0 THEN Parsed(Append(shards, SubSeq(p, 1, len)))
           ELSE Loop(SubSeq(p, sep + 1, Len(p)), Append(shards, SubSeq(p, 1, len)))
  IN Loop(s, << >>)

\* CheckPageserverConnstring: ParseShardMap(p, NULL).
CheckPageserverConnstring(s) == ParseShardMap(s).ok

(***************************************************************************)
(* The postmaster.  At start-up the configured value passed the check hook *)
(* (else the postmaster does not start) and PagestoreShmemInit installed   *)
(* its map.  On SIGHUP a new value is set only if the check hook accepts   *)
(* it; the assign hook then installs the parsed map (the memcmp skips the  *)
(* copy when the map is unchanged, which installs the same map).  A      *)
(* refused value leaves the GUC and the map as they were.                  *)
(***************************************************************************)
Init ==
  /\ guc \in {s \in Strings : CheckPageserverConnstring(s)}
  /\ shmap = ParseShardMap(guc).shards
  /\ tried = guc
  /\ taken = TRUE

Reload(s) ==
  /\ tried' = s
  /\ taken' = CheckPageserverConnstring(s)
  /\ IF CheckPageserverConnstring(s)
     THEN /\ guc' = s
          /\ shmap' = ParseShardMap(s).shards
     ELSE UNCHANGED <<guc, shmap>>

Next == \E s \in Strings : Reload(s)

Spec == Init /\ [][Next]_vars

(***************************************************************************)
(* Reference: the fields between the commas of s, the last one dropped    *)
(* when it is empty (a trailing comma, or the empty string); a string with *)
(* more than MaxShards fields, or a field that does not fit its buffer, is *)
(* refused.                                                                *)
(***************************************************************************)
Fields(s) ==
  LET cuts == <<0>> \o SetToSortSeq({i \in 1 .. Len(s) : s[i] = ","}, <)
                    \o <<Len(s) + 1>>
  IN [j \in 1 .. Len(cuts) - 1 |-> SubSeq(s, cuts[j] + 1, cuts[j + 1] - 1)]

Reference(s) ==
  LET f == Fields(s)
      listed == IF f[Len(f)] = << >> THEN Front(f) ELSE f
  IN IF Len(listed) <= MaxShards /\ \A j \in 1 .. Len(listed) : Len(listed[j]) < ConnStrSize
     THEN Parsed(listed)
     ELSE Failed

(***************************************************************************)
(* Properties                                                              *)
(***************************************************************************)
TypeOK ==
  /\ guc \in Strings /\ tried \in Strings /\ taken \in BOOLEAN
  /\ shmap \in Seq(Seq(Chars)) /\ Len(shmap) <= MaxShards

\* The shard map installed in shared memory is exactly the list of the
\* comma-separated connection strings of the value the postmaster holds,
\* after every reload: ParseShardMap's loop neither loses, merges nor
\* truncates a field, and the check hook refused the last value offered
\* exactly when its fields would not fit in a ShardMap.
MapMatchesConnstring ==
  /\ Reference(guc).ok
  /\ shmap = Reference(guc).shards
  /\ taken = Reference(tried).ok

=============================================================================

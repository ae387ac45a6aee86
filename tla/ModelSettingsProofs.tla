------------------------ MODULE ModelSettingsProofs ------------------------
(***************************************************************************)
(* What the store of model configurations promises, for any providers,     *)
(* models and encryption keys, and any number of failing writes, crashes   *)
(* and changes of the encryption key.                                      *)
(*                                                                         *)
(* Both promises are kept by the file and by the list a handler is about   *)
(* to write, so the invariant speaks of both.  A list on its way has one   *)
(* layer of encryption less than a file may have; its first active         *)
(* configuration was chosen before it is written for upsert, and only the  *)
(* provider that is put into use is active in it for set_active.           *)
(***************************************************************************)
EXTENDS ModelSettings, TLAPS

Config == [provider : Provider, model : Model, wraps : Seq(CryptKey), active : BOOLEAN]

Layers(c) == Len(c.wraps)

\* A stored key has a layer, and one for each change of the key besides, of which
\* the present key's can only be the last.
StoredOnce(list) ==
  \A i \in DOMAIN list :
    /\ Layers(list[i]) \in 1 .. rotations + 1
    /\ Last(list[i].wraps) # crypt => Layers(list[i]) <= rotations

ReadOnce(list) == \A i \in DOMAIN list : Layers(list[i]) <= rotations

Offered(list) == {Choice(c) : c \in GetActive(list)}

SInv ==
  /\ crypt \in CryptKey /\ rotations \in Nat
  /\ file \in [ok : BOOLEAN, list : Seq(Config)]
  /\ op \in [pc : {"idle", "open", "write"}, list : Seq(Config), activate : BOOLEAN,
             provider : Provider \cup {NoModel}]
  /\ file.ok => StoredOnce(file.list) /\ Offered(file.list) \subseteq chosen
  /\ op.pc # "idle" =>
       /\ ReadOnce(op.list)
       /\ op.activate => Offered(op.list) \subseteq chosen
       /\ ~op.activate =>
            \A i \in DOMAIN op.list : op.list[i].active => op.list[i].provider = op.provider

-----------------------------------------------------------------------------
(* What the operators of the store make of a configuration and a list. *)

LEMMA IsASeq ==
  ASSUME NEW n \in Nat, NEW f \in [1 .. n -> Config]
  PROVE  f \in Seq(Config)
  OBVIOUS

LEMMA DecryptedFacts ==
  ASSUME NEW c \in Config, NEW k \in CryptKey
  PROVE  /\ Decrypted(c, k) \in Config
         /\ Decrypted(c, k).provider = c.provider /\ Decrypted(c, k).model = c.model
         /\ Decrypted(c, k).active = c.active
         /\ Layers(Decrypted(c, k)) =
              IF Layers(c) # 0 /\ Last(c.wraps) = k THEN Layers(c) - 1 ELSE Layers(c)
<1> DEFINE w == c.wraps
<1>1. w \in Seq(CryptKey) /\ Len(w) \in Nat /\ (w # <<>> <=> Len(w) # 0)
  BY DEF Config
<1>2. CASE w # <<>> /\ Last(w) = k
  <2> DEFINE f == Front(w)
  <2>1. f \in Seq(CryptKey) /\ Len(f) = Len(w) - 1
    BY <1>1, <1>2 DEF Front
  <2>2. Decrypted(c, k) = [c EXCEPT !.wraps = f]
    BY <1>2 DEF Decrypted
  <2> HIDE DEF f
  <2>3. /\ [c EXCEPT !.wraps = f] \in Config /\ [c EXCEPT !.wraps = f].wraps = f
        /\ [c EXCEPT !.wraps = f].provider = c.provider
        /\ [c EXCEPT !.wraps = f].model = c.model
        /\ [c EXCEPT !.wraps = f].active = c.active
    BY <2>1 DEF Config
  <2> QED
    BY <1>1, <1>2, <2>1, <2>2, <2>3 DEF Layers
<1>3. CASE ~(w # <<>> /\ Last(w) = k)
  BY <1>1, <1>3 DEF Decrypted, Layers
<1> QED
  BY <1>2, <1>3

LEMMA EncryptedFacts ==
  ASSUME NEW c \in Config, crypt \in CryptKey
  PROVE  /\ Encrypted(c) \in Config
         /\ Encrypted(c).provider = c.provider /\ Encrypted(c).model = c.model
         /\ Encrypted(c).active = c.active
         /\ Layers(Encrypted(c)) = Layers(c) + 1
         /\ Last(Encrypted(c).wraps) = crypt
<1> DEFINE w == Append(c.wraps, crypt)
<1>1. w \in Seq(CryptKey) /\ Len(w) = Len(c.wraps) + 1 /\ w[Len(c.wraps) + 1] = crypt
  BY DEF Config
<1>2. Encrypted(c) = [c EXCEPT !.wraps = w]
  BY DEF Encrypted
<1> HIDE DEF w
<1>3. /\ [c EXCEPT !.wraps = w] \in Config /\ [c EXCEPT !.wraps = w].wraps = w
      /\ [c EXCEPT !.wraps = w].provider = c.provider
      /\ [c EXCEPT !.wraps = w].model = c.model
      /\ [c EXCEPT !.wraps = w].active = c.active
  BY <1>1 DEF Config
<1> QED
  BY <1>1, <1>2, <1>3 DEF Layers, Last

\* Lists that agree on who is active, and on what everyone chose, put the same
\* choice into use.
LEMMA SameOffered ==
  ASSUME NEW a, NEW b, DOMAIN a = DOMAIN b,
         \A i \in DOMAIN a : /\ a[i].active = b[i].active
                             /\ a[i].provider = b[i].provider /\ a[i].model = b[i].model
  PROVE  Offered(a) = Offered(b)
<1>1. \A i \in DOMAIN a : IsFirst(a, i) <=> IsFirst(b, i)
  BY DEF IsFirst
<1>2. \A i \in DOMAIN a : Choice(a[i]) = Choice(b[i])
  BY DEF Choice
<1>3. /\ Offered(a) = {Choice(a[i]) : i \in {j \in DOMAIN a : IsFirst(a, j)}}
      /\ Offered(b) = {Choice(b[i]) : i \in {j \in DOMAIN b : IsFirst(b, j)}}
  BY DEF Offered, GetActive
<1> QED
  BY <1>1, <1>2, <1>3

\* What a process reads: the file, with a layer less on what it can decrypt.
LEMMA LoadedFacts ==
  ASSUME NEW f \in [ok : BOOLEAN, list : Seq(Config)], NEW k \in CryptKey,
         rotations \in Nat, f.ok => StoredOnce(f.list)
  PROVE  LET list == LoadAll(f, k) IN
           /\ list \in Seq(Config)
           /\ ~f.ok => list = <<>>
           /\ f.ok => Offered(list) = Offered(f.list)
           /\ k = crypt => ReadOnce(list)
<1> DEFINE was  == f.list
           list == [i \in DOMAIN was |-> Decrypted(was[i], k)]
<1>1. was \in Seq(Config)
  OBVIOUS
<1>2. CASE f.ok
  <2>1. LoadAll(f, k) = list
    BY <1>2 DEF LoadAll
  <2>2. DOMAIN was = 1 .. Len(was) /\ Len(was) \in Nat /\ DOMAIN list = DOMAIN was
    BY <1>1
  <2>3. \A i \in DOMAIN was : was[i] \in Config /\ list[i] = Decrypted(was[i], k)
    BY <1>1
  <2>4. \A i \in DOMAIN was :
          /\ list[i] \in Config /\ list[i].provider = was[i].provider
          /\ list[i].model = was[i].model /\ list[i].active = was[i].active
          /\ Layers(list[i]) = IF Layers(was[i]) # 0 /\ Last(was[i].wraps) = k
                               THEN Layers(was[i]) - 1 ELSE Layers(was[i])
    BY <2>3, DecryptedFacts
  <2>5. list \in Seq(Config)
    <3>1. list \in [1 .. Len(was) -> Config]
      BY <2>2, <2>4
    <3> QED
      BY <2>2, <3>1, IsASeq
  <2>6. k = crypt => ReadOnce(list)
    <3> SUFFICES ASSUME k = crypt, NEW i \in DOMAIN was PROVE Layers(list[i]) <= rotations
      BY <2>2 DEF ReadOnce
    <3>1. /\ Layers(was[i]) \in 1 .. rotations + 1 /\ rotations \in Nat
          /\ Last(was[i].wraps) # crypt => Layers(was[i]) <= rotations
      BY <1>2 DEF StoredOnce
    <3> HIDE DEF list
    <3> QED
      BY <2>4, <3>1
  <2> HIDE DEF list
  <2>7. Offered(list) = Offered(was)
    BY <2>2, <2>4, SameOffered
  <2> QED
    BY <1>2, <2>1, <2>5, <2>6, <2>7
<1>3. CASE ~f.ok
  BY <1>3 DEF LoadAll, ReadOnce
<1> QED
  BY <1>2, <1>3

\* set_active leaves one provider active.
LEMMA ActivatedFacts ==
  ASSUME NEW list \in Seq(Config), NEW p
  PROVE  /\ Activated(list, p) \in Seq(Config)
         /\ ReadOnce(list) => ReadOnce(Activated(list, p))
         /\ \A i \in DOMAIN Activated(list, p) :
              Activated(list, p)[i].active => Activated(list, p)[i].provider = p
<1> DEFINE new == Activated(list, p)
<1>1. /\ DOMAIN list = 1 .. Len(list) /\ Len(list) \in Nat
      /\ DOMAIN new = DOMAIN list
      /\ \A i \in DOMAIN list :
           list[i] \in Config /\ new[i] = [list[i] EXCEPT !.active = i \in Named(list, p)]
  BY DEF Activated
<1>2. ASSUME NEW i \in DOMAIN list
      PROVE  /\ new[i] \in Config /\ Layers(new[i]) = Layers(list[i])
             /\ new[i].active => new[i].provider = p
  <2> DEFINE b == i \in Named(list, p)
             c == [list[i] EXCEPT !.active = b]
  <2>1. b \in BOOLEAN /\ (b => list[i].provider = p)
    BY DEF Named
  <2>2. list[i] \in Config /\ new[i] = c
    BY <1>1
  <2> HIDE DEF b
  <2>3. c \in Config /\ c.wraps = list[i].wraps /\ c.provider = list[i].provider /\ c.active = b
    BY <2>1, <2>2 DEF Config
  <2> QED
    BY <2>1, <2>2, <2>3 DEF Layers
<1> HIDE DEF new
<1>3. new \in Seq(Config)
  <2>1. new \in [1 .. Len(list) -> Config]
    BY <1>1, <1>2 DEF Activated, new
  <2> QED
    BY <1>1, <2>1, IsASeq
<1>4. ReadOnce(list) => ReadOnce(new)
  BY <1>1, <1>2 DEF ReadOnce
<1> QED
  BY <1>1, <1>2, <1>3, <1>4 DEF new

\* After upsert the first active configuration is the new one, or was the first
\* before.
LEMMA UpsertedFacts ==
  ASSUME NEW list \in Seq(Config), NEW c \in Config
  PROVE  /\ Upserted(list, c) \in Seq(Config)
         /\ ReadOnce(list) /\ Layers(c) <= rotations => ReadOnce(Upserted(list, c))
         /\ c.active => Offered(Upserted(list, c)) \subseteq Offered(list) \cup {Choice(c)}
<1> DEFINE new == Upserted(list, c)
<1>1. DOMAIN list = 1 .. Len(list) /\ Len(list) \in Nat /\ \A i \in DOMAIN list : list[i] \in Config
  OBVIOUS
<1>2. /\ new \in Seq(Config) /\ DOMAIN list \subseteq DOMAIN new
      /\ \A i \in DOMAIN new :
           /\ i \in Nat
           /\ new[i] # c => i \in DOMAIN list /\ new[i] = list[i]
      /\ \A i \in DOMAIN list : new[i] = list[i] \/ new[i] = c
  <2>1. CASE Named(list, c.provider) = {}
    BY <1>1, <2>1 DEF Upserted
  <2>2. CASE Named(list, c.provider) # {}
    <3> DEFINE put == [i \in DOMAIN list |-> IF i \in Named(list, c.provider) THEN c ELSE list[i]]
    <3>1. new = put
      BY <2>2 DEF Upserted
    <3>2. put \in [1 .. Len(list) -> Config]
      BY <1>1
    <3>3. put \in Seq(Config) /\ DOMAIN put = DOMAIN list
      BY <1>1, <3>2, IsASeq
    <3> QED
      BY <1>1, <3>1, <3>3
  <2> QED
    BY <2>1, <2>2
<1> HIDE DEF new
<1>3. ReadOnce(list) /\ Layers(c) <= rotations => ReadOnce(new)
  BY <1>2 DEF ReadOnce
<1>4. ASSUME c.active, NEW i \in DOMAIN new, IsFirst(new, i), new[i] # c
      PROVE  Choice(new[i]) \in Offered(list)
  <2>1. i \in DOMAIN list /\ new[i] = list[i] /\ list[i].active
    BY <1>2, <1>4 DEF IsFirst
  <2>2. ASSUME NEW j \in DOMAIN list, list[j].active PROVE i <= j
    <3>1. j \in DOMAIN new /\ new[j].active
      BY <1>2, <1>4, <2>2
    <3> QED
      BY <1>4, <3>1 DEF IsFirst
  <2>3. IsFirst(list, i)
    BY <2>1, <2>2 DEF IsFirst
  <2> QED
    BY <2>1, <2>3 DEF Offered, GetActive
<1>5. c.active => Offered(new) \subseteq Offered(list) \cup {Choice(c)}
  BY <1>4 DEF Offered, GetActive
<1> QED
  BY <1>2, <1>3, <1>5 DEF new

-----------------------------------------------------------------------------
LEMMA SettingsInit == Init => SInv
<1> SUFFICES ASSUME Init PROVE SInv
  OBVIOUS
<1>1. file.ok /\ file.list = <<>> /\ op.pc = "idle" /\ rotations = 0 /\ crypt \in CryptKey
  BY DEF Init, Idle
<1>2. /\ file \in [ok : BOOLEAN, list : Seq(Config)]
      /\ op \in [pc : {"idle", "open", "write"}, list : Seq(Config), activate : BOOLEAN,
                 provider : Provider \cup {NoModel}]
  BY DEF Init, Idle
<1>3. Offered(<<>>) = {} /\ StoredOnce(<<>>)
  BY DEF Offered, GetActive, StoredOnce
<1> QED
  BY <1>1, <1>2, <1>3 DEF SInv

\* A request that has swapped the clients leaves the file as it is and a list to
\* write.
LEMMA Requested ==
  ASSUME SInv, NEW list \in Seq(Config), NEW a \in BOOLEAN, NEW p \in Provider,
         Writes(list, a, p), UNCHANGED <<file, crypt, rotations>>, chosen \subseteq chosen',
         ReadOnce(list), a => Offered(list) \subseteq chosen',
         ~a => \A i \in DOMAIN list : list[i].active => list[i].provider = p
  PROVE  SInv'
<1>1. /\ op'.pc = "open" /\ op'.list = list /\ op'.activate = a /\ op'.provider = p
      /\ op' \in [pc : {"idle", "open", "write"}, list : Seq(Config), activate : BOOLEAN,
                  provider : Provider \cup {NoModel}]
  BY DEF Writes
<1> QED
  BY <1>1 DEF SInv, StoredOnce, ReadOnce

LEMMA ConfigureKeeps ==
  ASSUME SInv, NEW p \in Provider, NEW m \in Model, Configure(p, m) PROVE SInv'
<1> DEFINE c == [provider |-> p, model |-> m, wraps |-> <<>>, active |-> TRUE]
           list == LoadAll(file, crypt)
<1>1. c \in Config /\ c.active /\ Layers(c) = 0
  BY DEF Config, Layers
<1>2. /\ Writes(Upserted(list, c), TRUE, p) /\ chosen' = chosen \cup {Choice(c)}
      /\ UNCHANGED <<file, crypt, rotations>>
  BY DEF Configure
<1> HIDE DEF c, list
<1>3. /\ list \in Seq(Config) /\ ReadOnce(list)
      /\ ~file.ok => list = <<>>
      /\ file.ok => Offered(list) = Offered(file.list)
  BY LoadedFacts DEF SInv, list
<1>4. Offered(list) \subseteq chosen
  <2>1. CASE file.ok
    BY <1>3, <2>1 DEF SInv
  <2>2. CASE ~file.ok
    BY <1>3, <2>2 DEF Offered, GetActive
  <2> QED
    BY <2>1, <2>2
<1>5. /\ Upserted(list, c) \in Seq(Config) /\ ReadOnce(Upserted(list, c))
      /\ Offered(Upserted(list, c)) \subseteq chosen'
  BY <1>1, <1>2, <1>3, <1>4, UpsertedFacts DEF SInv
<1> QED
  BY <1>2, <1>5, Requested

LEMMA SavedKeeps ==
  ASSUME SInv, NEW p \in Provider, SwitchToSaved(p) PROVE SInv'
<1> DEFINE list == LoadAll(file, crypt)
<1>1. /\ Writes(Activated(list, p), FALSE, p) /\ chosen \subseteq chosen'
      /\ UNCHANGED <<file, crypt, rotations>>
  BY DEF SwitchToSaved
<1>2. list \in Seq(Config) /\ ReadOnce(list)
  BY LoadedFacts DEF SInv
<1> HIDE DEF list
<1> QED
  BY <1>1, <1>2, ActivatedFacts, Requested

\* What is written has one layer more than what was read, and it is the present
\* key's.
Written == [i \in DOMAIN op.list |-> Encrypted(op.list[i])]

LEMMA WrittenFacts ==
  ASSUME SInv, op.pc = "write"
  PROVE  /\ Written \in Seq(Config) /\ StoredOnce(Written)
         /\ DOMAIN Written = DOMAIN op.list
         /\ \A i \in DOMAIN Written : /\ Written[i].active = op.list[i].active
                                      /\ Written[i].provider = op.list[i].provider
         /\ Offered(Written) = Offered(op.list)
<1> DEFINE was  == op.list
           list == Written
<1>1. /\ was \in Seq(Config) /\ crypt \in CryptKey /\ rotations \in Nat
      /\ \A i \in DOMAIN was : Layers(was[i]) <= rotations
  BY DEF SInv, ReadOnce
<1>2. DOMAIN was = 1 .. Len(was) /\ Len(was) \in Nat /\ DOMAIN list = DOMAIN was
  BY <1>1 DEF Written
<1>3. \A i \in DOMAIN was : was[i] \in Config /\ list[i] = Encrypted(was[i])
  BY <1>1 DEF Written
<1>4. \A i \in DOMAIN was :
        /\ list[i] \in Config /\ list[i].provider = was[i].provider
        /\ list[i].model = was[i].model /\ list[i].active = was[i].active
        /\ Layers(list[i]) = Layers(was[i]) + 1 /\ Layers(was[i]) \in Nat
        /\ Last(list[i].wraps) = crypt
  BY <1>1, <1>3, EncryptedFacts DEF Layers, Config
<1>5. list \in Seq(Config)
  <2>1. list \in [1 .. Len(was) -> Config]
    BY <1>2, <1>4 DEF Written
  <2> QED
    BY <1>2, <2>1, IsASeq
<1>6. StoredOnce(list)
  BY <1>1, <1>2, <1>4 DEF StoredOnce
<1>7. Offered(list) = Offered(was)
  BY <1>2, <1>4, SameOffered
<1> QED
  BY <1>2, <1>4, <1>5, <1>6, <1>7

LEMMA WriteKeeps ==
  ASSUME SInv, Write PROVE SInv'
<1> DEFINE list == Written
           p == op.provider
           read == LoadAll(file', crypt)
<1>1. /\ op.pc = "write" /\ file' = [ok |-> TRUE, list |-> list]
      /\ UNCHANGED <<crypt, rotations>>
  BY DEF Write, Written
<1>2. /\ list \in Seq(Config) /\ StoredOnce(list)
      /\ DOMAIN list = DOMAIN op.list
      /\ \A i \in DOMAIN list : /\ list[i].active = op.list[i].active
                                /\ list[i].provider = op.list[i].provider
      /\ Offered(list) = Offered(op.list)
  BY <1>1, WrittenFacts
<1>3. /\ file'.ok /\ file'.list = list /\ file' \in [ok : BOOLEAN, list : Seq(Config)]
      /\ StoredOnce(file.list)'
  BY <1>1, <1>2 DEF StoredOnce
<1>4. CASE op.activate
  <2>1. Writes(Activated(read, p), FALSE, p) /\ UNCHANGED chosen
    BY <1>4 DEF Write
  <2>2. Offered(list) \subseteq chosen
    BY <1>1, <1>2, <1>4 DEF SInv
  <2>3. read \in Seq(Config) /\ ReadOnce(read)
    BY <1>2, <1>3, LoadedFacts DEF SInv
  <2> HIDE DEF read
  <2>4. /\ Activated(read, p) \in Seq(Config) /\ ReadOnce(Activated(read, p))
        /\ \A i \in DOMAIN Activated(read, p) :
             Activated(read, p)[i].active => Activated(read, p)[i].provider = p
    BY <2>3, ActivatedFacts
  <2>5. /\ op'.list = Activated(read, p) /\ op'.activate = FALSE /\ op'.provider = p
        /\ op' \in [pc : {"idle", "open", "write"}, list : Seq(Config), activate : BOOLEAN,
                    provider : Provider \cup {NoModel}]
    BY <2>1, <2>4 DEF Writes, SInv
  <2>6. ReadOnce(op.list)'
    BY <1>1, <2>4, <2>5 DEF ReadOnce
  <2> QED
    BY <1>1, <1>2, <1>3, <2>1, <2>2, <2>4, <2>5, <2>6 DEF SInv
<1>5. CASE ~op.activate
  <2>1. op' = Idle /\ chosen' = {Choice(list[i]) : i \in Named(list, p)}
    BY <1>5 DEF Write, Written
  <2>2. \A i \in DOMAIN list : list[i].active => i \in Named(list, p)
    BY <1>1, <1>2, <1>5 DEF SInv, Named
  <2>3. Offered(list) \subseteq chosen'
    BY <2>1, <2>2 DEF Offered, GetActive, IsFirst
  <2>4. op'.pc = "idle" /\ op' \in [pc : {"idle", "open", "write"}, list : Seq(Config),
                                    activate : BOOLEAN, provider : Provider \cup {NoModel}]
    BY <2>1 DEF Idle
  <2> QED
    BY <1>1, <1>2, <1>3, <2>3, <2>4 DEF SInv
<1> QED
  BY <1>4, <1>5

LEMMA RestartKeeps ==
  ASSUME SInv, NEW k \in CryptKey, Restart(k) PROVE SInv'
<1>1. /\ crypt' = k /\ UNCHANGED file /\ op' = Idle
      /\ \/ k = crypt /\ rotations' = rotations
         \/ k # crypt /\ rotations' = rotations + 1
      /\ chosen' = Offered(LoadAll(file, k))
  BY DEF Restart, Offered
<1>2. op'.pc = "idle" /\ op' \in [pc : {"idle", "open", "write"}, list : Seq(Config),
                                  activate : BOOLEAN, provider : Provider \cup {NoModel}]
  BY <1>1 DEF Idle
<1>3. file.ok => Offered(file.list) \subseteq chosen'
  BY <1>1, LoadedFacts DEF SInv
<1>4. ASSUME file.ok PROVE StoredOnce(file.list)'
  <2> SUFFICES ASSUME NEW i \in DOMAIN file.list
               PROVE  /\ Layers(file.list[i]) \in 1 .. rotations' + 1
                      /\ Last(file.list[i].wraps) # k => Layers(file.list[i]) <= rotations'
    BY <1>1 DEF StoredOnce
  <2>1. /\ Layers(file.list[i]) \in 1 .. rotations + 1 /\ rotations \in Nat
        /\ Last(file.list[i].wraps) # crypt => Layers(file.list[i]) <= rotations
    BY <1>4 DEF SInv, StoredOnce
  <2> QED
    BY <1>1, <2>1
<1> QED
  BY <1>1, <1>2, <1>3, <1>4 DEF SInv

LEMMA SettingsNext == SInv /\ [Next]_vars => SInv'
<1> SUFFICES ASSUME SInv, [Next]_vars PROVE SInv'
  OBVIOUS
<1>1. CASE Switches \/ UNCHANGED vars
  <2>1. UNCHANGED <<file, op, crypt, rotations, chosen>>
    BY <1>1 DEF Switches, SwitchModel, SwitchProvider, vars
  <2> QED
    BY <2>1 DEF SInv, StoredOnce, ReadOnce
<1>2. CASE Open
  <2>1. /\ op.pc = "open" /\ op' = [op EXCEPT !.pc = "write"]
        /\ file' = [ok |-> FALSE, list |-> <<>>] /\ UNCHANGED <<crypt, rotations, chosen>>
    BY <1>2 DEF Open
  <2>2. /\ op'.list = op.list /\ op'.activate = op.activate /\ op'.provider = op.provider
        /\ op' \in [pc : {"idle", "open", "write"}, list : Seq(Config), activate : BOOLEAN,
                    provider : Provider \cup {NoModel}]
    BY <2>1 DEF SInv
  <2>3. file' \in [ok : BOOLEAN, list : Seq(Config)] /\ ~file'.ok
    BY <2>1
  <2> QED
    BY <2>1, <2>2, <2>3 DEF SInv, ReadOnce
<1>3. CASE SaveFails
  <2>1. op' = Idle /\ UNCHANGED <<file, crypt, rotations, chosen>>
    BY <1>3 DEF SaveFails
  <2>2. op'.pc = "idle" /\ op' \in [pc : {"idle", "open", "write"}, list : Seq(Config),
                                    activate : BOOLEAN, provider : Provider \cup {NoModel}]
    BY <2>1 DEF Idle
  <2> QED
    BY <2>1, <2>2 DEF SInv, StoredOnce
<1> QED
  BY <1>1, <1>2, <1>3, ConfigureKeeps, SavedKeeps, WriteKeeps, RestartKeeps
     DEF Next, Configures

\* Whatever fails or crashes between the swap of the clients and the writes that
\* record it, a restart puts into use what was chosen last or tried since.
THEOREM RestartKeepsChoice == Spec => []RestartUsesChoice
<1>1. SInv => RestartUsesChoice
  BY DEF SInv, RestartUsesChoice, Offered
<1> QED
  BY SettingsInit, SettingsNext, <1>1, PTL DEF Spec

\* However often the store is read and written back, under however many keys: a
\* stored key has one layer, and at most one more for each change of the key.
THEOREM LayersAreChanges == Spec => []KeysWrappedOnce
<1>1. SInv => KeysWrappedOnce
  BY DEF SInv, StoredOnce, KeysWrappedOnce, Layers
<1> QED
  BY SettingsInit, SettingsNext, <1>1, PTL DEF Spec
=============================================================================

---------------------------- MODULE ZkDataProofs ----------------------------
(***************************************************************************)
(* Optimistic updates with get, set, delete, getAcl and setAcl lose        *)
(* nothing, for any number of scripts, any values and any ACLs.            *)
(***************************************************************************)
EXTENDS ZkData, TLAPS

USE DEF Stat, Value, Node, Aclv

(* Transaction ids of the past.                                            *)
NodeIsPast == node # NULL => node.czxid <= zxid

(* A stat of the present incarnation of the node is not ahead of it; with  *)
(* the same version it describes the present write, and the value beside   *)
(* it is a beginning of the present one.                                   *)
StatIsPast ==
  \A p \in Scripts : stat[p] # NULL =>
    /\ stat[p].czxid <= zxid
    /\ node # NULL /\ node.czxid = stat[p].czxid =>
         /\ stat[p].version <= node.version
         /\ stat[p].version = node.version =>
              /\ stat[p].mzxid = node.mzxid
              /\ value[p] # NULL => value[p].len <= node.len

(* The same for what getAcl returned.                                      *)
AclIsPast ==
  \A p \in Scripts : acl_info[p] # NULL =>
    /\ acl_info[p].czxid <= zxid
    /\ node # NULL /\ node.czxid = acl_info[p].czxid =>
         /\ acl_info[p].aversion <= node.aversion
         /\ acl_info[p].aversion = node.aversion => acl_info[p].acl = node.acl

DataInv == TypeOK /\ ValueGoesWithStat /\ NodeIsPast /\ StatIsPast /\ AclIsPast

-----------------------------------------------------------------------------
(* What the conversions return *)

LEMMA StatType ==
  ASSUME NEW z \in Node
  PROVE  /\ php_stat_to_array(z) \in Stat
         /\ php_stat_to_array(z) # NULL
         /\ php_stat_to_array(z).czxid = z.czxid
         /\ php_stat_to_array(z).mzxid = z.mzxid
         /\ php_stat_to_array(z).version = z.version
         /\ php_stat_to_array(z).dataLength = (IF z.len = -1 THEN 0 ELSE z.len)
BY NullAssumption DEF php_stat_to_array

LEMMA AclvType ==
  ASSUME NEW acl \in Lists, php_parse_acl_list(acl) # {}
  PROVE  php_parse_acl_list(acl) \in Aclv
BY ListsAssumption DEF php_parse_acl_list

(* What zoo_set_acl and zoo_set2 make of a node, field by field.          *)
LEMMA SetAclNode ==
  ASSUME NEW z \in Node, NEW aclv \in Aclv
  PROVE  LET y == [z EXCEPT !.aversion = @ + 1, !.acl = aclv]
         IN  /\ y \in Node
             /\ y.czxid = z.czxid /\ y.mzxid = z.mzxid /\ y.version = z.version
             /\ y.len = z.len /\ y.aversion = z.aversion + 1
<1> DEFINE x == [z EXCEPT !.aversion = @ + 1]
           y == [x EXCEPT !.acl = aclv]
<1>1. /\ x \in Node /\ x.czxid = z.czxid /\ x.mzxid = z.mzxid /\ x.version = z.version
      /\ x.len = z.len /\ x.aversion = z.aversion + 1
  OBVIOUS
<1>2. [z EXCEPT !.aversion = @ + 1, !.acl = aclv] = y
  OBVIOUS
<1> HIDE DEF x
<1>3. /\ y \in Node /\ y.czxid = x.czxid /\ y.mzxid = x.mzxid /\ y.version = x.version
      /\ y.len = x.len /\ y.aversion = x.aversion
  BY <1>1
<1> QED  BY <1>1, <1>2, <1>3

LEMMA SetNode ==
  ASSUME NEW z \in Node, NEW n \in Nat, NEW len \in Nat \cup {-1}
  PROVE  LET y == [z EXCEPT !.mzxid = n, !.version = @ + 1, !.len = len]
         IN  /\ y \in Node
             /\ y.czxid = z.czxid /\ y.mzxid = n /\ y.version = z.version + 1
             /\ y.len = len /\ y.aversion = z.aversion /\ y.acl = z.acl
<1> DEFINE w == [z EXCEPT !.mzxid = n]
           x == [w EXCEPT !.version = @ + 1]
           y == [x EXCEPT !.len = len]
<1>1. /\ w \in Node /\ w.czxid = z.czxid /\ w.mzxid = n /\ w.version = z.version
      /\ w.aversion = z.aversion /\ w.acl = z.acl
  OBVIOUS
<1>2. [z EXCEPT !.mzxid = n, !.version = @ + 1, !.len = len] = y
  OBVIOUS
<1> HIDE DEF w
<1>3. /\ x \in Node /\ x.czxid = w.czxid /\ x.mzxid = w.mzxid /\ x.version = w.version + 1
      /\ x.aversion = w.aversion /\ x.acl = w.acl
  BY <1>1
<1> HIDE DEF x
<1>4. /\ y \in Node /\ y.czxid = x.czxid /\ y.mzxid = x.mzxid /\ y.version = x.version
      /\ y.len = len /\ y.aversion = x.aversion /\ y.acl = x.acl
  BY <1>3
<1> HIDE DEF y
<1> QED  BY <1>1, <1>2, <1>3, <1>4

LEMMA DataInit == Init => DataInv
BY DEF Init, DataInv, TypeOK, ValueGoesWithStat, NodeIsPast, StatIsPast, AclIsPast

-----------------------------------------------------------------------------
(* Writes of the service, by whichever script *)

LEMMA CreateKeeps ==
  ASSUME DataInv, NEW p \in Scripts, NEW len \in Lengths, NEW acl \in Lists, create(p, len, acl)
  PROVE  DataInv'
<1> DEFINE aclv == php_parse_acl_list(acl)
           z    == [czxid |-> zxid + 1, mzxid |-> zxid + 1, version |-> 0, len |-> len,
                    aversion |-> 0, acl |-> aclv]
<1>1. node' = z /\ zxid' = zxid + 1 /\ aclv # {} /\ UNCHANGED <<buffer, value, stat, acl_info>>
  BY DEF create, zoo_create, Write, script
<1>2. aclv \in Aclv /\ len \in Nat \cup {-1}
  BY <1>1, AclvType, BoundsAssumption
<1> HIDE DEF aclv
<1>3. TypeOK'
  BY <1>1, <1>2 DEF DataInv, TypeOK
<1>4. NodeIsPast' /\ StatIsPast' /\ AclIsPast'
  BY <1>1 DEF DataInv, TypeOK, NodeIsPast, StatIsPast, AclIsPast
<1>5. ValueGoesWithStat'
  BY <1>1 DEF DataInv, ValueGoesWithStat
<1> QED  BY <1>3, <1>4, <1>5 DEF DataInv

LEMMA DeleteKeeps ==
  ASSUME DataInv, NEW p \in Scripts, NEW version, delete(p, version)
  PROVE  DataInv'
<1>1. node' = NULL /\ zxid' = zxid + 1 /\ UNCHANGED <<buffer, value, stat, acl_info>>
  BY DEF delete, zoo_delete, Write, script
<1> QED
  BY <1>1 DEF DataInv, TypeOK, ValueGoesWithStat, NodeIsPast, StatIsPast, AclIsPast

LEMMA SetAclKeeps ==
  ASSUME DataInv, NEW p \in Scripts, NEW version, NEW acl \in Lists, setAcl(p, version, acl)
  PROVE  DataInv'
<1>1. PICK aclv \in Aclv : zoo_set_acl(version, aclv)
  <2>1. CASE zoo_set_acl(version, php_parse_acl_list(acl))
    BY <2>1, AclvType DEF zoo_set_acl
  <2> QED  BY <2>1 DEF setAcl, SendAcl
<1>2. /\ node # NULL /\ node \in Node
      /\ node' = [node EXCEPT !.aversion = @ + 1, !.acl = aclv]
      /\ zxid' = zxid + 1 /\ UNCHANGED <<buffer, value, stat, acl_info>>
  BY <1>1 DEF zoo_set_acl, Write, setAcl, script, DataInv, TypeOK
<1>3. /\ node' \in Node /\ node'.czxid = node.czxid /\ node'.mzxid = node.mzxid
      /\ node'.version = node.version /\ node'.len = node.len
      /\ node'.aversion = node.aversion + 1
  BY <1>2, SetAclNode
<1>4. TypeOK'
  BY <1>2, <1>3 DEF DataInv, TypeOK
<1>5. NodeIsPast' /\ StatIsPast'
  BY <1>2, <1>3 DEF DataInv, TypeOK, NodeIsPast, StatIsPast
<1>6. AclIsPast'
  BY <1>2, <1>3 DEF DataInv, TypeOK, AclIsPast
<1>7. ValueGoesWithStat'
  BY <1>2 DEF DataInv, ValueGoesWithStat
<1> QED  BY <1>4, <1>5, <1>6, <1>7 DEF DataInv

LEMMA SetKeeps ==
  ASSUME DataInv, NEW p \in Scripts, NEW len \in Lengths, NEW version, set(p, len, version)
  PROVE  DataInv'
<1>1. /\ node # NULL /\ node \in Node
      /\ node' = [node EXCEPT !.mzxid = zxid + 1, !.version = @ + 1, !.len = len]
      /\ zxid' = zxid + 1 /\ zxid \in Nat /\ UNCHANGED <<buffer, acl_info>>
  BY DEF set, zoo_set2, Write, SetReturns, script, DataInv, TypeOK
<1>2. len \in Nat \cup {-1}
  BY BoundsAssumption
<1>3. /\ node' \in Node /\ node'.czxid = node.czxid /\ node'.mzxid = zxid + 1
      /\ node'.version = node.version + 1 /\ node'.len = len
      /\ node'.aversion = node.aversion /\ node'.acl = node.acl
  <2>1. zxid + 1 \in Nat
    BY <1>1
  <2> QED  BY <1>1, <1>2, <2>1, SetNode
<1> HIDE DEF Node
<1>4. NodeIsPast' /\ AclIsPast'
  BY <1>1, <1>3 DEF DataInv, TypeOK, NodeIsPast, AclIsPast, Node
<1>5. CASE UNCHANGED script
  <2>1. TypeOK' /\ ValueGoesWithStat'
    BY <1>1, <1>3, <1>5 DEF DataInv, TypeOK, ValueGoesWithStat, script
  <2>2. StatIsPast'
    BY <1>1, <1>3, <1>5 DEF DataInv, TypeOK, StatIsPast, script, Node
  <2> QED  BY <1>4, <2>1, <2>2 DEF DataInv
<1>6. CASE ~ UNCHANGED script
  <2>1. /\ stat' = [stat EXCEPT ![p] = php_stat_to_array(node')]
        /\ value' = [value EXCEPT ![p] = IF len = -1 THEN NULL
                                         ELSE [mzxid |-> node'.mzxid, len |-> len]]
    BY <1>6 DEF set, SetReturns
  <2>2. /\ php_stat_to_array(node') \in Stat /\ php_stat_to_array(node') # NULL
        /\ php_stat_to_array(node').czxid = node'.czxid
        /\ php_stat_to_array(node').mzxid = node'.mzxid
        /\ php_stat_to_array(node').version = node'.version
        /\ php_stat_to_array(node').dataLength = (IF len = -1 THEN 0 ELSE len)
    BY <1>3, StatType
  <2>3. TypeOK'
    BY <1>1, <1>2, <1>3, <2>1, <2>2 DEF DataInv, TypeOK
  <2>4. ValueGoesWithStat'
    BY <1>1, <1>2, <1>3, <2>1, <2>2 DEF DataInv, TypeOK, ValueGoesWithStat
  <2>5. StatIsPast'
    BY <1>1, <1>2, <1>3, <2>1, <2>2 DEF DataInv, TypeOK, StatIsPast, NodeIsPast, Node
  <2> QED  BY <1>4, <2>3, <2>4, <2>5 DEF DataInv
<1> QED  BY <1>5, <1>6

-----------------------------------------------------------------------------
(* Reads *)

LEMMA GetNullKeeps ==
  ASSUME DataInv, NEW p \in Scripts, GetNull(p), UNCHANGED <<zxid, node>>
  PROVE  DataInv'
BY DEF GetNull, DataInv, TypeOK, ValueGoesWithStat, NodeIsPast, StatIsPast, AclIsPast

LEMMA GetExistsKeeps ==
  ASSUME DataInv, NEW p \in Scripts, GetExists(p)
  PROVE  DataInv'
<1>1. CASE GetNull(p)
  BY <1>1, GetNullKeeps DEF GetExists
<1>2. CASE ~ GetNull(p)
  <2>1. /\ node # NULL /\ node.len > 0 /\ buffer' = [buffer EXCEPT ![p] = node.len]
        /\ UNCHANGED <<zxid, node, value, stat, acl_info>>
    BY <1>2 DEF GetExists, script
  <2> QED
    BY <2>1 DEF DataInv, TypeOK, ValueGoesWithStat, NodeIsPast, StatIsPast, AclIsPast
<1> QED  BY <1>1, <1>2

LEMMA GetDataKeeps ==
  ASSUME DataInv, NEW p \in Scripts, GetData(p)
  PROVE  DataInv'
<1>1. CASE GetNull(p)
  BY <1>1, GetNullKeeps DEF GetData
<1>2. CASE ~ GetNull(p)
  <2>1. /\ node # NULL /\ node \in Node /\ buffer[p] \in Nat /\ buffer[p] > 0
        /\ stat' = [stat EXCEPT ![p] = php_stat_to_array(node)]
        /\ value' = [value EXCEPT ![p] = IF node.len = -1 THEN NULL ELSE Received(p)]
        /\ buffer' = [buffer EXCEPT ![p] = 0]
        /\ UNCHANGED <<zxid, node, acl_info>>
    BY <1>2 DEF GetData, DataInv, TypeOK
  <2>2. /\ php_stat_to_array(node) \in Stat /\ php_stat_to_array(node) # NULL
        /\ php_stat_to_array(node).czxid = node.czxid
        /\ php_stat_to_array(node).mzxid = node.mzxid
        /\ php_stat_to_array(node).version = node.version
        /\ php_stat_to_array(node).dataLength = (IF node.len = -1 THEN 0 ELSE node.len)
    BY <2>1, StatType
  <2>3. node.len # -1 =>
          /\ Received(p) \in Value
          /\ Received(p).mzxid = node.mzxid /\ Received(p).len <= node.len
    BY <2>1 DEF Received, Cut
  <2>4. TypeOK'
    BY <2>1, <2>2, <2>3 DEF DataInv, TypeOK
  <2>5. ValueGoesWithStat'
    BY <2>1, <2>2, <2>3 DEF DataInv, TypeOK, ValueGoesWithStat
  <2>6. NodeIsPast' /\ AclIsPast'
    BY <2>1 DEF DataInv, NodeIsPast, AclIsPast
  <2>7. StatIsPast'
    BY <2>1, <2>2, <2>3 DEF DataInv, TypeOK, StatIsPast, NodeIsPast
  <2> QED  BY <2>4, <2>5, <2>6, <2>7 DEF DataInv
<1> QED  BY <1>1, <1>2

LEMMA GetAclKeeps ==
  ASSUME DataInv, NEW p \in Scripts, getAcl(p)
  PROVE  DataInv'
<1> DEFINE a == [czxid |-> node.czxid, aversion |-> node.aversion,
                 acl |-> php_aclv_to_array(node)]
<1>1. /\ node # NULL /\ node \in Node
      /\ acl_info' = [acl_info EXCEPT ![p] = a]
      /\ UNCHANGED <<zxid, node, buffer, value, stat>>
  BY DEF getAcl, DataInv, TypeOK
<1>2. /\ a \in [czxid : Nat, aversion : Nat, acl : Aclv]
      /\ a.czxid = node.czxid /\ a.aversion = node.aversion /\ a.acl = node.acl
  <2>1. php_aclv_to_array(node) = node.acl
    BY <1>1 DEF php_aclv_to_array
  <2> QED  BY <1>1, <2>1
<1> HIDE DEF a
<1>3. TypeOK'
  BY <1>1, <1>2 DEF DataInv, TypeOK
<1>4. ValueGoesWithStat' /\ NodeIsPast' /\ StatIsPast'
  BY <1>1 DEF DataInv, ValueGoesWithStat, NodeIsPast, StatIsPast
<1>5. AclIsPast'
  BY <1>1, <1>2 DEF DataInv, TypeOK, NodeIsPast, AclIsPast
<1> QED  BY <1>3, <1>4, <1>5 DEF DataInv

-----------------------------------------------------------------------------

LEMMA DataNext ==
  ASSUME DataInv, [Next]_vars
  PROVE  DataInv'
<1>1. CASE UNCHANGED vars
  BY <1>1 DEF vars, script, DataInv, TypeOK, ValueGoesWithStat, NodeIsPast, StatIsPast, AclIsPast
<1>2. ASSUME NEW p \in Scripts, NEW max_size \in Lengths \ {-1, 0}, GetMaxSize(p, max_size)
      PROVE  DataInv'
  BY <1>2, BoundsAssumption
     DEF GetMaxSize, script, DataInv, TypeOK, ValueGoesWithStat, NodeIsPast, StatIsPast, AclIsPast
<1>3. ASSUME NEW p \in Scripts, Restart(p)
      PROVE  DataInv'
  BY <1>3 DEF Restart, DataInv, TypeOK, ValueGoesWithStat, NodeIsPast, StatIsPast, AclIsPast
<1>4. CASE Next
  BY <1>2, <1>3, <1>4, CreateKeeps, DeleteKeeps, SetKeeps, SetAclKeeps,
     GetExistsKeeps, GetDataKeeps, GetAclKeeps DEF Next
<1> QED  BY <1>1, <1>4

(***************************************************************************)
(* The inductive invariant: nothing a script holds is ahead of the node.   *)
(***************************************************************************)
THEOREM DataInvariant == Spec => []DataInv
BY DataInit, DataNext, PTL DEF Spec

(***************************************************************************)
(* The variables have their types: no znode ever gets an empty ACL or an   *)
(* entry that php_parse_acl_list passed over.                              *)
(***************************************************************************)
THEOREM DataTypes == Spec => []TypeOK
<1>1. DataInv => TypeOK
  BY DEF DataInv
<1> QED  BY <1>1, DataInvariant, PTL

(***************************************************************************)
(* The value and the stat that get and set leave behind belong together.   *)
(***************************************************************************)
THEOREM ValueAndStat == Spec => []ValueGoesWithStat
<1>1. DataInv => ValueGoesWithStat
  BY DEF DataInv
<1> QED  BY <1>1, DataInvariant, PTL

(***************************************************************************)
(* A set or delete with the version of a stat replaces the write that the  *)
(* stat describes, for any number of scripts.                              *)
(***************************************************************************)
THEOREM UpdatesAreSafe == Spec => NoLostUpdate
<1> DEFINE Safe(p) ==
      stat[p] # NULL /\ node # NULL /\ node.czxid = stat[p].czxid
      /\ (delete(p, stat[p].version) \/ \E len \in Lengths : set(p, len, stat[p].version))
        => node.mzxid = stat[p].mzxid /\ (value[p] # NULL => value[p].len <= node.len)
<1>1. ASSUME DataInv, NEW p \in Scripts
      PROVE  Safe(p)
  <2> SUFFICES ASSUME stat[p] # NULL, node # NULL, node.czxid = stat[p].czxid,
                      delete(p, stat[p].version)
                        \/ \E len \in Lengths : set(p, len, stat[p].version)
               PROVE  node.mzxid = stat[p].mzxid /\ (value[p] # NULL => value[p].len <= node.len)
    OBVIOUS
  <2>1. Accepts(stat[p].version, node.version)
    BY DEF delete, set, zoo_delete, zoo_set2
  <2>2. stat[p].version \in Nat
    BY <1>1 DEF DataInv, TypeOK
  <2>3. stat[p].version = node.version
    BY <2>1, <2>2 DEF Accepts
  <2> QED  BY <1>1, <2>3 DEF DataInv, StatIsPast
<1>2. DataInv => [zxid' # zxid => \A p \in Scripts : Safe(p)]_vars
  BY <1>1
<1> QED  BY <1>2, DataInvariant, PTL DEF NoLostUpdate

(***************************************************************************)
(* A setAcl with the aversion of getAcl replaces the ACL that getAcl       *)
(* returned, for any number of scripts.                                    *)
(***************************************************************************)
THEOREM AclsAreSafe == Spec => NoLostAcl
<1> DEFINE Safe(p) ==
      acl_info[p] # NULL /\ node # NULL /\ node.czxid = acl_info[p].czxid
      /\ (\E acl \in Lists : setAcl(p, acl_info[p].aversion, acl))
        => node.acl = acl_info[p].acl
<1>1. ASSUME DataInv, NEW p \in Scripts
      PROVE  Safe(p)
  <2> SUFFICES ASSUME acl_info[p] # NULL, node # NULL, node.czxid = acl_info[p].czxid,
                      \E acl \in Lists : setAcl(p, acl_info[p].aversion, acl)
               PROVE  node.acl = acl_info[p].acl
    OBVIOUS
  <2>1. Accepts(acl_info[p].aversion, node.aversion)
    BY DEF setAcl, SendAcl, zoo_set_acl
  <2>2. acl_info[p].aversion \in Nat
    BY <1>1 DEF DataInv, TypeOK
  <2>3. acl_info[p].aversion = node.aversion
    BY <2>1, <2>2 DEF Accepts
  <2> QED  BY <1>1, <2>3 DEF DataInv, AclIsPast
<1>2. DataInv => [zxid' # zxid => \A p \in Scripts : Safe(p)]_vars
  BY <1>1
<1> QED  BY <1>2, DataInvariant, PTL DEF NoLostAcl
=============================================================================

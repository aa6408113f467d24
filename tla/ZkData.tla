------------------------------- MODULE ZkData -------------------------------
(***************************************************************************)
(* The data methods of class Zookeeper in php_zookeeper.c: create, delete, *)
(* get, set, getAcl and setAcl, called by several PHP processes on one     *)
(* znode (znodes do not touch each other).                                 *)
(*                                                                         *)
(* Every zoo_* call is a step; get makes two of them.  A call that was     *)
(* refused, or lost on its way to the service, ends its method with a      *)
(* warning: it changes nothing and is not a step, save in get.  A call     *)
(* whose answer was lost has taken effect and ends with the same warning.  *)
(* A method of an object that is not connected returns at once.            *)
(*                                                                         *)
(* The data of a write is told apart by its mzxid; -1 is the length of the *)
(* value NULL.  What an ACL grants is left to the service, which may refuse*)
(* any call.                                                               *)
(***************************************************************************)
EXTENDS Integers

CONSTANTS
  Scripts,   \* PHP processes with a connected object
  Acls,      \* entries of an ACL: perms, scheme and id
  BAD,       \* an element of a PHP list that is no array or lacks a key
  Lengths,   \* bound: the lengths of the values written, -1 for NULL
  Lists,     \* bound: the PHP lists passed as ACL, as sets of Acls and BAD
  MaxZxid,   \* bound: writes in the life of the service
  NULL

ASSUME BoundsAssumption == Lengths \subseteq Nat \cup {-1} /\ MaxZxid \in Nat
ASSUME ListsAssumption  == BAD \notin Acls /\ Lists \subseteq SUBSET (Acls \cup {BAD})
ASSUME NullAssumption   == NULL \notin [czxid : Nat, mzxid : Nat, version : Nat, dataLength : Nat]
                           /\ NULL \notin [mzxid : Nat, len : Nat]

VARIABLES
  zxid,      \* service: writes so far
  node,      \* service: the znode, or NULL
  buffer,    \* the size of the buffer of a get between its calls, or 0
  value,     \* what the script holds for the content of the node, with its stat
  stat,      \* the script's variable passed to get and set as stat_info
  acl_info   \* what getAcl last returned

script == <<value, stat, acl_info>>
vars   == <<zxid, node, buffer, script>>

Stat  == [czxid : Nat, mzxid : Nat, version : Nat, dataLength : Nat]
Value == [mzxid : Nat, len : Nat]
Aclv  == (SUBSET Acls) \ {{}}
Node  == [czxid : Nat, mzxid : Nat, version : Nat, len : Nat \cup {-1},
          aversion : Nat, acl : Aclv]

(* The values of the variables.  The ACL of a znode is never empty, and has *)
(* no entry that php_parse_acl_list passed over.                            *)
TypeOK ==
  /\ zxid \in Nat
  /\ node \in Node \cup {NULL}
  /\ buffer \in [Scripts -> Nat]
  /\ value \in [Scripts -> Value \cup {NULL}]
  /\ stat \in [Scripts -> Stat \cup {NULL}]
  /\ acl_info \in [Scripts -> [czxid : Nat, aversion : Nat, acl : Aclv] \cup {NULL}]

-----------------------------------------------------------------------------
(* Conversions *)

(* What is left of a value of length len in a buffer of n bytes.           *)
Cut(len, n) == IF len > n THEN n ELSE len

php_stat_to_array(z) ==
  [czxid |-> z.czxid, mzxid |-> z.mzxid, version |-> z.version,
   dataLength |-> IF z.len = -1 THEN 0 ELSE z.len]

(* An array with perms, scheme and id for each of the count entries.       *)
php_aclv_to_array(z) == {entry \in Acls : entry \in z.acl}

(* Mutant of php_parse_acl_list: aclv->count is the size of the list.      *)
ParseCountsAll(z_acl) == z_acl

(* The elements that are arrays with all three keys.                       *)
php_parse_acl_list(z_acl) == z_acl \ {BAD}

-----------------------------------------------------------------------------
(* The service *)

Accepts(version, current) == version \in {-1, current}

(* A write of the node takes the next transaction id.                      *)
Write(z) ==
  /\ zxid < MaxZxid
  /\ zxid' = zxid + 1
  /\ node' = z

zoo_create(len, aclv) ==
  /\ node = NULL /\ aclv # {}
  /\ Write([czxid |-> zxid + 1, mzxid |-> zxid + 1, version |-> 0, len |-> len,
            aversion |-> 0, acl |-> aclv])

zoo_set2(len, version) ==
  /\ node # NULL /\ Accepts(version, node.version)
  /\ Write([node EXCEPT !.mzxid = zxid + 1, !.version = @ + 1, !.len = len])

zoo_set_acl(version, aclv) ==
  /\ node # NULL /\ Accepts(version, node.aversion) /\ aclv # {}
  /\ Write([node EXCEPT !.aversion = @ + 1, !.acl = aclv])

zoo_delete(version) ==
  /\ node # NULL /\ Accepts(version, node.version)
  /\ Write(NULL)

-----------------------------------------------------------------------------
(* The methods *)

(* The script is not inside a get.                                         *)
InScript(p) == buffer[p] = 0

(* value NULL is sent with length -1; the path that was created is returned.*)
create(p, len, acl) ==
  /\ InScript(p)
  /\ zoo_create(len, php_parse_acl_list(acl))
  /\ UNCHANGED <<buffer, script>>

delete(p, version) ==
  /\ InScript(p)
  /\ zoo_delete(version)
  /\ UNCHANGED <<buffer, script>>

(* The script has what it wrote and, when it asked for it, the stat of the  *)
(* answer: without the answer or the argument, stat_info stays as it was.   *)
SetReturns(p, len) ==
  \/ UNCHANGED script
  \/ /\ stat' = [stat EXCEPT ![p] = php_stat_to_array(node')]
     /\ value' = [value EXCEPT ![p] = IF len = -1 THEN NULL
                                      ELSE [mzxid |-> node'.mzxid, len |-> len]]
     /\ UNCHANGED acl_info

(* Mutant of set: the version is parsed and not passed on.                  *)
SetAnyVersion(p, len, version) ==
  InScript(p) /\ zoo_set2(len, -1) /\ SetReturns(p, len) /\ UNCHANGED buffer

set(p, len, version) ==
  InScript(p) /\ zoo_set2(len, version) /\ SetReturns(p, len) /\ UNCHANGED buffer

(* get returned NULL, or FALSE: the script has no value, and the stat_info  *)
(* of an earlier call is still in its variable.                             *)
GetNull(p) ==
  /\ value' = [value EXCEPT ![p] = NULL]
  /\ buffer' = [buffer EXCEPT ![p] = 0]
  /\ UNCHANGED <<stat, acl_info>>

(* The first call of get, without a max_size, sizes the buffer.  An error   *)
(* and a znode that carries NULL, or nothing, end the method: stat_info is  *)
(* not touched.                                                             *)
GetExists(p) ==
  /\ InScript(p)
  /\ \/ GetNull(p)
     \/ /\ node # NULL /\ node.len > 0
        /\ buffer' = [buffer EXCEPT ![p] = node.len]
        /\ UNCHANGED script
  /\ UNCHANGED <<zxid, node>>

(* max_size makes the first call unnecessary.                               *)
GetMaxSize(p, max_size) ==
  /\ InScript(p)
  /\ buffer' = [buffer EXCEPT ![p] = max_size]
  /\ UNCHANGED <<zxid, node, script>>

(* Mutant of Received: the size of the buffer is returned as the length.    *)
WholeBuffer(p) == [mzxid |-> node.mzxid, len |-> buffer[p]]

(* What zoo_wget put into the buffer.                                       *)
Received(p) == [mzxid |-> node.mzxid, len |-> Cut(node.len, buffer[p])]

(* The second call.  A value that became NULL has length -1, and the        *)
(* terminator is written in front of the buffer: the process dies (see      *)
(* Restart) or is lucky.                                                    *)
GetData(p) ==
  /\ buffer[p] > 0
  /\ \/ GetNull(p)
     \/ /\ node # NULL
        /\ stat' = [stat EXCEPT ![p] = php_stat_to_array(node)]
        /\ value' = [value EXCEPT ![p] = IF node.len = -1 THEN NULL ELSE Received(p)]
        /\ buffer' = [buffer EXCEPT ![p] = 0]
        /\ UNCHANGED acl_info
  /\ UNCHANGED <<zxid, node>>

getAcl(p) ==
  /\ InScript(p) /\ node # NULL
  /\ acl_info' = [acl_info EXCEPT ![p] = [czxid |-> node.czxid, aversion |-> node.aversion,
                                          acl |-> php_aclv_to_array(node)]]
  /\ UNCHANGED <<zxid, node, buffer, value, stat>>

(* php_parse_acl_list leaves the vector of setAcl as it was for an empty    *)
(* list, uninitialised: what an earlier call left there may be sent, or the *)
(* service refuses it, or the process dies (see Restart).                   *)
SendAcl(version, acl) ==
  \/ acl # {} /\ zoo_set_acl(version, php_parse_acl_list(acl))
  \/ acl = {} /\ \E aclv \in Aclv : zoo_set_acl(version, aclv)

(* Mutant of setAcl: the version is parsed and not passed on.               *)
SetAclAnyVersion(p, version, acl) ==
  InScript(p) /\ SendAcl(-1, acl) /\ UNCHANGED <<buffer, script>>

setAcl(p, version, acl) ==
  InScript(p) /\ SendAcl(version, acl) /\ UNCHANGED <<buffer, script>>

(* The process ends, in the middle of a get or not, and another one comes.  *)
Restart(p) ==
  /\ <<buffer[p], value[p], stat[p], acl_info[p]>> # <<0, NULL, NULL, NULL>>
  /\ buffer'   = [buffer EXCEPT ![p] = 0]
  /\ value'    = [value EXCEPT ![p] = NULL]
  /\ stat'     = [stat EXCEPT ![p] = NULL]
  /\ acl_info' = [acl_info EXCEPT ![p] = NULL]
  /\ UNCHANGED <<zxid, node>>

-----------------------------------------------------------------------------

Init ==
  /\ zxid = 0 /\ node = NULL
  /\ buffer = [p \in Scripts |-> 0]
  /\ value = [p \in Scripts |-> NULL] /\ stat = [p \in Scripts |-> NULL]
  /\ acl_info = [p \in Scripts |-> NULL]

(* The versions a script passes: none, or the one of the stat it has.       *)
Versions(p)  == {-1} \cup (IF stat[p] = NULL THEN {} ELSE {stat[p].version})
Aversions(p) == {-1} \cup (IF acl_info[p] = NULL THEN {} ELSE {acl_info[p].aversion})

Next ==
  \E p \in Scripts :
    \/ \E acl \in Lists :
         \/ \E len \in Lengths : create(p, len, acl)
         \/ \E version \in Aversions(p) : setAcl(p, version, acl)
    \/ \E version \in Versions(p) :
         \/ delete(p, version)
         \/ \E len \in Lengths : set(p, len, version)
    \/ \E max_size \in Lengths \ {-1, 0} : GetMaxSize(p, max_size)
    \/ GetExists(p) \/ GetData(p) \/ getAcl(p) \/ Restart(p)

Spec == Init /\ [][Next]_vars

-----------------------------------------------------------------------------
(* What holds *)

(***************************************************************************)
(* What get and set leave in a script is one thing: the value comes from   *)
(* the write that the stat beside it describes and is no longer than it,   *)
(* although the buffer was sized by an earlier call and other scripts      *)
(* wrote, shrank, deleted or recreated the node in between.                *)
(***************************************************************************)
ValueGoesWithStat ==
  \A p \in Scripts :
    value[p] # NULL =>
      /\ stat[p] # NULL
      /\ value[p].mzxid = stat[p].mzxid
      /\ value[p].len <= stat[p].dataLength

(***************************************************************************)
(* A set or delete with the version of a stat replaces the very write that *)
(* the stat and the value beside it came from, or else another incarnation *)
(* of the node (whose version started over): no script overwrites a write  *)
(* of another one that it has not seen.                                    *)
(***************************************************************************)
NoLostUpdate ==
  [][zxid' # zxid => \A p \in Scripts :
       stat[p] # NULL /\ node # NULL /\ node.czxid = stat[p].czxid
       /\ (delete(p, stat[p].version) \/ \E len \in Lengths : set(p, len, stat[p].version))
         => node.mzxid = stat[p].mzxid /\ (value[p] # NULL => value[p].len <= node.len)]_vars

(***************************************************************************)
(* A setAcl with the aversion that getAcl returned replaces the ACL that   *)
(* getAcl returned, or that of another incarnation of the node.            *)
(***************************************************************************)
NoLostAcl ==
  [][zxid' # zxid => \A p \in Scripts :
       acl_info[p] # NULL /\ node # NULL /\ node.czxid = acl_info[p].czxid
       /\ (\E acl \in Lists : setAcl(p, acl_info[p].aversion, acl))
         => node.acl = acl_info[p].acl]_vars
=============================================================================

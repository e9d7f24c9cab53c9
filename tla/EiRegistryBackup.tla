--------------------------- MODULE EiRegistryBackup ---------------------------
(* A C node that keeps a registry and dumps it to, or restores it from, a    *)
(* table of Mnesia (reg_dump.c, reg_restore.c), with the process of          *)
(* mnesia_registry.erl that serves one dump or one restore.                  *)
(*                                                                           *)
(* A connection joins the two.  It keeps the order of messages in each       *)
(* direction and may break, which ends the process it links to the C node.   *)
(* The program makes one call at a time; when a dump or a restore fails it   *)
(* closes the connection and opens another.                                  *)
EXTENDS EiRegistry

CONSTANT MaxCalls   \* bound: calls of the program

VARIABLES
    call,       \* the call in progress
    net,        \* the connection and the messages on their way
    server,     \* the process of Mnesia and the operations it accumulates
    backup,     \* what the table of Mnesia has for each key
    calls,      \* calls made
    saved,      \* the objects when the last dump began (history)
    pointed     \* a pointer that is not the object's was restored (history)

bvars == <<regvars, call, net, server, backup, calls, saved, pointed>>

\* need: messages that must still come; todo: keys still to look at; want:
\* records still to come; short: memory ran out while a record was restored.
Idle(r) == [pc |-> "idle", ret |-> r, flags |-> {}, need |-> {}, todo |-> <<>>,
            want |-> 0, short |-> FALSE]

NoServer == [state |-> "none", ops |-> <<>>]
Connected == [up |-> TRUE, toM |-> <<>>, toC |-> <<>>]
Closed(n) == [n EXCEPT !.up = FALSE, !.toC = <<>>]

\* A record of the table: a pointer of size 0 is stored as it is.
Image(o) ==
    [type |-> o.type, size |-> o.size,
     val |-> IF o.type \in Pointer /\ o.size > 0 THEN heap[o.val] ELSE o.val]

ToM(m) == [net EXCEPT !.toM = IF net.up THEN Append(@, m) ELSE @]

-----------------------------------------------------------------------------
(* Calls that do not use the connection. *)

\* What may be missing when a value is set.
Missing == SUBSET (MayFail \cap {"object", "bucket"})

Begin == call.pc = "idle" /\ calls < MaxCalls /\ calls' = calls + 1

Setting ==
    /\ Begin
    /\ \/ \E memory \in Missing : \E k \in Key : \E type \in Type :
             \E b \in {j \in Block : heap[j] = NULL} \cup {NULL} :
                \E c \in Content : ei_reg_setval(k, type, b, c, memory)
       \/ \E k \in Key : ei_reg_delete(k)
       \/ \E n \in Sizes : ei_reg_close(n)
    /\ UNCHANGED <<call, net, server, backup, saved, pointed>>

Tidy ==
    /\ Begin
    /\ \/ \E memory \in SUBSET (MayFail \cap {"table"}) : \E n \in Sizes : ei_reg_resize(n, memory)
       \/ \E k \in Key : ei_reg_markdirty(k)
       \/ ei_reg_purge
    /\ UNCHANGED <<call, net, server, backup, saved, pointed>>

-----------------------------------------------------------------------------
(* Dumps and restores, seen from the C node. *)

\* Reading blocks until there is a message or the connection is gone.
CanRead == net.toC # <<>> \/ ~net.up
Read == IF net.toC = <<>> THEN [kind |-> "error"] ELSE Head(net.toC)
AfterRead == [net EXCEPT !.toC = IF @ = <<>> THEN @ ELSE Tail(@)]

\* A call that fails, having told the process of Mnesia (m) or not (<<>>).
Fails(m) ==
    /\ call' = Idle(-1)
    /\ net' = IF net.up THEN Closed([net EXCEPT !.toM = @ \o m]) ELSE Closed(net)

Start(rpc, flags) ==
    /\ Begin /\ server = NoServer /\ net = Connected
    /\ net' = ToM([kind |-> rpc])
    /\ call' = [Idle(0) EXCEPT !.pc = rpc, !.flags = flags,
                               !.need = {"LINK", "REPLY"}]
    /\ saved' = [k \in Key |-> IF obj[k] = NULL THEN NULL
                               ELSE [obj |-> obj[k], image |-> Image(obj[k])]]
    /\ UNCHANGED <<regvars, server, backup, pointed>>

ei_reg_dump == \E fl \in SUBSET {"FORCE", "NOPURGE"} : Start("start_dump", fl)
ei_reg_restore == Start("start_restore", {})

\* The link and the answer of the rpc come in any order; anything else, or
\* either of them twice, ends the call.  No exit is sent.
mn_start_dump ==
    /\ call.pc = "start_dump" /\ CanRead
    /\ LET need == call.need \ {Read.kind}
       IN  IF Read.kind \notin call.need THEN Fails(<<>>)
           ELSE /\ call' = IF need # {} THEN [call EXCEPT !.need = need]
                           ELSE [call EXCEPT !.need = {}, !.pc = "dump",
                                             !.todo = Traversal(tab)]
                /\ net' = AfterRead
    /\ UNCHANGED <<regvars, server, backup, calls, saved, pointed>>

Selected(o, flags) == "FORCE" \in flags \/ o.dirty

mn_send_write(k) == ToM([kind |-> "write", key |-> k, rec |-> Image(obj[k])])
mn_send_delete(k) == ToM([kind |-> "delete", key |-> k])

\* A long key, or a value, may not fit the buffer on the stack.
Large(k) == k \in LongKey \/ (~obj[k].delet /\ obj[k].size > 0)

\* One object of the traversal.  When there is no memory for its message, or
\* it cannot be sent, the dump is given up.
DumpObject ==
    /\ call.pc = "dump" /\ call.todo # <<>>
    /\ LET k == Head(call.todo)
           sent == Selected(obj[k], call.flags)
       IN  \/ sent /\ ~net.up /\ Fails(<<>>)
           \/ sent /\ Large(k) /\ "message" \in MayFail /\ Fails(<<[kind |-> "EXIT"]>>)
           \/ /\ ~sent \/ net.up
              /\ net' = IF ~sent THEN net
                        ELSE IF obj[k].delet THEN mn_send_delete(k)
                        ELSE mn_send_write(k)
              /\ call' = [call EXCEPT !.todo = Tail(@)]
    /\ UNCHANGED <<regvars, server, backup, calls, saved, pointed>>

mn_send_commit ==
    /\ call.pc = "dump" /\ call.todo = <<>>
    /\ IF ~net.up THEN Fails(<<>>)
       ELSE net' = ToM([kind |-> "commit"])
            /\ call' = [call EXCEPT !.pc = "commit"]
    /\ UNCHANGED <<regvars, server, backup, calls, saved, pointed>>

CommitReply ==
    /\ call.pc = "commit" /\ CanRead
    /\ IF Read.kind = "ok"
       THEN net' = AfterRead /\ call' = [call EXCEPT !.pc = "dump_unlink"]
       ELSE Fails(<<[kind |-> "EXIT"]>>)
    /\ UNCHANGED <<regvars, server, backup, calls, saved, pointed>>

\* Only when the process has unlinked are the deleted objects forgotten.
mn_get_unlink ==
    /\ call.pc = "dump_unlink" /\ CanRead
    /\ IF Read.kind = "UNLINK"
       THEN /\ net' = AfterRead /\ call' = Idle(0)
            /\ IF "NOPURGE" \in call.flags THEN UNCHANGED regvars ELSE ei_reg_purge
       ELSE Fails(<<>>) /\ UNCHANGED regvars
    /\ UNCHANGED <<server, backup, calls, saved, pointed>>

\* The answer tells how many records there are.  With none there is nothing to
\* do; otherwise the process is asked to send them, when there is memory for
\* the largest message and the largest key.  An exit is sent when the process is
\* known, that is, after its answer.
mn_start_restore ==
    /\ call.pc = "start_restore" /\ CanRead
    /\ LET need == call.need \ {Read.kind}
           want == IF Read.kind = "REPLY" THEN Read.count ELSE call.want
           exit == <<[kind |-> "EXIT"]>>
       IN  IF Read.kind \notin call.need
           THEN Fails(IF "REPLY" \in call.need THEN <<>> ELSE exit)
           ELSE IF need # {}
           THEN call' = [call EXCEPT !.need = need, !.want = want] /\ net' = AfterRead
           ELSE IF want = 0
           THEN /\ call' = Idle(0)
                /\ net' = IF net.up THEN [AfterRead EXCEPT !.toM = @ \o exit] ELSE AfterRead
           ELSE IF ~net.up THEN Fails(<<>>)
           ELSE \/ "message" \in MayFail /\ Fails(exit)
                \/ /\ net' = [AfterRead EXCEPT !.toM = Append(@, [kind |-> "send_records"])]
                   /\ call' = [call EXCEPT !.need = {}, !.want = want, !.pc = "restore"]
    /\ UNCHANGED <<regvars, server, backup, calls, saved, pointed>>

\* A value that is not empty needs a block.
NoBlock(rec) ==
    rec.type \in Pointer /\ rec.size > 0 /\ \A b \in Block : heap[b] # NULL

\* Insert the record of a message: strings and binaries get a new block, unless
\* they are empty; an empty binary gets the pointer that was dumped.  What the
\* set function returns is not looked at: a block it has not taken is lost.
mn_decode_insert(k, rec, memory) ==
    \/ rec.type = "INT" /\ ei_reg_setival(k, rec.val, memory)
    \/ rec.type = "FLT" /\ ei_reg_setfval(k, rec.val, memory)
    \/ /\ rec.type \in Pointer /\ rec.size > 0
       /\ \E b \in Block :
             /\ heap[b] = NULL
             /\ IF NoObject(k, memory)
                THEN heap' = Filled(b, rec.val) /\ UNCHANGED <<tab, obj, objfree, wild>>
                ELSE IF rec.type = "STR" THEN ei_reg_setsval(k, b, Filled(b, rec.val), memory)
                ELSE ei_reg_setpval(k, b, rec.size, Filled(b, rec.val), memory)
    \/ rec.type = "STR" /\ rec.size = 0 /\ ei_reg_setsval(k, NULL, heap, memory)
    \/ rec.type = "BIN" /\ rec.size = 0 /\ ei_reg_setpval(k, rec.val, 0, heap, memory)

\* A record holds a pointer that is not the one its object has.
Stale(k, rec) ==
    /\ rec.type = "BIN" /\ rec.size = 0 /\ rec.val # NULL
    /\ ~(ei_hash_lookup(tab, k) /\ obj[k].size = 0 /\ obj[k].val = rec.val)

RestoreRecord ==
    /\ call.pc = "restore" /\ call.want > 0 /\ CanRead
    /\ IF Read.kind = "restore" /\ ~NoBlock(Read.rec)
       THEN \E memory \in Missing :
                /\ mn_decode_insert(Read.key, Read.rec, memory)
                /\ call' = [call EXCEPT
                               !.want = @ - 1,
                               !.short = @ \/ ~ei_hash_lookup(tab', Read.key)]
                /\ net' = AfterRead
                /\ pointed' = (pointed \/ Stale(Read.key, Read.rec))
       ELSE Fails(<<[kind |-> "EXIT"]>>) /\ UNCHANGED <<regvars, pointed>>
    /\ UNCHANGED <<server, backup, calls, saved>>

\* The marks of all the objects are cleared, of those that were there before
\* the restore as well.
clean_obj(o) == [o EXCEPT !.dirty = FALSE]

mn_unlink ==
    /\ call.pc = "restore" /\ call.want = 0 /\ CanRead
    /\ IF Read.kind = "UNLINK"
       THEN /\ net' = AfterRead
            /\ call' = [Idle(0) EXCEPT !.short = call.short]
            /\ obj' = [k \in Key |-> IF ei_hash_lookup(tab, k)
                                     THEN clean_obj(obj[k]) ELSE obj[k]]
            /\ UNCHANGED <<tab, objfree, heap, wild>>
       ELSE Fails(<<>>) /\ UNCHANGED regvars
    /\ UNCHANGED <<server, backup, calls, saved, pointed>>

-----------------------------------------------------------------------------
(* The process of Mnesia. *)

Serves(kind) ==
    /\ net.toM # <<>> /\ Head(net.toM).kind = kind
    /\ UNCHANGED <<regvars, call, calls, saved, pointed>>

\* Take the message and send others; what is sent on a closed connection is lost.
Handle(ms) ==
    net' = [net EXCEPT !.toM = Tail(@), !.toC = IF net.up THEN @ \o ms ELSE @]

\* The link of the process and the answer of rpc may change places.
Linked(reply) ==
    \E ms \in {<<[kind |-> "LINK"], reply>>, <<reply, [kind |-> "LINK"]>>} : Handle(ms)

start_dump ==
    /\ Serves("start_dump") /\ Linked([kind |-> "REPLY"])
    /\ server' = [state |-> "dump", ops |-> <<>>]
    /\ UNCHANGED backup

\* The records are read in a transaction, which may abort.
start_restore ==
    /\ Serves("start_restore")
    /\ \/ /\ Linked([kind |-> "REPLY", count |-> Cardinality({k \in Key : backup[k] # NULL})])
          /\ server' = [state |-> "restore", ops |-> <<>>]
       \/ Handle(<<[kind |-> "LINK"], [kind |-> "EXIT"]>>) /\ UNCHANGED server
    /\ UNCHANGED backup

dump_loop ==
    /\ \E kind \in {"write", "delete"} : Serves(kind)
    /\ server' = IF server.state = "dump"
                 THEN [server EXCEPT !.ops = <<Head(net.toM)>> \o @] ELSE server
    /\ Handle(<<>>)
    /\ UNCHANGED backup

\* Mutation: the table is emptied first.
HandleOpsFromEmpty ==
    LET Apply(b, op) ==
            [b EXCEPT ![op.key] = IF op.kind = "write" THEN op.rec ELSE NULL]
    IN  FoldLeft(Apply, [k \in Key |-> NULL], server.ops)

\* The operations are applied in the order of the list, the last one first.
handle_ops ==
    LET Apply(b, op) ==
            [b EXCEPT ![op.key] = IF op.kind = "write" THEN op.rec ELSE NULL]
    IN  FoldLeft(Apply, backup, server.ops)

Commit ==
    /\ Serves("commit") /\ server.state = "dump"
    /\ server' = NoServer
    /\ \/ backup' = handle_ops /\ Handle(<<[kind |-> "ok"], [kind |-> "UNLINK"]>>)
       \/ UNCHANGED backup /\ Handle(<<[kind |-> "EXIT"]>>)

send_records ==
    /\ Serves("send_records") /\ server.state = "restore"
    /\ server' = NoServer
    /\ LET ks == SetToSeq({k \in Key : backup[k] # NULL})
       IN  Handle([i \in DOMAIN ks |->
                       [kind |-> "restore", key |-> ks[i], rec |-> backup[ks[i]]]]
                  \o <<[kind |-> "UNLINK"]>>)
    /\ UNCHANGED backup

\* An exit signal ends the process; what is sent to a process that has ended
\* is dropped.
Exit ==
    /\ Serves("EXIT") /\ server' = NoServer /\ Handle(<<>>) /\ UNCHANGED backup

Late ==
    /\ \E kind \in {"commit", "send_records"} : Serves(kind)
    /\ server.state = "none"
    /\ Handle(<<>>) /\ UNCHANGED <<server, backup>>

-----------------------------------------------------------------------------
(* The connection. *)

\* Messages that have not arrived are lost.
Break ==
    /\ net.up /\ call.pc # "idle"
    /\ \E i \in 0..Len(net.toM) : \E j \in 0..Len(net.toC) :
          net' = [up |-> FALSE, toM |-> SubSeq(net.toM, 1, i),
                  toC |-> SubSeq(net.toC, 1, j)]
    /\ UNCHANGED <<regvars, call, server, backup, calls, saved, pointed>>

\* The link to a node that is gone ends the process.
NoConnection ==
    /\ ~net.up
    /\ server' = NoServer /\ net' = [net EXCEPT !.toM = <<>>]
    /\ server # NoServer \/ net.toM # <<>>
    /\ UNCHANGED <<regvars, call, backup, calls, saved, pointed>>

Reconnect ==
    /\ ~net.up /\ call.pc = "idle" /\ server = NoServer /\ net.toM = <<>>
    /\ net' = Connected
    /\ UNCHANGED <<regvars, call, server, backup, calls, saved, pointed>>

-----------------------------------------------------------------------------

BInit ==
    /\ ei_reg_open
    /\ call = Idle(0) /\ net = Connected /\ server = NoServer /\ calls = 0
    /\ backup = [k \in Key |-> NULL] /\ saved = [k \in Key |-> NULL]
    /\ pointed = FALSE

Client ==
    \/ mn_start_dump \/ DumpObject \/ mn_send_commit \/ CommitReply \/ mn_get_unlink
    \/ mn_start_restore \/ RestoreRecord \/ mn_unlink

Server ==
    \/ start_dump \/ start_restore \/ dump_loop \/ Commit \/ send_records
    \/ Exit \/ Late \/ NoConnection

BNext ==
    \/ Setting \/ Tidy \/ ei_reg_dump \/ ei_reg_restore \/ Client \/ Server
    \/ Break \/ Reconnect

BSpec == BInit /\ [][BNext]_bvars

-----------------------------------------------------------------------------
(* Properties. *)

Obj == [type : {"INT", "FLT", "STR", "BIN"}, val : Content \cup Block \cup {NULL},
        size : {0, 1}, dirty : BOOLEAN, delet : BOOLEAN]

\* The table, the objects and the heap have the values of their declarations.
RegTypeOK ==
    /\ tab.size \in Nat /\ DOMAIN tab.chain = 0..(tab.size - 1)
    /\ \A i \in DOMAIN tab.chain : tab.chain[i] \in Seq(Key)
    /\ obj \in [Key -> Obj \cup {NULL}]
    /\ objfree \in Nat /\ tab.freelist \in Nat
    /\ heap \in [Block -> Content \cup {NULL}]

\* After any sequence of insertions, purges and resizes every object is in the
\* chain its key hashes to, once, and the counters that ei_reg_tabstat reports
\* are those of the chains (hash_insert.c, hash_resize.c, reg_purge.c).
TableSound ==
    /\ \A k \in Key : (obj[k] # NULL) <=> ei_hash_lookup(tab, k)
    /\ Len(Traversal(tab)) = Cardinality({k \in Key : obj[k] # NULL})
    /\ ei_reg_tabstat.nelem = Len(Traversal(tab))
    /\ ei_reg_tabstat.npos = Cardinality({i \in DOMAIN tab.chain : tab.chain[i] # <<>>})

\* No block is freed twice, none is freed while an object still points to it,
\* and no two objects share one (reg_free.c, the set functions).
BlocksOwned ==
    /\ ~wild
    /\ \A k \in Key : obj[k] # NULL /\ obj[k].type \in Pointer =>
          /\ obj[k].val # NULL => heap[obj[k].val] # NULL
          /\ \A j \in Key \ {k} : obj[j] # NULL /\ obj[j].type \in Pointer =>
                 obj[j].val # obj[k].val \/ obj[k].val = NULL

\* Every block in use belongs to an object.  False: a value of size 0 that is
\* replaced is not freed, and the value of a key that gets no bucket, or of a
\* restored record that gets no object, is forgotten.
NothingLost ==
    \A b \in Block : heap[b] # NULL =>
        \E k \in Key : obj[k] # NULL /\ obj[k].type \in Pointer /\ obj[k].val = b

\* For the program the registry is a map from keys to values, whatever becomes
\* of the table: resizing, purging and dumping change nothing that it can see.
Visible == [k \in Key |-> ei_reg_getval(k, NULL)]
ValuesKept ==
    [][~pointed /\ (call.pc \in {"start_dump", "dump", "commit", "dump_unlink"} \/ Tidy) =>
          Visible' = Visible]_<<tab, obj, heap>>

\* Table and objects agree, and the objects own their blocks for as long as no
\* record of a binary of size 0 puts a pointer of an earlier time into the table:
\* dumped as a number (reg_dump.c), it is a pointer again when it is restored.
RegistrySound == RegTypeOK /\ TableSound /\ (~pointed => BlocksOwned)

Stored(s) == IF s.obj.delet THEN NULL ELSE s.image

\* The table of Mnesia changes in one step, to what the registry was when the
\* dump began: every object that was to be dumped, and no other, is brought up
\* to date, wherever a call failed or the connection broke.
BackupUpdated ==
    [][backup' # backup =>
          \A k \in Key : backup'[k] \in
              {backup[k]} \cup (IF saved[k] = NULL THEN {} ELSE {Stored(saved[k])})]_bvars

\* When ei_reg_dump returns success, everything that was dirty is saved: a
\* deleted object is purged only when the table has forgotten it too.
DumpSaves ==
    [][call.pc = "dump_unlink" /\ call'.ret = 0 =>
          \A k \in Key : saved[k] # NULL /\ Selected(saved[k].obj, call.flags) =>
              backup[k] = Stored(saved[k])]_bvars

\* When ei_reg_restore returns success and memory has not run out, the registry
\* holds every record of the table, and clean.
RestoreComplete ==
    [][call.pc = "restore" /\ call'.pc = "idle" /\ call'.ret = 0 /\ ~call.short
       /\ ~pointed =>
          \A k \in Key : backup[k] # NULL =>
              obj[k] # NULL /\ Image(obj[k]) = backup[k]
              /\ ~obj'[k].dirty]_bvars

\* What a dump and a restore promise together: neither changes what the program
\* sees but by restoring it, the backup only goes from one state of the registry
\* to another, and success is reported when it is one (reg_dump.c, reg_restore.c).
BackupTrue == ValuesKept /\ BackupUpdated /\ DumpSaves /\ RestoreComplete

\* "dirty bit (object value differs from backup)" (ei.h).
DirtyIfDiffers ==
    call.pc = "idle" =>
        \A k \in Key : Found(k) /\ ~obj[k].dirty => backup[k] = Image(obj[k])

=============================================================================

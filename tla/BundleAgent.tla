----------------------------- MODULE BundleAgent -----------------------------
(***************************************************************************)
(* The bundle agent and the file system together.  The agent keeps a       *)
(* struct INODE between calls, a copy that fs_create or fs_open has filled *)
(* in.  fs_delete and fs_close believe the copy: they look neither at the  *)
(* inode on disk nor at its bit.  Meanwhile other calls may have given the *)
(* bundle up, without telling the agent, and the slot and the sectors to   *)
(* another one.  So the agent here follows a rule that the code does not   *)
(* enforce: it uses a copy only as long as it is entitled to the bundle.   *)
(***************************************************************************)
EXTENDS FileSystem

CONSTANTS
    NoFile,    \* the agent has no copy
    Garbage    \* a copy read from a sector that holds no inodes

VARIABLE file       \* the agent's copy of an inode

agentVars == <<fs, clock, result, file>>

HasCopy == file \notin {NoFile, Garbage}

\* What the agent can tell by itself: it has custody of the bundle and the
\* bundle has not expired, so the file system has no right to give it up.
Entitled == file.custody /\ ~IsNotValid(file)

Usable == HasCopy /\ Entitled

AgentInit == Init /\ file = NoFile

\* The agent keeps the copy of the new bundle, or hands it on at once.
AgentCreate(size, ttl, custody) ==
    /\ FsCreate(size, ttl, custody)
    /\ \/ file' = file
       \/ /\ CreateBundle(size, ttl, custody)
          /\ file' = NewInode(RoomFor(size), size, ttl, custody)

\* fs_open checks the bit of the inode and no more.  The bits from InodeMax
\* on are 1, and the sectors behind the inode block hold data of bundles.
FsOpen(n) ==
    /\ UNCHANGED <<fs, clock>>
    /\ IF n \in fs.it
       THEN /\ result' = [call |-> "fs_open", code |-> "FS_OK"]
            /\ file' = IF n < InodeMax(fs) THEN fs.inodes[n] ELSE Garbage
       ELSE /\ result' = [call |-> "fs_open", code |-> "FS_PARAM_ERROR"]
            /\ file' = file

AgentDelete ==
    /\ Usable
    /\ FsDelete(file)
    /\ file' = NoFile

AgentClose(ttl, custody) ==
    /\ Usable
    /\ file' = [file EXCEPT !.custody = custody, !.time_to_live = ttl]
    /\ FsClose(file')

Maintenance == DeleteInvalidInodes \/ RestoreFs

AgentNext ==
    \/ \E size \in Sizes, ttl \in TTLs, custody \in BOOLEAN :
         AgentCreate(size, ttl, custody)
    \/ \E n \in InodeNumbers : FsOpen(n)
    \/ AgentDelete
    \/ \E ttl \in TTLs, custody \in BOOLEAN : AgentClose(ttl, custody)
    \/ Maintenance /\ UNCHANGED file
    \/ Tick /\ UNCHANGED file

AgentSpec == AgentInit /\ [][AgentNext]_agentVars

-----------------------------------------------------------------------------
(* Properties.                                                             *)

\* The copy of a bundle that the agent has custody of, and that has not
\* expired, still is what the disk holds, whatever fs_create has deleted for
\* room and delete_invalid_inodes has collected since it was made.
EntitledCopyIsFresh ==
    HasCopy /\ Entitled =>
      file.inode_offset \in Live(fs) /\ fs.inodes[file.inode_offset] = file

\* fs_delete gives up the file that it is called with and no other: every
\* other bundle keeps its inode and its sectors.
OnlyTheFileIsDeleted ==
    [][AgentDelete =>
         \A n \in Live(fs) :
           fs.inodes[n] # file => /\ n \in Live(fs')
                                  /\ Bits(fs.inodes[n]) \subseteq fs'.at
      ]_agentVars
=============================================================================

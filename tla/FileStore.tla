------------------------------ MODULE FileStore ------------------------------
(***************************************************************************)
(* What the file system promises to a client that neither truncates nor    *)
(* unlinks a file that others use: named files with a content of their     *)
(* own, and handles that stand at a position of one file.  Inodes, blocks, *)
(* the directory and the tables are not visible; that they are finite      *)
(* shows only in calls that fail, which change nothing here.               *)
(***************************************************************************)
EXTENDS Naturals, Sequences

CONSTANTS Name, Handle, Byte, BlockSize,
          Mode          \* the modes a client may open a file with

VARIABLES files,    \* files[n]: the content of file n, for the names in use
          opened,   \* opened[h]: the file and position of handle h, if open
          leaked,   \* handles that are neither open nor free again
          got       \* what the last read returned

vars == <<files, opened, leaked, got>>

Init == files = <<>> /\ opened = <<>> /\ leaked = {} /\ got = <<>>

(* An open truncates or creates the file before it looks for a handle.     *)
Opened(n, mode) ==
    LET old == IF n \in DOMAIN files /\ "trunc" \notin mode THEN files[n] ELSE <<>>
    IN  [m \in DOMAIN files \cup {n} |-> IF m = n THEN old ELSE files[m]]

Open(n, mode, h) ==
    LET start == IF "append" \in mode THEN Len(Opened(n, mode)[n]) ELSE 0
    IN  /\ h \notin DOMAIN opened \cup leaked
        /\ n \in DOMAIN files \/ "creat" \in mode
        /\ opened' = [k \in DOMAIN opened \cup {h} |->
                         IF k = h THEN [name |-> n, off |-> start] ELSE opened[k]]
        /\ files' = Opened(n, mode)
        /\ got' = <<>>
        /\ UNCHANGED leaked

(* No handle is left; the file stays created or truncated.                 *)
OpenFindsNoHandle(n, mode) ==
    /\ DOMAIN opened \cup leaked = Handle
    /\ n \in DOMAIN files \/ "creat" \in mode
    /\ files' = Opened(n, mode)
    /\ got' = <<>>
    /\ UNCHANGED <<opened, leaked>>

Without(f, x) == [y \in DOMAIN f \ {x} |-> f[y]]

Close(h) == /\ h \in DOMAIN opened
            /\ opened' = Without(opened, h)
            /\ got' = <<>>
            /\ UNCHANGED <<files, leaked>>

(* A handle is forgotten by its client: its file counts as unused again.   *)
Leak(h) == /\ h \in DOMAIN opened
           /\ opened' = Without(opened, h)
           /\ leaked' = leaked \cup {h}
           /\ got' = <<>>
           /\ UNCHANGED files

(* File content s with bytes laid over it behind its first off bytes.      *)
Overlay(s, off, bytes) ==
    [i \in 1 .. (IF off + Len(bytes) > Len(s) THEN off + Len(bytes) ELSE Len(s)) |->
        IF i > off /\ i <= off + Len(bytes) THEN bytes[i - off] ELSE s[i]]

Write(h, bytes) ==
    LET n == opened[h].name
        off == opened[h].off
    IN  /\ h \in DOMAIN opened
        /\ off + Len(bytes) <= BlockSize
        /\ opened' = [opened EXCEPT ![h].off = @ + Len(bytes)]
        /\ files' = [files EXCEPT ![n] = Overlay(@, off, bytes)]
        /\ got' = <<>>
        /\ UNCHANGED leaked

(* A read returns what is there, from the position of the handle on.       *)
Read(h, len) ==
    LET s == files[opened[h].name]
        off == opened[h].off
        upto == IF off + len > Len(s) THEN Len(s) ELSE off + len
    IN  /\ h \in DOMAIN opened
        /\ got' = SubSeq(s, off + 1, upto)
        /\ opened' = [opened EXCEPT ![h].off = upto]
        /\ UNCHANGED <<files, leaked>>

Unlink(n) == /\ n \in DOMAIN files
             /\ \A h \in DOMAIN opened : opened[h].name # n
             /\ files' = Without(files, n)
             /\ got' = <<>>
             /\ UNCHANGED <<opened, leaked>>

(* A call that fails.                                                      *)
Fail == got' = <<>> /\ UNCHANGED <<files, opened, leaked>>

Bytes == UNION {[1 .. k -> Byte] : k \in 0 .. BlockSize}

Next == \/ Fail
        \/ \E h \in Handle : \/ Close(h) \/ Leak(h)
                             \/ \E len \in 0 .. BlockSize : Read(h, len)
                             \/ \E bytes \in Bytes : Write(h, bytes)
        \/ \E n \in Name : Unlink(n)
        \/ \E n \in Name, mode \in Mode :
              \/ OpenFindsNoHandle(n, mode)
              \/ \E h \in Handle : Open(n, mode, h)

Spec == Init /\ [][Next]_vars
==============================================================================

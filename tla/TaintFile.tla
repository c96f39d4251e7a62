----------------------------- MODULE TaintFile -----------------------------
(***************************************************************************)
(* The taint-source bookkeeping of the runtime                             *)
(* (src/llvm_mode/dfsan_rt/dfsan/dfsan.cc): the static struct tainted,     *)
(* its set-up by InitializeTaintFile from the taint_file flag, and the     *)
(* entry points the libc interceptors call: taint_set_file on open,        *)
(* taint_close_file on close, taint_get_file on read (a nonzero size       *)
(* makes the read label the bytes it returns), is_taint_file,              *)
(* set_utmp_offset and taint_set_offset_label.                             *)
(*                                                                         *)
(* The interceptors are not in the repository; the program's calls are     *)
(* environment actions, each an OS call together with the runtime entry    *)
(* point its interceptor makes.  The kernel hands out the lowest free      *)
(* descriptor.  A descriptor is open on "input" (the taint source: the     *)
(* flag's file, or standard input when the flag is "stdin"), on "stdin"    *)
(* (standard input when it is not the source), on "other", or "closed".    *)
(* A path is "input", "other", or "vanished": another file, unlinked      *)
(* between the call and the runtime's realpath.                           *)
(***************************************************************************)
EXTENDS Integers, FiniteSets

CONSTANTS
    Fds,            \* descriptor numbers the program can hold; 0 is stdin
    FileSize,       \* st_size of the taint file
    UtmpOffsets,    \* offsets the utmp interceptors pass to set_utmp_offset
    OffsetLabels    \* labels passed to taint_set_offset_label

ASSUME Fds = 0..Cardinality(Fds) - 1 /\ FileSize \in Nat \ {0}

VARIABLES
    mode,       \* the taint_file flag: "stdin", "none" ("") or "path"
    tainted,    \* struct taint_file: [fd, size, is_stdin, is_utmp, offset,
                \* offset_label, named]; named: filename holds the real path
    os          \* descriptor -> object it is open on, or "closed"

vars == <<mode, tainted, os>>

\* The static struct before InitializeTaintFile: zero-initialised storage.
Zeroed == [fd |-> 0, size |-> 0, is_stdin |-> FALSE, is_utmp |-> FALSE,
           offset |-> 0, offset_label |-> 0, named |-> FALSE]

(***************************************************************************)
(* InitializeTaintFile, bookkeeping part: for "stdin", fd 0 and the size   *)
(* fstat(0) gives, or size 1 and is_stdin when fstat fails (stdin          *)
(* closed); for "", fd -1; for a path, the real path and size, or an      *)
(* early return when realpath fails.  The path branch never assigns fd.   *)
(* When fstat succeeds the runtime maps a copy of fd 0; for a pipe or an   *)
(* empty file that mmap fails and the process dies (line 1549), so an     *)
(* open stdin in stdin mode is a regular file of FileSize bytes.           *)
(***************************************************************************)
InitTainted(m, stdinOpen, resolved) ==
    CASE m = "stdin" /\ stdinOpen -> [Zeroed EXCEPT !.size = FileSize]
      [] m = "stdin" -> [Zeroed EXCEPT !.size = 1, !.is_stdin = TRUE]
      [] m = "none"  -> [Zeroed EXCEPT !.fd = -1]
      [] resolved    -> [Zeroed EXCEPT !.size = FileSize, !.named = TRUE]
      [] OTHER       -> Zeroed

Init ==
    \E m \in {"stdin", "none", "path"}, stdinOpen, resolved \in BOOLEAN :
        /\ mode = m
        /\ tainted = InitTainted(m, stdinOpen, resolved)
        /\ os = [d \in Fds |-> IF d = 0 /\ stdinOpen
                               THEN IF m = "stdin" THEN "input" ELSE "stdin"
                               ELSE "closed"]

\* taint_get_file(fd): the size for the recorded descriptor, else 0.
GetFile(d) == IF tainted.fd = d THEN tainted.size ELSE 0

\* A path names the taint file when tainted.filename holds its real path.
IsTaint(obj) == obj = "input" /\ tainted.named

(* The outcomes of internal_strcmp(tainted.filename, path) after           *)
(* realpath(filename, path), whose result is not checked: for a vanished  *)
(* path, path[] is uninitialised stack memory, which may still hold the   *)
(* real path of the taint file resolved by an earlier call, or an empty   *)
(* string equal to a filename that was never set.                         *)
Matches(obj) == IF obj = "vanished" THEN BOOLEAN ELSE {IsTaint(obj)}

Free == {d \in Fds : os[d] = "closed"}
Lowest(S) == CHOOSE d \in S : \A e \in S : d <= e

(* open() of a file by path, then taint_set_file(path, fd): the descriptor *)
(* is recorded when the path resolves to the taint file.  Only in path     *)
(* mode does the taint source have a path.                                 *)
Open(obj) ==
    /\ Free # {}
    /\ obj = "input" => mode = "path"
    /\ LET d == Lowest(Free) IN
       /\ os' = [os EXCEPT ![d] = IF obj = "vanished" THEN "other" ELSE obj]
       /\ \E match \in Matches(obj) :
             tainted' = IF match THEN [tainted EXCEPT !.fd = d] ELSE tainted
    /\ UNCHANGED mode

(* close(fd), then taint_close_file(fd): forget the recorded descriptor.   *)
Close(d) ==
    /\ os[d] # "closed"
    /\ os' = [os EXCEPT ![d] = "closed"]
    /\ tainted' = IF d = tainted.fd THEN [tainted EXCEPT !.fd = -1] ELSE tainted
    /\ UNCHANGED mode

(* is_taint_file(path) from the utmp interceptors: is_utmp records whether *)
(* the last path asked about was the taint file.                           *)
IsTaintFile(obj) ==
    /\ obj = "input" => mode = "path"
    /\ \E match \in Matches(obj) : tainted' = [tainted EXCEPT !.is_utmp = match]
    /\ UNCHANGED <<mode, os>>

SetUtmpOffset(o) ==
    /\ tainted' = [tainted EXCEPT !.offset = o]
    /\ UNCHANGED <<mode, os>>

SetOffsetLabel(l) ==
    /\ tainted' = [tainted EXCEPT !.offset_label = l]
    /\ UNCHANGED <<mode, os>>

Next ==
    \/ \E obj \in {"input", "other", "vanished"} : Open(obj) \/ IsTaintFile(obj)
    \/ \E d \in Fds : Close(d)
    \/ \E o \in UtmpOffsets : SetUtmpOffset(o)
    \/ \E l \in OffsetLabels : SetOffsetLabel(l)

Spec == Init /\ [][Next]_vars

-----------------------------------------------------------------------------
TypeOK ==
    /\ mode \in {"stdin", "none", "path"}
    /\ tainted.fd \in Fds \cup {-1}
    /\ os \in [Fds -> {"input", "stdin", "other", "closed"}]

(***************************************************************************)
(* A read labels the bytes it returns exactly when taint_get_file is       *)
(* nonzero for its descriptor, so taint_get_file must be nonzero for the  *)
(* open descriptors on the taint source and for no other, whatever the     *)
(* program opened and closed before: no other bytes get input labels, and *)
(* no read of the input goes unlabelled.                                   *)
(***************************************************************************)
TaintSourceExact ==
    \A d \in Fds : os[d] # "closed" => (GetFile(d) # 0 <=> os[d] = "input")

=============================================================================

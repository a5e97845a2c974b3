----------------------------- MODULE AcpiTable -----------------------------
(***************************************************************************)
(* The MYTB table: the UEFI application that installs it                   *)
(* (MyAddAcpiApp.c), the one that overwrites installed tables (MyAcpi.c),  *)
(* and the driver that shows its string under /sys (my_acpi_message.c).    *)
(*                                                                         *)
(* A table is [len, sum, body]: the length and the checksum its header     *)
(* records, and the other bytes, of which the last ones are MyString.      *)
(* Bytes are numbers modulo Byte; a byte 0 ends a string.  The firmware's  *)
(* table protocol and the ACPI core are external.                          *)
(***************************************************************************)
EXTENDS Integers, Sequences, SequencesExt

CONSTANTS
    Byte,       \* 2^8
    HeaderLen,  \* bytes of the header besides the checksum
    StringLen,  \* the size of MyString (64)
    Texts,      \* strings the application may be built with
    CopyLen,    \* how much of the string it copies (50)
    MaxShows,   \* bound on the reads of the sysfs file
    Refused     \* no answer

VARIABLES
    app,        \* where MyAddAcpiApp is
    pool,       \* the table it allocated, Refused when none
    tables,     \* the tables the firmware has
    built,      \* the string it was built with
    booted,     \* the kernel runs
    driver,     \* "none", "failed", "ready" or "gone"
    refs,       \* references taken on the table in the kernel
    shown       \* what the last read of the file returned

acpiVars == <<app, pool, tables, built, booted, driver, refs, shown>>

AcpiInit ==
    /\ built \in Texts
    /\ app = "start" /\ pool = Refused /\ tables = <<>>
    /\ booted = FALSE /\ driver = "none" /\ refs = 0 /\ shown = Refused

-----------------------------------------------------------------------------
(* The applications.                                                       *)

SumOf(bytes) == FoldLeft(LAMBDA a, b : (a + b) % Byte, 0, bytes)

CalculateChecksum(bytes) == (Byte - 1 - SumOf(bytes) + 1) % Byte

\* The header has other bytes than the checksum; here each of them is 1, and
\* the one that holds the length counts as the length.
Header(len) == [i \in 1 .. HeaderLen |-> IF i = 1 THEN len % Byte ELSE 1]

\* CopyMem of CopyLen bytes of the string literal into the zeroed field.
MyString(s) == [i \in 1 .. StringLen |-> IF i <= CopyLen /\ i <= Len(s) THEN s[i] ELSE 0]

AllocateTable ==
    /\ app = "start"
    /\ \/ app' = "error" /\ UNCHANGED pool          \* no protocol, no memory
       \/ /\ app' = "fill"
          /\ pool' = [len |-> HeaderLen + 1 + StringLen, sum |-> 0,
                      body |-> Header(HeaderLen + 1 + StringLen) \o MyString(built)]
    /\ UNCHANGED <<tables, built, booted, driver, refs, shown>>

SetChecksum ==
    /\ app = "fill"
    /\ pool' = [pool EXCEPT !.sum = CalculateChecksum(pool.body)]
    /\ app' = "install"
    /\ UNCHANGED <<tables, built, booted, driver, refs, shown>>

\* The protocol keeps a copy.
InstallTable ==
    /\ app = "install"
    /\ pool' = Refused
    /\ \/ tables' = Append(tables, pool) /\ app' = "done"
       \/ UNCHANGED tables /\ app' = "error"
    /\ UNCHANGED <<built, booted, driver, refs, shown>>

\* MyAcpi's ChangeACPITable copies an empty header over a table, with as many
\* bytes as the table had; the checksum is then computed over the length that
\* was copied, 0.  What lies behind the empty header is not known.
ChangeACPITable(i) ==
    /\ ~booted /\ tables[i].len > 0
    /\ \E rest \in {[k \in 1 .. StringLen |-> b] : b \in {0, 1}} :
          tables' = [tables EXCEPT ![i] =
              [len |-> 0, sum |-> CalculateChecksum(<<>>),
               body |-> [k \in 1 .. HeaderLen |-> 0] \o rest]]
    /\ UNCHANGED <<app, pool, built, booted, driver, refs, shown>>

\* The firmware hands over to the kernel.
Boot ==
    /\ ~booted /\ app \in {"start", "done", "error"}
    /\ booted' = TRUE
    /\ app' = IF app = "start" THEN "error" ELSE app
    /\ UNCHANGED <<pool, tables, built, driver, refs, shown>>

-----------------------------------------------------------------------------
(* The driver.  acpi_get_table finds a table by its signature, which the   *)
(* empty header does not have, and takes a reference.                      *)

Mytb == {i \in 1 .. Len(tables) : tables[i].len > 0}

\* The reference is not put when the directory or the file cannot be made.
AcpiMytbInit ==
    /\ booted /\ driver = "none"
    /\ \/ /\ Mytb = {} /\ driver' = "failed" /\ UNCHANGED refs
       \/ /\ Mytb # {} /\ refs' = refs + 1
          /\ driver' \in {"failed", "ready"}
    /\ UNCHANGED <<app, pool, tables, built, booted, shown>>

\* Mutant: the string is read to the end of its field.
Strnlen_Whole(s) == s

\* strnlen and memcpy: up to the first 0, or the whole field.
Strnlen(s) ==
    LET ends == {i \in 1 .. Len(s) : s[i] = 0} IN
    IF ends = {} THEN s ELSE SubSeq(s, 1, (CHOOSE i \in ends : \A j \in ends : i <= j) - 1)

\* Each read takes a reference that is not put.
MytbShow ==
    /\ driver = "ready" /\ refs <= MaxShows
    /\ IF Mytb = {} THEN shown' = <<>> /\ UNCHANGED refs
       ELSE LET body == tables[CHOOSE i \in Mytb : TRUE].body IN
            /\ refs' = refs + 1
            /\ shown' = Strnlen(SubSeq(body, HeaderLen + 1, Len(body)))
    /\ UNCHANGED <<app, pool, tables, built, booted, driver>>

AcpiMytbExit ==
    /\ driver = "ready"
    /\ driver' = "gone"
    /\ UNCHANGED <<app, pool, tables, built, booted, refs, shown>>

AcpiNext ==
    \/ AllocateTable \/ SetChecksum \/ InstallTable
    \/ \E i \in 1 .. Len(tables) : ChangeACPITable(i)
    \/ Boot
    \/ AcpiMytbInit \/ MytbShow \/ AcpiMytbExit

-----------------------------------------------------------------------------
(* Properties.                                                             *)

\* Every variable has its type, and the application that has ended, whichever
\* step failed, has freed its table.
AcpiTypeOK ==
    /\ app \in {"start", "fill", "install", "done", "error"}
    /\ driver \in {"none", "failed", "ready", "gone"}
    /\ refs \in 0 .. MaxShows + 1
    /\ (pool # Refused) = (app \in {"fill", "install"})

\* Every table the firmware has adds up to 0 over the length its header records,
\* as ACPI demands; one that MyAcpi overwrote has the length 0.
ChecksumsAddUp ==
    \A i \in 1 .. Len(tables) :
        LET t == tables[i] IN
        t.len > 0 => (SumOf(t.body) + t.sum) % Byte = 0

\* The file shows the part of the string that was copied, to its end, whatever
\* was done to the firmware's tables before: no byte of the field behind it.
ShowsString ==
    shown # Refused =>
        shown = SubSeq(built, 1, IF Len(built) < CopyLen THEN Len(built) ELSE CopyLen)

\* There is a file only where the kernel has the table, with a reference, so
\* that a read of the file never fails.
FileHasTable == driver = "ready" => Mytb # {} /\ refs > 0

\* The string that the firmware application stored is what the sysfs file shows,
\* from a table whose checksum is right and that the kernel still has.
TableShown == AcpiTypeOK /\ ChecksumsAddUp /\ ShowsString /\ FileHasTable
=============================================================================

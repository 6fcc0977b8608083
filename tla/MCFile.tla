------------------------------- MODULE MCFile -------------------------------
(* File for TLC: processes on two CPUs and a table of two files.           *)
EXTENDS File

MCModes == {{"r"}, {"w"}}

\* Once broken, what the files are does not matter to NoLeak, nor to which steps
\* change the references: the counts, the descriptors and who is where.
FileView ==
    IF broken
    THEN <<[f \in Files |-> file[f].ref], ofile, state, pc, lost,
           [p \in Procs |-> <<arg[p].f, arg[p].fd, arg[p].dir>>],
           {x \in Procs \X Fds : desc[x[1]][x[2]] # NoDesc}>>
    ELSE vars
=============================================================================

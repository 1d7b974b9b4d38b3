---------------------------- MODULE MCDatabaseJob ----------------------------
(***************************************************************************)
(* Jobs for DatabaseJob: every type with the options it knows; databases   *)
(* and tables left out so that a database may be empty afterwards.         *)
(***************************************************************************)
EXTENDS DatabaseJob

CONSTANTS d1, d2, a, b

MCNames == {d1, d2}
MCTables == {a, b}

Plain(type) ==
    [type : {type}, gzip : {TRUE}, isSlave : {FALSE}, prepare : {FALSE}, deferred : BOOLEAN,
     forbidden : {FALSE}, targets : {{All}}, excludes : {{}}]

WithExcludes(jobs) ==
    {[j EXCEPT !.excludes = x] : j \in jobs, x \in {{}, {<<d1, a>>}, {d2, <<d1, a>>, <<d1, b>>}}}

MCJobs ==
    WithExcludes(Plain("mongodb")) \cup WithExcludes(Plain("mysql_xtrabackup"))
    \cup {[j EXCEPT !.isSlave = TRUE] : j \in WithExcludes(Plain("mysql"))}
    \cup {[j EXCEPT !.targets = {d1}] : j \in Plain("mysql")}
    \cup {[j EXCEPT !.prepare = TRUE] : j \in Plain("mysql_xtrabackup")}
    \cup {[j EXCEPT !.forbidden = f] :
              j \in Plain("postgresql") \cup Plain("postgresql_basebackup"), f \in BOOLEAN}
    \cup {[j EXCEPT !.gzip = g] : j \in Plain("redis") \cup Plain("external"), g \in BOOLEAN}
=============================================================================

---------------------------- MODULE MCSourceReader ----------------------------
(* Values for SourceReader: a file of the target, named by its whole path and
   by a path from the working directory, files of Go itself, and what only
   looks like one: a directory /opt/go1 beside the GOROOT /opt/go, a project
   below a directory go/src. *)
EXTENDS SourceReader

CONSTANTS a, b, c, long

dir == <<"", "home", "app">>

app == dir \o <<"app.go">>
fmt == <<"", "usr", "local", "go", "src", "fmt.go">>
run == <<"", "opt", "go1", "run.go">>

below == <<"", "home", "go", "src", "app.go">>

ThePaths   == {app, <<"app.go">>, fmt, run, <<"">>}
TheSites   == {<<app, 2>>, <<<<"app.go">>, 3>>, <<app, 0>>, <<fmt, 1>>, <<run, 1>>, <<<<"">>, 0>>}
TheFiles   == {app, fmt}
TheGoRoot  == <<"", "opt", "go">>
Beginnings == {<<"go", "go">>, <<"go", "go1">>}
TheGoHomes == {<<"", "usr", "local", "go">>, <<"", "opt", "go">>}
TheText    == {a, b, c, long}
TheSource  == {<<>>, <<a, b, c>>, <<b, c>>, <<a, long, c>>}

UserFiles == {app, below}
UserSites == {<<app, 2>>, <<below, 2>>}
AppFiles  == {app}
AppSites  == {<<app, 2>>}
==============================================================================

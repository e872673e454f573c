--------------------------- MODULE MCSerialUpload ---------------------------
EXTENDS SerialUpload, TLC

CONSTANTS f, g, h, p, q, app

Put(path, file) == [op |-> "PUT", path |-> path, file |-> file]
Del(name) == [op |-> "DEL", name |-> name]

MCSize == f :> 2 @@ g :> 1 @@ h :> 3
MCFolderOf == p :> None @@ q :> app
\* Two files to one path, one to a folder of its own, one too large, removals
\* and a listing
MCBatches ==
    {<<Put(p, f), Put(p, g)>>, <<Put(q, g)>>, <<Put(q, h)>>, <<Del(p)>>, <<Del(app)>>,
     <<[op |-> "LS"]>>}
=============================================================================

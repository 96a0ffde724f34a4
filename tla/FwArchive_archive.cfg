SPECIFICATION FairSpec
CONSTANTS
    Builds = {1, 2, 3}
    Segments = 2
    Tasks = {"boot", "httpd", "sd", "online", "gnss"}
    NoTask = "nobody"
    Requests = {"boot", "upload", "online", "restore", "check"}
    CardEvents = {"out", "in", "other", "format"}
INVARIANTS CardShared ListedWhole
PROPERTIES KeepsNewest GnssHeard
CHECK_DEADLOCK FALSE

------------------------- MODULE EventCatalogProofs -------------------------
(***************************************************************************)
(* What EventCatalog makes of any device's answers: which triggers become  *)
(* entities does not depend on what notifies the surveillance center, and  *)
(* an entity stands for all triggers that share its unique id, which tells *)
(* the entities of a device apart.                                         *)
(***************************************************************************)
EXTENDS EventCatalog, SequenceTheorems, TLAPS

-----------------------------------------------------------------------------
(* The types of event, and unique ids.                                     *)

LEMMA EventKinds ==
    \A id \in DOMAIN EVENTS :
        /\ EVENTS[id].kind \in {"basic", "smart", "io", "pir"}
        /\ EVENTS[id].kind = "io" <=> id = "io"
        /\ EVENTS[id].kind = "pir" <=> id = "pir"
BY DEF EVENTS

LEMMA SlugsApart ==
    \A id, other \in DOMAIN EVENTS : EVENTS[id].slug = EVENTS[other].slug => id = other
BY DEF EVENTS

(* A unique id begins with the serial number and ends with the type; what  *)
(* is between them is there if it is not 0.                                *)
LEMMA UidParts ==
    ASSUME NEW serial, NEW camera \in Nat, NEW port \in Nat, NEW id
    PROVE  LET uid == UniqueId(serial, camera, port, id)
           IN  /\ uid[1] = serial
               /\ camera = 0 /\ port = 0 => Len(uid) = 2 /\ uid[2] = id
               /\ camera = 0 /\ port # 0 => Len(uid) = 3 /\ uid[2] = port /\ uid[3] = id
               /\ camera # 0 /\ port = 0 => Len(uid) = 3 /\ uid[2] = camera /\ uid[3] = id
<1> DEFINE S == {serial, camera, port, id}
<1>1. /\ <<serial>> \in Seq(S) /\ <<camera>> \in Seq(S) /\ <<port>> \in Seq(S)
      /\ <<id>> \in Seq(S) /\ <<>> \in Seq(S)
  OBVIOUS
<1> HIDE DEF S
<1>2. CASE camera = 0 /\ port = 0
  <2>1. UniqueId(serial, camera, port, id) = <<serial>> \o <<>> \o <<>> \o <<id>>
    BY <1>2 DEF UniqueId
  <2> QED
    BY <1>1, <1>2, <2>1
<1>3. CASE camera = 0 /\ port # 0
  <2>1. UniqueId(serial, camera, port, id) = <<serial>> \o <<>> \o <<port>> \o <<id>>
    BY <1>3 DEF UniqueId
  <2>2. LET uid == <<serial>> \o <<>> \o <<port>> \o <<id>>
        IN  Len(uid) = 3 /\ uid[1] = serial /\ uid[2] = port /\ uid[3] = id
    BY <1>1
  <2> QED
    BY <1>3, <2>1, <2>2
<1>4. CASE camera # 0 /\ port = 0
  <2>1. UniqueId(serial, camera, port, id) = <<serial>> \o <<camera>> \o <<>> \o <<id>>
    BY <1>4 DEF UniqueId
  <2> QED
    BY <1>1, <1>4, <2>1
<1>5. CASE camera # 0 /\ port # 0
  <2>1. UniqueId(serial, camera, port, id) = <<serial>> \o <<camera>> \o <<port>> \o <<id>>
    BY <1>5 DEF UniqueId
  <2> QED
    BY <1>1, <1>5, <2>1
<1> QED
  BY <1>2, <1>3, <1>4, <1>5

-----------------------------------------------------------------------------
(* Triggers and the events made of them.                                   *)

Channel(t) == IF EventId(t.type) = "io" THEN 0 ELSE OrElse(t.video, t.dynVideo)
Port(t) == IF EventId(t.type) = "io" THEN OrElse(t.input, t.dynInput) ELSE 0
Proxied(t) == IF EventId(t.type) = "io" THEN t.input = 0 /\ Port(t) > 0
              ELSE t.video = 0 /\ Channel(t) > 0
Url(t) == GetEventUrl(EventId(t.type), Channel(t), Port(t), Proxied(t))

(* A numbering of triggers, and numbers in their id elements.              *)
WellNumbered(T) ==
    /\ \A t \in T : /\ t.no \in Nat /\ t.video \in Nat /\ t.dynVideo \in Nat
                    /\ t.input \in Nat /\ t.dynInput \in Nat
    /\ \A t, u \in T : t.no = u.no => t = u

LEMMA InfoOfTrigger ==
    ASSUME NEW t, NEW n
    PROVE  EventInfo(t, n) =
             [no |-> t.no, id |-> EventId(t.type), channel |-> Channel(t), port |-> Port(t),
              url |-> Url(t), centre |-> t.no \in n]
BY DEF EventInfo, Channel, Port, Proxied, Url

Usable(d, T) == {t \in T : t.type # "none" /\ (EventId(t.type) = "pir" => d.pir)}

(* The triggers get_supported_events ends up with.                         *)
Chosen(d, listed) ==
    LET first == Usable(d, listed)
        scene == IF d.scene /\ ~\E t \in first : EventId(t.type) = "scenechangedetection"
                 THEN Usable(d, Single(d, "scenechangedetection", 1)) ELSE {}
        wanted == {m \in {<<id, c.channel>> : id \in DOMAIN EVENTS, c \in d.channels} :
                     /\ \E c \in d.channels :
                           c.channel = m[2] /\ \E type \in c.types : EventId(type) = m[1]
                     /\ ~\E t \in first \union scene :
                           EventId(t.type) = m[1] /\ Channel(t) = m[2]}
    IN  first \union scene \union
        (IF d.multi THEN UNION {Usable(d, Single(d, m[1], m[2])) : m \in wanted} ELSE {})

EventsOf(T, n) == {EventInfo(t, n) : t \in T}

LEMMA CreatedEvents ==
    ASSUME NEW d, NEW T, NEW n
    PROVE  CreateEvents(d, T, n) = EventsOf(Usable(d, T), n)
<1>1. CreateEvents(d, T, n) =
        {EventInfo(t, n) : t \in {u \in T : /\ u.type # "none"
                                            /\ EventId(u.type) = "pir" => d.pir}}
  BY DEF CreateEvents
<1> QED
  BY <1>1, Zenon DEF EventsOf, Usable

(* What notifies the surveillance center has no influence on which events  *)
(* there are.                                                              *)
LEMMA SupportedEvents ==
    ASSUME NEW d, NEW listed, NEW n
    PROVE  GetSupportedEvents(d, listed, n) = EventsOf(Chosen(d, listed), n)
<1> DEFINE First == Usable(d, listed)
           Scene == IF d.scene /\ ~\E t \in First : EventId(t.type) = "scenechangedetection"
                    THEN Usable(d, Single(d, "scenechangedetection", 1)) ELSE {}
           Missing == {<<id, c.channel>> : id \in DOMAIN EVENTS, c \in d.channels}
           Asked(m) == \E c \in d.channels :
                          c.channel = m[2] /\ \E type \in c.types : EventId(type) = m[1]
           Wanted == {m \in Missing :
                        /\ Asked(m)
                        /\ ~\E t \in First \union Scene :
                              EventId(t.type) = m[1] /\ Channel(t) = m[2]}
           More(m) == Usable(d, Single(d, m[1], m[2]))
           first == CreateEvents(d, listed, n)
           scene == IF d.scene /\ ~\E e \in first : e.id = "scenechangedetection"
                    THEN CreateEvents(d, Single(d, "scenechangedetection", 1), n) ELSE {}
           wanted == {m \in Missing : Asked(m) /\ ~HasEvent(first \union scene, m[1], m[2])}
           more(m) == CreateEvents(d, Single(d, m[1], m[2]), n)
<1>1. \A t : EventInfo(t, n).id = EventId(t.type) /\ EventInfo(t, n).channel = Channel(t)
  BY InfoOfTrigger
<1>2. first = EventsOf(First, n)
  BY CreatedEvents
<1>3. scene = EventsOf(Scene, n)
  <2>1. (\E e \in first : e.id = "scenechangedetection")
           <=> \E t \in First : EventId(t.type) = "scenechangedetection"
    BY <1>1, <1>2 DEF EventsOf
  <2>2. CreateEvents(d, Single(d, "scenechangedetection", 1), n)
           = EventsOf(Usable(d, Single(d, "scenechangedetection", 1)), n)
    BY CreatedEvents
  <2>3. EventsOf({}, n) = {}
    BY DEF EventsOf
  <2> HIDE DEF First, first
  <2> QED
    BY <2>1, <2>2, <2>3
<1> HIDE DEF First, Scene, first, scene
<1>4. first \union scene = EventsOf(First \union Scene, n)
  BY <1>2, <1>3 DEF EventsOf
<1>5. wanted = Wanted
  <2>1. \A m : HasEvent(first \union scene, m[1], m[2])
                  <=> \E t \in First \union Scene : EventId(t.type) = m[1] /\ Channel(t) = m[2]
    BY <1>1, <1>4 DEF HasEvent, EventsOf
  <2> HIDE DEF Asked, Missing
  <2> QED
    BY <2>1
<1>6. \A m : more(m) = EventsOf(More(m), n)
  BY CreatedEvents
<1> HIDE DEF Wanted, wanted, More, more
<1>7. UNION {more(m) : m \in wanted} = EventsOf(UNION {More(m) : m \in Wanted}, n)
  BY <1>5, <1>6 DEF EventsOf
<1>8. GetSupportedEvents(d, listed, n) =
         (first \union scene) \union (IF d.multi THEN UNION {more(m) : m \in wanted} ELSE {})
  BY DEF GetSupportedEvents, first, scene, wanted, more
<1>9. Chosen(d, listed) =
         (First \union Scene) \union (IF d.multi THEN UNION {More(m) : m \in Wanted} ELSE {})
  BY DEF Chosen, First, Scene, Wanted, More
<1> QED
  BY <1>4, <1>7, <1>8, <1>9 DEF EventsOf

LEMMA ChosenAmong ==
    ASSUME NEW d, NEW listed
    PROVE  Chosen(d, listed) \subseteq listed \union d.single
<1>1. \A T : Usable(d, T) \subseteq T
  BY DEF Usable
<1>2. \A id, channel : Single(d, id, channel) \subseteq d.single
  BY DEF Single
<1>3. \A id, channel : Usable(d, Single(d, id, channel)) \subseteq d.single
  BY <1>1, <1>2
<1> QED
  BY <1>1, <1>3 DEF Chosen

-----------------------------------------------------------------------------
(* Entities.                                                               *)

\* the triggers of a camera, 0 standing for the device, and what they share
OfCamera(T, camera) ==
    {t \in T : EventId(t.type) \in DOMAIN EVENTS
               /\ (IF camera = 0 THEN EventId(t.type) = "io" ELSE Channel(t) = camera)}
UidOf(serial, camera, t) == UniqueId(serial, camera, Port(t), EventId(t.type))
Sharing(serial, camera, T, t) ==
    {u \in OfCamera(T, camera) : UidOf(serial, camera, u) = UidOf(serial, camera, t)}
IsFirst(serial, camera, T, t) ==
    t \in OfCamera(T, camera) /\ \A u \in Sharing(serial, camera, T, t) : t.no <= u.no
Entity(serial, camera, T, t, n) ==
    [no |-> t.no, uid |-> UidOf(serial, camera, t), url |-> Url(t),
     disabled |-> ~\E u \in Sharing(serial, camera, T, t) : u.no \in n,
     of |-> {u.no : u \in Sharing(serial, camera, T, t)}]

(* Events with one unique id become one entity, that of the first.         *)
LEMMA Merged ==
    ASSUME NEW serial, NEW camera, NEW T, NEW n, NEW c
    PROVE  c \in GetDeviceEventCapabilities(serial, camera, EventsOf(T, n))
              <=> \E t \in T : IsFirst(serial, camera, T, t) /\ c = Entity(serial, camera, T, t, n)
<1> DEFINE E == {e \in EventsOf(T, n) : /\ e.id \in DOMAIN EVENTS
                                        /\ IF camera = 0 THEN EVENTS[e.id].kind = "io"
                                                         ELSE e.channel = camera}
           Uid(e) == UniqueId(serial, camera, e.port, e.id)
           Same(e) == {f \in E : Uid(f) = Uid(e)}
           Made(e) == [no |-> e.no, uid |-> Uid(e), url |-> e.url,
                       disabled |-> ~\E f \in Same(e) : f.centre, of |-> {f.no : f \in Same(e)}]
           Info(t) == EventInfo(t, n)
<1>1. \A t : /\ Info(t).no = t.no /\ Info(t).id = EventId(t.type) /\ Info(t).channel = Channel(t)
             /\ Info(t).port = Port(t) /\ Info(t).url = Url(t) /\ Info(t).centre = (t.no \in n)
  BY InfoOfTrigger
<1>2. GetDeviceEventCapabilities(serial, camera, EventsOf(T, n)) =
        {Made(e) : e \in {f \in E : \A g \in Same(f) : f.no <= g.no}}
  BY DEF GetDeviceEventCapabilities, MergeEvents
<1> HIDE DEF Info
<1>3. \A e : e \in EventsOf(T, n) <=> \E t \in T : e = Info(t)
  BY DEF EventsOf, Info
<1>4. \A t \in T : Info(t) \in E <=> t \in OfCamera(T, camera)
  BY <1>1, <1>3, EventKinds DEF OfCamera
<1>5. \A e \in E : \E t \in OfCamera(T, camera) : e = Info(t)
  BY <1>3, <1>4
<1>6. \A t : Uid(Info(t)) = UidOf(serial, camera, t)
  BY <1>1 DEF UidOf
<1> HIDE DEF E, Uid
<1>7. \A t : \A f : f \in Same(Info(t)) <=> \E u \in Sharing(serial, camera, T, t) : f = Info(u)
  <2>1. ASSUME NEW t, NEW f, f \in Same(Info(t))
        PROVE  \E u \in Sharing(serial, camera, T, t) : f = Info(u)
    BY <1>5, <1>6, <2>1 DEF Sharing
  <2>2. ASSUME NEW t, NEW u \in Sharing(serial, camera, T, t)
        PROVE  Info(u) \in Same(Info(t))
    BY <1>4, <1>6, <2>2 DEF Sharing, OfCamera
  <2> QED
    BY <2>1, <2>2
<1> HIDE DEF Same
<1>8. ASSUME NEW t
      PROVE  Made(Info(t)) = Entity(serial, camera, T, t, n)
  <2>1. (\E f \in Same(Info(t)) : f.centre)
           <=> \E u \in Sharing(serial, camera, T, t) : u.no \in n
    BY <1>1, <1>7
  <2>2. {f.no : f \in Same(Info(t))} = {u.no : u \in Sharing(serial, camera, T, t)}
    BY <1>1, <1>7
  <2> QED
    BY <1>1, <1>6, <2>1, <2>2 DEF Entity
<1>9. ASSUME NEW t \in OfCamera(T, camera)
      PROVE  (\A g \in Same(Info(t)) : Info(t).no <= g.no) <=> IsFirst(serial, camera, T, t)
  BY <1>1, <1>7 DEF IsFirst
<1> HIDE DEF Made
<1>10. ASSUME NEW t \in T, IsFirst(serial, camera, T, t), c = Entity(serial, camera, T, t, n)
       PROVE  c \in GetDeviceEventCapabilities(serial, camera, EventsOf(T, n))
  <2>1. t \in OfCamera(T, camera)
    BY <1>10 DEF IsFirst
  <2>2. Info(t) \in {f \in E : \A g \in Same(f) : f.no <= g.no}
    BY <1>4, <1>9, <1>10, <2>1
  <2> QED
    BY <1>2, <1>8, <1>10, <2>2
<1>11. ASSUME c \in GetDeviceEventCapabilities(serial, camera, EventsOf(T, n))
       PROVE  \E t \in T : IsFirst(serial, camera, T, t) /\ c = Entity(serial, camera, T, t, n)
  <2>1. PICK e \in E : c = Made(e) /\ \A g \in Same(e) : e.no <= g.no
    BY <1>2, <1>11
  <2>2. PICK t \in OfCamera(T, camera) : e = Info(t)
    BY <1>5
  <2>3. t \in T
    BY DEF OfCamera
  <2> QED
    BY <1>8, <1>9, <2>1, <2>2, <2>3
<1> QED
  BY <1>10, <1>11

(* An entity's unique id begins with the serial number and tells which     *)
(* camera and which of its triggers the entity is for.                     *)
LEMMA UidsTell ==
    ASSUME NEW serial, NEW T, WellNumbered(T),
           NEW camera \in Nat, NEW t \in OfCamera(T, camera),
           NEW other \in Nat, NEW u \in OfCamera(T, other)
    PROVE  /\ UidOf(serial, camera, t)[1] = serial
           /\ UidOf(serial, camera, t) = UidOf(serial, other, u) =>
                 camera = other /\ EventId(t.type) = EventId(u.type) /\ Port(t) = Port(u)
<1>1. /\ Port(t) \in Nat /\ Port(u) \in Nat
      /\ EventId(t.type) = "io" <=> camera = 0
      /\ EventId(u.type) = "io" <=> other = 0
      /\ camera # 0 => Port(t) = 0
      /\ other # 0 => Port(u) = 0
  BY DEF WellNumbered, OfCamera, Port, Channel, OrElse
<1> DEFINE v == UidOf(serial, camera, t)
           w == UidOf(serial, other, u)
<1>2. /\ v[1] = serial
      /\ camera = 0 /\ Port(t) = 0 => Len(v) = 2 /\ v[2] = EventId(t.type)
      /\ camera = 0 /\ Port(t) # 0 => Len(v) = 3 /\ v[2] = Port(t) /\ v[3] = EventId(t.type)
      /\ camera # 0 /\ Port(t) = 0 => Len(v) = 3 /\ v[2] = camera /\ v[3] = EventId(t.type)
  BY <1>1, UidParts DEF UidOf
<1>3. /\ other = 0 /\ Port(u) = 0 => Len(w) = 2 /\ w[2] = EventId(u.type)
      /\ other = 0 /\ Port(u) # 0 => Len(w) = 3 /\ w[2] = Port(u) /\ w[3] = EventId(u.type)
      /\ other # 0 /\ Port(u) = 0 => Len(w) = 3 /\ w[2] = other /\ w[3] = EventId(u.type)
  BY <1>1, UidParts DEF UidOf
<1> HIDE DEF v, w
<1>4. v = w => camera = other /\ EventId(t.type) = EventId(u.type) /\ Port(t) = Port(u)
  BY <1>1, <1>2, <1>3
<1> QED
  BY <1>2, <1>4 DEF v, w

\* the ids of a device's cameras, with that of the device itself
CameraIds(d) == {0} \union {d.cameras[i].id : i \in DOMAIN d.cameras}

LEMMA Entities ==
    ASSUME NEW serial, NEW d, NEW T, NEW n, NEW c
    PROVE  c \in EntityEvents(serial, d, EventsOf(T, n))
              <=> \E k \in CameraIds(d), t \in T :
                    IsFirst(serial, k, T, t) /\ c = Entity(serial, k, T, t, n)
<1>1. c \in EntityEvents(serial, d, EventsOf(T, n))
         <=> \E k \in CameraIds(d) : c \in GetDeviceEventCapabilities(serial, k, EventsOf(T, n))
  BY DEF EntityEvents, CameraIds
<1> QED
  BY <1>1, Merged

(* What an entity says of the triggers it stands for.                      *)
LEMMA EntityFacts ==
    ASSUME NEW serial, NEW d, CameraIds(d) \subseteq Nat, NEW T, WellNumbered(T), NEW n,
           NEW c \in EntityEvents(serial, d, EventsOf(T, n))
    PROVE  /\ c.uid[1] = serial /\ c.no \in Nat
           /\ c.of \subseteq {t.no : t \in T}
           /\ c.disabled \in BOOLEAN
           /\ c.disabled <=> c.of \intersect n = {}
<1>1. PICK k \in CameraIds(d), t \in T :
         IsFirst(serial, k, T, t) /\ c = Entity(serial, k, T, t, n)
  BY Entities
<1>2. c.no = t.no /\ c.uid = UidOf(serial, k, t)
  BY <1>1 DEF Entity
<1>3. /\ c.of = {u.no : u \in Sharing(serial, k, T, t)}
      /\ c.disabled = ~\E u \in Sharing(serial, k, T, t) : u.no \in n
  BY <1>1 DEF Entity
<1>4. Sharing(serial, k, T, t) \subseteq T
  BY DEF Sharing, OfCamera
<1>5. c.uid[1] = serial /\ c.no \in Nat
  <2>1. t \in OfCamera(T, k) /\ k \in Nat
    BY <1>1 DEF IsFirst
  <2> QED
    BY <1>2, <2>1, UidsTell DEF WellNumbered
<1>6. c.of \subseteq {u.no : u \in T} /\ (c.disabled <=> c.of \intersect n = {})
  BY <1>3, <1>4
<1>7. c.disabled \in BOOLEAN
  BY <1>3, Zenon
<1> QED
  BY <1>5, <1>6, <1>7

(* Two entities with one unique id are one.                                *)
LEMMA EntitiesApart ==
    ASSUME NEW serial, NEW d, CameraIds(d) \subseteq Nat, NEW T, WellNumbered(T), NEW n,
           NEW b \in EntityEvents(serial, d, EventsOf(T, n)),
           NEW c \in EntityEvents(serial, d, EventsOf(T, n)), b.uid = c.uid
    PROVE  b = c
<1>1. PICK k \in CameraIds(d), t \in T :
         IsFirst(serial, k, T, t) /\ b = Entity(serial, k, T, t, n)
  BY Entities
<1>2. PICK l \in CameraIds(d), u \in T :
         IsFirst(serial, l, T, u) /\ c = Entity(serial, l, T, u, n)
  BY Entities
<1>3. t \in OfCamera(T, k) /\ u \in OfCamera(T, l) /\ k \in Nat /\ l \in Nat
  BY <1>1, <1>2 DEF IsFirst
<1>4. UidOf(serial, k, t) = UidOf(serial, l, u)
  BY <1>1, <1>2 DEF Entity
<1>5. k = l
  BY <1>3, <1>4, UidsTell
<1>6. t \in Sharing(serial, k, T, u) /\ u \in Sharing(serial, k, T, t)
  BY <1>3, <1>4, <1>5 DEF Sharing
<1>7. t.no <= u.no /\ u.no <= t.no
  BY <1>1, <1>2, <1>5, <1>6 DEF IsFirst
<1>8. t = u
  BY <1>7 DEF WellNumbered
<1> QED
  BY <1>1, <1>2, <1>5, <1>8

LEMMA Triples ==
    \A a, b, c, x, y, z : <<a, b, c>> = <<x, y, z>> => a = x /\ b = y /\ c = z
OBVIOUS

(* The document of an event: all but that of the PIR end with a number.    *)
LEMMA UrlParts ==
    ASSUME NEW t, EventId(t.type) \in DOMAIN EVENTS
    PROVE  IF EventId(t.type) = "pir" THEN Url(t) = <<EVENTS["pir"].slug>>
           ELSE \E part : Url(t) = <<part, EVENTS[EventId(t.type)].slug,
                                    IF EventId(t.type) = "io" THEN Port(t) ELSE Channel(t)>>
<1>1. /\ EVENTS[EventId(t.type)].kind \in {"basic", "smart", "io", "pir"}
      /\ EVENTS[EventId(t.type)].kind = "io" <=> EventId(t.type) = "io"
      /\ EVENTS[EventId(t.type)].kind = "pir" <=> EventId(t.type) = "pir"
  BY EventKinds
<1> DEFINE id == EventId(t.type)
<1> HIDE DEF id
<1>2. id \in DOMAIN EVENTS /\ id = EventId(t.type)
  BY DEF id
<1>3. CASE EVENTS[id].kind = "basic"
  BY <1>1, <1>2, <1>3 DEF Url, GetEventUrl
<1>4. CASE EVENTS[id].kind = "io"
  BY <1>1, <1>2, <1>4 DEF Url, GetEventUrl
<1>5. CASE EVENTS[id].kind = "pir"
  BY <1>1, <1>2, <1>5 DEF Url, GetEventUrl
<1>6. CASE EVENTS[id].kind = "smart"
  BY <1>1, <1>2, <1>6 DEF Url, GetEventUrl
<1> QED
  BY <1>1, <1>2, <1>3, <1>4, <1>5, <1>6

(* Two entities that read and write one document are one, but for the      *)
(* document of the PIR, which has no number.                               *)
LEMMA DocumentsApart ==
    ASSUME NEW serial, NEW d, CameraIds(d) \subseteq Nat, NEW T, WellNumbered(T), NEW n,
           NEW b \in EntityEvents(serial, d, EventsOf(T, n)),
           NEW c \in EntityEvents(serial, d, EventsOf(T, n)), b.url = c.url
    PROVE  b = c \/ c.url = <<EVENTS["pir"].slug>>
<1>1. PICK k \in CameraIds(d), t \in T :
         IsFirst(serial, k, T, t) /\ b = Entity(serial, k, T, t, n)
  BY Entities
<1>2. PICK l \in CameraIds(d), u \in T :
         IsFirst(serial, l, T, u) /\ c = Entity(serial, l, T, u, n)
  BY Entities
<1>3. t \in OfCamera(T, k) /\ u \in OfCamera(T, l) /\ k \in Nat /\ l \in Nat
  BY <1>1, <1>2 DEF IsFirst
<1>4. b.url = Url(t) /\ c.url = Url(u) /\ b.uid = UidOf(serial, k, t) /\ c.uid = UidOf(serial, l, u)
  BY <1>1, <1>2 DEF Entity
<1>5. /\ EventId(t.type) \in DOMAIN EVENTS /\ EventId(u.type) \in DOMAIN EVENTS
      /\ IF EventId(t.type) = "io" THEN k = 0 ELSE Channel(t) = k /\ Port(t) = 0
      /\ IF EventId(u.type) = "io" THEN l = 0 ELSE Channel(u) = l /\ Port(u) = 0
  BY <1>3 DEF OfCamera, Channel, Port
<1>6. CASE EventId(t.type) = "pir" \/ EventId(u.type) = "pir"
  <2>1. /\ EventId(t.type) = "pir" => Url(t) = <<EVENTS["pir"].slug>>
        /\ EventId(u.type) = "pir" => Url(u) = <<EVENTS["pir"].slug>>
    BY <1>5, EventKinds, UrlParts
  <2> QED
    BY <1>4, <1>6, <2>1
<1>7. CASE EventId(t.type) # "pir" /\ EventId(u.type) # "pir"
  <2>1. PICK x : Url(t) = <<x, EVENTS[EventId(t.type)].slug,
                           IF EventId(t.type) = "io" THEN Port(t) ELSE Channel(t)>>
    BY <1>5, <1>7, UrlParts
  <2>2. PICK y : Url(u) = <<y, EVENTS[EventId(u.type)].slug,
                           IF EventId(u.type) = "io" THEN Port(u) ELSE Channel(u)>>
    BY <1>5, <1>7, UrlParts
  <2>3. /\ EVENTS[EventId(t.type)].slug = EVENTS[EventId(u.type)].slug
        /\ (IF EventId(t.type) = "io" THEN Port(t) ELSE Channel(t))
              = (IF EventId(u.type) = "io" THEN Port(u) ELSE Channel(u))
    <3>1. <<x, EVENTS[EventId(t.type)].slug, IF EventId(t.type) = "io" THEN Port(t) ELSE Channel(t)>>
            = <<y, EVENTS[EventId(u.type)].slug, IF EventId(u.type) = "io" THEN Port(u) ELSE Channel(u)>>
      BY <1>4, <2>1, <2>2
    <3> QED
      BY <3>1, Triples, Zenon
  <2>4. EventId(t.type) = EventId(u.type)
    BY <1>5, <2>3, SlugsApart
  <2>5. k = l /\ Port(t) = Port(u)
    BY <1>5, <2>3, <2>4
  <2>6. b.uid = c.uid
    BY <1>4, <2>4, <2>5 DEF UidOf
  <2> QED
    BY <2>6, EntitiesApart
<1> QED
  BY <1>6, <1>7

(* The unique ids are the same whatever notifies.                          *)
LEMMA UidsSettled ==
    ASSUME NEW serial, NEW d, NEW T, NEW m, NEW n,
           NEW c \in EntityEvents(serial, d, EventsOf(T, m))
    PROVE  \E b \in EntityEvents(serial, d, EventsOf(T, n)) : b.uid = c.uid
<1>1. PICK k \in CameraIds(d), t \in T :
         IsFirst(serial, k, T, t) /\ c = Entity(serial, k, T, t, m)
  BY Entities
<1> DEFINE b == Entity(serial, k, T, t, n)
<1>2. b \in EntityEvents(serial, d, EventsOf(T, n))
  BY <1>1, Entities
<1>3. b.uid = c.uid
  BY <1>1 DEF Entity
<1> QED
  BY <1>2, <1>3
=============================================================================
